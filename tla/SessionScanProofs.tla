-------------------------- MODULE SessionScanProofs --------------------------
(***************************************************************************)
(* Proofs about SessionScan for any bounds.  What a reading of a rollout   *)
(* file keeps of a session adds up to what it counts (AllAttributed).      *)
(* However often readings stop and go on, they know of a session what one  *)
(* reading from the beginning knows (PiecesAddUp), and they count no       *)
(* request twice (RequestsCountOnce).  The last two follow from RecordInv: *)
(* what is kept of a session Reaches the line where its reading stopped.   *)
(***************************************************************************)
EXTENDS SessionScan, FiniteSetTheorems, SequenceTheorems, WellFoundedInduction, TLAPS

-----------------------------------------------------------------------------
(* What is computed line by line *)

LEMMA Least == ASSUME NEW T \in SUBSET Nat, T # {} PROVE \E m \in T : \A k \in T : m <= k
  <1>1. PICK m \in T : \A k \in T : <<k, m>> \notin OpToRel(<, Nat)
    BY NatLessThanWellFounded, WFMin
  <1>2. \A k \in T : ~(k < m)
    BY <1>1 DEF OpToRel
  <1> QED
    BY <1>2

LEMMA Greatest ==
    ASSUME NEW n \in Nat, NEW T \in SUBSET (0 .. n), T # {}
    PROVE  \E m \in T : \A k \in T : k <= m
  <1> DEFINE R == {n - k : k \in T}
  <1>1. \A k \in T : n - k \in R /\ n - k \in Nat /\ k \in Nat
    OBVIOUS
  <1>2. \A r \in R : \E k \in T : r = n - k
    OBVIOUS
  <1> HIDE DEF R
  <1>3. R \subseteq Nat /\ R # {}
    BY <1>1, <1>2
  <1>4. PICK r \in R : \A q \in R : r <= q
    BY <1>3, Least
  <1>5. PICK m \in T : r = n - m
    BY <1>2
  <1>6. ASSUME NEW k \in T PROVE k <= m
    <2>1. r <= n - k
      BY <1>1, <1>4
    <2> QED
      BY <1>1, <1>5, <2>1
  <1> QED
    BY <1>6

LEMMA Inductive ==
    ASSUME NEW T, 0 \in T, \A n \in Nat : n \in T => n + 1 \in T PROVE Nat \subseteq T
  <1> SUFFICES ASSUME Nat \ T # {} PROVE FALSE
    OBVIOUS
  <1>1. PICK m \in Nat \ T : \A k \in Nat \ T : m <= k
    BY Least
  <1>2. m # 0 /\ m - 1 \in Nat
    BY <1>1
  <1>3. m - 1 \in T
    BY <1>1, <1>2
  <1> QED
    BY <1>1, <1>2, <1>3

\* A state machine that takes one line after the other has a run on any lines.
Machine(step, D, V) == step \in [D \X V -> D]
Read(lines, N, V) == \A n \in 1 .. N : lines[n] \in V
Run(f, D, step, start, lines, N) ==
    /\ f \in [0 .. N -> D]
    /\ \A n \in 0 .. N : f[n] = IF n = 0 THEN start ELSE step[<<f[n - 1], lines[n]>>]

LEMMA Runs ==
    ASSUME NEW D, NEW V, NEW step, NEW start \in D, NEW lines, NEW N \in Nat,
           Machine(step, D, V), Read(lines, N, V)
    PROVE  \E f : Run(f, D, step, start, lines, N)
  <1> USE DEF Machine, Read
  <1> DEFINE Is(f, k) == \A n \in 0 .. k :
                           f[n] = IF n = 0 THEN start ELSE step[<<f[n - 1], lines[n]>>]
             T == {k \in Nat : k <= N => \E f \in [0 .. k -> D] : Is(f, k)}
  <1>1. 0 \in T
    <2>1. [n \in 0 .. 0 |-> start] \in [0 .. 0 -> D] /\ Is([n \in 0 .. 0 |-> start], 0)
      OBVIOUS
    <2> QED
      BY <2>1
  <1>2. ASSUME NEW k \in Nat, k \in T PROVE k + 1 \in T
    <2> SUFFICES ASSUME k + 1 <= N PROVE \E f \in [0 .. k + 1 -> D] : Is(f, k + 1)
      OBVIOUS
    <2>1. PICK f \in [0 .. k -> D] : Is(f, k)
      BY <1>2
    <2> DEFINE last == step[<<f[k], lines[k + 1]>>]
               g == [n \in 0 .. k + 1 |-> IF n <= k THEN f[n] ELSE last]
    <2>2. last \in D
      OBVIOUS
    <2> HIDE DEF last
    <2>3. g \in [0 .. k + 1 -> D] /\ g[k + 1] = last /\ \A n \in 0 .. k : g[n] = f[n]
      BY <2>2
    <2> HIDE DEF g
    <2>4. ASSUME NEW n \in 0 .. k + 1
          PROVE  g[n] = IF n = 0 THEN start ELSE step[<<g[n - 1], lines[n]>>]
      <3>1. CASE n \in 0 .. k
        <4>1. n = 0 \/ n - 1 \in 0 .. k
          BY <3>1
        <4> QED
          BY <2>1, <2>3, <3>1, <4>1
      <3>2. CASE n = k + 1
        <4>1. k \in 0 .. k /\ n - 1 = k /\ n # 0
          BY <3>2
        <4> QED
          BY <2>3, <3>2, <4>1 DEF last
      <3> QED
        BY <3>1, <3>2
    <2> QED
      BY <2>3, <2>4
  <1>3. Nat \subseteq T
    <2> HIDE DEF T
    <2> QED
      BY <1>1, <1>2, Inductive
  <1> QED
    BY <1>3 DEF Run

-----------------------------------------------------------------------------
(* Sessions *)

Sessions == [thread : {0, 1, None}, startedAt : Moments, observedAt : Moments,
             baseline : Nat, lastCumulative : Nat, historical : Nat,
             increments : Increments, tokens : Nat, tracked : BOOLEAN]
MetaLines == [meta : {TRUE}, thread : {0, 1}, at : Times]
CountLines == [meta : {FALSE}, total : Nat, last : Nat \cup {None}, at : Moments]

LEMMA StartType ==
    ASSUME NEW s \in Sessions, NEW m \in MetaLines
    PROVE  /\ StartSession(s, m) \in Sessions
           /\ StartSession(s, m).thread = m.thread /\ StartSession(s, m).startedAt = m.at
           /\ StartSession(s, m).baseline = s.lastCumulative
           /\ StartSession(s, m).lastCumulative = s.lastCumulative
           /\ StartSession(s, m).historical = 0
           /\ StartSession(s, m).increments = NoIncrements
           /\ StartSession(s, m).tokens = 0
  <1>1. m.at \in Moments /\ m.thread \in {0, 1, None} /\ (m.at >= InitializedAt) \in BOOLEAN
    BY DEF MetaLines, Moments
  <1>2. NoIncrements \in Increments
    BY DEF NoIncrements, Increments
  <1> QED
    BY <1>1, <1>2 DEF Sessions, StartSession



-----------------------------------------------------------------------------
(* What a session adds up to *)

SumTo(f) == CHOOSE g : g = [t \in 0..MaxTime |->
                              IF t = 0 THEN f[None] ELSE g[t - 1] + f[t]]

LEMMA AllocatedIs ==
    ASSUME NEW s PROVE Allocated(s) = s.historical + SumTo(s.increments)[MaxTime]
  BY DEF Allocated, SumTo

LEMMA SumRun ==
    ASSUME NEW f \in Increments
    PROVE  /\ SumTo(f) \in [0 .. MaxTime -> Nat]
           /\ \A t \in 0 .. MaxTime :
                 SumTo(f)[t] = IF t = 0 THEN f[None] ELSE SumTo(f)[t - 1] + f[t]
  <1> DEFINE plus == [x \in Nat \X Nat |-> x[1] + x[2]]
  <1>1. plus \in [Nat \X Nat -> Nat] /\ MaxTime \in Nat /\ f[None] \in Nat
        /\ \A t \in 1 .. MaxTime : f[t] \in Nat
    BY ScanAssumption DEF Increments, Moments, Times
  <1>2. PICK g \in [0 .. MaxTime -> Nat] :
          \A n \in 0 .. MaxTime : g[n] = IF n = 0 THEN f[None] ELSE plus[<<g[n - 1], f[n]>>]
    <2>1. Machine(plus, Nat, Nat) /\ Read(f, MaxTime, Nat)
      BY <1>1 DEF Machine, Read
    <2> HIDE DEF plus
    <2>2. \E g : Run(g, Nat, plus, f[None], f, MaxTime)
      BY <1>1, <2>1, Runs
    <2> QED
      BY <2>2 DEF Run
  <1>3. g = [t \in 0..MaxTime |-> IF t = 0 THEN f[None] ELSE g[t - 1] + f[t]]
    <2>1. ASSUME NEW t \in 0 .. MaxTime
          PROVE  g[t] = IF t = 0 THEN f[None] ELSE g[t - 1] + f[t]
      <3>1. CASE t = 0
        BY <1>2, <3>1
      <3>2. CASE t # 0
        <4>1. t - 1 \in 0 .. MaxTime /\ t \in 1 .. MaxTime
          BY <1>1, <3>2
        <4>2. g[t - 1] \in Nat /\ f[t] \in Nat
          BY <1>1, <4>1
        <4> QED
          BY <1>2, <3>2, <4>2
      <3> QED
        BY <3>1, <3>2
    <2> QED
      BY <2>1
  <1>4. SumTo(f) = [t \in 0..MaxTime |-> IF t = 0 THEN f[None] ELSE SumTo(f)[t - 1] + f[t]]
    BY <1>3 DEF SumTo
  <1>5. PICK h : h = SumTo(f)
    OBVIOUS
  <1>6. \A t \in 0 .. MaxTime : h[t] = IF t = 0 THEN f[None] ELSE h[t - 1] + f[t]
    BY <1>4, <1>5
  <1> DEFINE T == {t \in Nat : t <= MaxTime => h[t] \in Nat}
  <1>7. 0 \in T
    BY <1>1, <1>6
  <1>8. ASSUME NEW t \in Nat, t \in T PROVE t + 1 \in T
    <2> SUFFICES ASSUME t + 1 <= MaxTime PROVE h[t + 1] \in Nat
      OBVIOUS
    <2>1. t + 1 \in 0 .. MaxTime /\ t + 1 \in 1 .. MaxTime /\ (t + 1) - 1 = t /\ t + 1 # 0
      BY <1>1
    <2>2. h[t + 1] = h[t] + f[t + 1]
      BY <1>6, <2>1
    <2>3. h[t] \in Nat /\ f[t + 1] \in Nat
      BY <1>1, <1>8, <2>1
    <2> QED
      BY <2>2, <2>3
  <1>9. Nat \subseteq T
    <2> HIDE DEF T
    <2> QED
      BY <1>7, <1>8, Inductive
  <1>10. \A t \in 0 .. MaxTime : h[t] \in Nat
    BY <1>1, <1>9
  <1>11. h \in [0 .. MaxTime -> Nat]
    BY <1>4, <1>5, <1>10
  <1> QED
    BY <1>5, <1>6, <1>11

LEMMA SumZero == SumTo(NoIncrements)[MaxTime] = 0
  <1>1. NoIncrements \in Increments /\ MaxTime \in Nat
        /\ \A t \in 0 .. MaxTime : NoIncrements[None] = 0 /\ (t # 0 => NoIncrements[t] = 0)
    BY ScanAssumption DEF NoIncrements, Increments, Moments, Times
  <1>2. PICK h : h = SumTo(NoIncrements)
    OBVIOUS
  <1>3. \A t \in 0 .. MaxTime : h[t] = IF t = 0 THEN 0 ELSE h[t - 1] + 0
    BY <1>1, <1>2, SumRun
  <1> DEFINE T == {t \in Nat : t <= MaxTime => h[t] = 0}
  <1>4. 0 \in T
    BY <1>1, <1>3
  <1>5. ASSUME NEW t \in Nat, t \in T PROVE t + 1 \in T
    BY <1>1, <1>3, <1>5
  <1>6. Nat \subseteq T
    <2> HIDE DEF T
    <2> QED
      BY <1>4, <1>5, Inductive
  <1> QED
    BY <1>1, <1>2, <1>6

LEMMA SumAdd ==
    ASSUME NEW f \in Increments, NEW at \in Moments, NEW d \in Nat, NEW e,
           e = [f EXCEPT ![at] = @ + d]
    PROVE  e \in Increments /\ SumTo(e)[MaxTime] = SumTo(f)[MaxTime] + d
  <1> DEFINE By(k) == IF at = None \/ at <= k THEN d ELSE 0
  <1>1. e \in Increments /\ e[at] = f[at] + d /\ \A t \in Moments : t # at => e[t] = f[t]
    BY DEF Increments
  <1>2. None \in Moments /\ MaxTime \in Nat /\ None \notin Nat /\ at \in Times \cup {None}
        /\ \A t \in 1 .. MaxTime : t \in Moments
    BY ScanAssumption DEF Moments, Times
  <1>3. \A t \in Moments : f[t] \in Nat
    BY DEF Increments
  <1>4. PICK h \in [0 .. MaxTime -> Nat] : h = SumTo(f)
    BY SumRun
  <1>5. PICK g \in [0 .. MaxTime -> Nat] : g = SumTo(e)
    BY <1>1, SumRun
  <1>6. \A t \in 0 .. MaxTime : h[t] = IF t = 0 THEN f[None] ELSE h[t - 1] + f[t]
    BY <1>4, SumRun
  <1>7. \A t \in 0 .. MaxTime : g[t] = IF t = 0 THEN e[None] ELSE g[t - 1] + e[t]
    BY <1>1, <1>5, SumRun
  <1> DEFINE T == {t \in Nat : t <= MaxTime => g[t] = h[t] + By(t)}
  <1>8. 0 \in T
    <2>1. g[0] = e[None] /\ h[0] = f[None]
      BY <1>2, <1>6, <1>7
    <2>2. CASE at = None
      BY <1>1, <2>1, <2>2
    <2>3. CASE at \in Times
      <3>1. at # None /\ ~(at <= 0)
        BY <1>2, <2>3 DEF Times
      <3> QED
        BY <1>1, <1>2, <1>3, <2>1, <3>1
    <2> QED
      BY <1>2, <2>2, <2>3
  <1>9. ASSUME NEW t \in Nat, t \in T PROVE t + 1 \in T
    <2> SUFFICES ASSUME t + 1 <= MaxTime PROVE g[t + 1] = h[t + 1] + By(t + 1)
      OBVIOUS
    <2>1. t + 1 \in 0 .. MaxTime /\ t + 1 \in Moments /\ (t + 1) - 1 = t /\ t + 1 # 0
          /\ t \in 0 .. MaxTime /\ t + 1 # None
      BY <1>2
    <2>2. h[t + 1] = h[t] + f[t + 1] /\ g[t + 1] = g[t] + e[t + 1]
      BY <1>6, <1>7, <2>1
    <2>3. h[t] \in Nat /\ g[t] \in Nat /\ f[t + 1] \in Nat /\ g[t] = h[t] + By(t)
      BY <1>3, <1>9, <2>1
    <2>4. CASE at = t + 1
      <3>1. e[t + 1] = f[t + 1] + d
        BY <1>1, <2>4
      <3>2. By(t) = 0 /\ By(t + 1) = d
        BY <2>1, <2>4
      <3> QED
        BY <2>2, <2>3, <3>1, <3>2
    <2>5. CASE at # t + 1
      <3>1. e[t + 1] = f[t + 1]
        BY <1>1, <2>1, <2>5
      <3>2. By(t) = By(t + 1) /\ By(t) \in Nat
        BY <1>2, <2>5 DEF Times
      <3> HIDE DEF By
      <3> QED
        BY <2>2, <2>3, <3>1, <3>2
    <2> QED
      BY <2>4, <2>5
  <1>10. Nat \subseteq T
    <2> HIDE DEF T
    <2> QED
      BY <1>8, <1>9, Inductive
  <1>11. By(MaxTime) = d
    BY <1>2 DEF Times
  <1>12. g[MaxTime] = h[MaxTime] + By(MaxTime)
    BY <1>2, <1>10
  <1> QED
    BY <1>1, <1>4, <1>5, <1>11, <1>12

-----------------------------------------------------------------------------
(* One line *)

LEMMA Fields ==
    ASSUME NEW s \in Sessions
    PROVE  /\ s.thread \in {0, 1, None} /\ s.startedAt \in Moments /\ s.observedAt \in Moments
           /\ s.baseline \in Nat /\ s.lastCumulative \in Nat /\ s.historical \in Nat
           /\ s.increments \in Increments /\ s.tokens \in Nat /\ s.tracked \in BOOLEAN
  BY DEF Sessions

\* A reading at one place leaves the rest of a session alone.
Kept(s, r) == r.thread = s.thread /\ r.startedAt = s.startedAt

LEMMA ObserveKeeps ==
    ASSUME NEW s \in Sessions, NEW at \in Moments, NEW r, r = Observe(s, at)
    PROVE  /\ r \in Sessions /\ Kept(s, r)
           /\ r.baseline = s.baseline /\ r.lastCumulative = s.lastCumulative
           /\ r.historical = s.historical /\ r.increments = s.increments
           /\ r.tokens = s.tokens
  BY DEF Observe, Sessions, Kept

LEMMA AttributeAdds ==
    ASSUME NEW s \in Sessions, NEW delta \in Nat, NEW at \in Moments, NEW r,
           r = Attribute(s, delta, at)
    PROVE  /\ r \in Sessions /\ Kept(s, r)
           /\ r.baseline = s.baseline /\ r.lastCumulative = s.lastCumulative
           /\ r.tokens = s.tokens /\ Allocated(r) = Allocated(s) + delta
  <1>1. s.historical \in Nat /\ s.increments \in Increments
        /\ SumTo(s.increments)[MaxTime] \in Nat
    BY Fields, SumRun, ScanAssumption
  <1>2. CASE delta = 0
    <2>1. r = s
      BY <1>2 DEF Attribute, HasTokens
    <2> QED
      BY <1>1, <1>2, <2>1, AllocatedIs DEF Kept
  <1>3. CASE delta # 0 /\ r = [s EXCEPT !.historical = @ + delta]
    <2>1. PICK h : h = s.historical + delta
      OBVIOUS
    <2>2. h \in Nat /\ r = [s EXCEPT !.historical = h]
      BY <1>1, <1>3, <2>1
    <2>3. /\ r \in Sessions /\ Kept(s, r)
          /\ r.baseline = s.baseline /\ r.lastCumulative = s.lastCumulative
          /\ r.tokens = s.tokens /\ r.historical = h /\ r.increments = s.increments
      BY <2>2 DEF Sessions, Kept
    <2> QED
      BY <1>1, <2>1, <2>3, AllocatedIs
  <1>4. CASE delta # 0 /\ r = [s EXCEPT !.increments[at] = @ + delta, !.tracked = TRUE]
    <2>1. PICK e : e = [s.increments EXCEPT ![at] = @ + delta]
      OBVIOUS
    <2>2. e \in Increments /\ SumTo(e)[MaxTime] = SumTo(s.increments)[MaxTime] + delta
      BY <1>1, <2>1, SumAdd
    <2>3. r = [s EXCEPT !.increments = e, !.tracked = TRUE]
      BY <1>4, <2>1
    <2>4. /\ r \in Sessions /\ Kept(s, r)
          /\ r.baseline = s.baseline /\ r.lastCumulative = s.lastCumulative
          /\ r.tokens = s.tokens /\ r.historical = s.historical /\ r.increments = e
      BY <2>2, <2>3 DEF Sessions, Kept
    <2> QED
      BY <1>1, <2>2, <2>4, AllocatedIs
  <1> QED
    BY <1>2, <1>3, <1>4 DEF Attribute, HasTokens

\* What of a session adds up: all of it is attributed, and without the tokens of a
\* request in the counts it is what the total grew by.
Even(s, named) ==
    /\ Allocated(s) = s.tokens
    /\ ~named => s.baseline <= s.lastCumulative /\ s.tokens = s.lastCumulative - s.baseline

Line(named) == MetaLines \cup {l \in CountLines : (l.last # None) <=> named}

LEMMA StartEven ==
    ASSUME NEW s \in Sessions, NEW m \in MetaLines, NEW named, NEW r, r = StartSession(s, m)
    PROVE  r \in Sessions /\ r.thread \in {0, 1} /\ r.startedAt \in Times /\ Even(r, named)
  <1>1. r \in Sessions /\ r.thread = m.thread /\ r.startedAt = m.at
        /\ r.baseline = s.lastCumulative /\ r.lastCumulative = s.lastCumulative
        /\ r.historical = 0 /\ r.increments = NoIncrements /\ r.tokens = 0
    BY StartType
  <1>2. Allocated(r) = 0
    BY <1>1, AllocatedIs, SumZero
  <1>3. s.lastCumulative \in Nat
    BY Fields
  <1>4. m.thread \in {0, 1} /\ m.at \in Times
    BY DEF MetaLines
  <1> QED
    BY <1>1, <1>2, <1>3, <1>4 DEF Even

LEMMA CountType ==
    ASSUME NEW named \in BOOLEAN, NEW l \in Line(named), ~l.meta
    PROVE  /\ l \in CountLines /\ l.total \in Nat /\ l.at \in Moments
           /\ l.last \in Nat \cup {None} /\ ((l.last # None) <=> named)
  BY DEF Line, MetaLines, CountLines

LEMMA RequestEven ==
    ASSUME NEW s \in Sessions, NEW c, c.total \in Nat, c.last \in Nat, c.at \in Moments,
           NEW duplicate \in BOOLEAN, NEW r, r = CountRequest(s, c, duplicate)
    PROVE  /\ r \in Sessions /\ Kept(s, r)
           /\ Even(s, TRUE) => Even(r, TRUE)
  <1> DEFINE delta == IF duplicate THEN 0 ELSE c.last
  <1>1. delta \in Nat /\ s.tokens \in Nat
    BY Fields
  <1>2. PICK d : d = delta
    OBVIOUS
  <1>3. PICK n \in Nat : n = s.tokens + d
    BY <1>1, <1>2
  <1>4. PICK a : a = [s EXCEPT !.lastCumulative = c.total, !.tokens = @ + d]
    OBVIOUS
  <1>5. a = [s EXCEPT !.lastCumulative = c.total, !.tokens = n]
    BY <1>3, <1>4
  <1>6. a \in Sessions /\ Kept(s, a) /\ a.tokens = n
        /\ a.historical = s.historical /\ a.increments = s.increments
    BY <1>5 DEF Sessions, Kept
  <1>7. PICK b : b = Observe(a, c.at)
    OBVIOUS
  <1>8. b \in Sessions /\ Kept(a, b) /\ b.tokens = n
        /\ b.historical = s.historical /\ b.increments = s.increments
    BY <1>6, <1>7, ObserveKeeps
  <1>9. r = Attribute(b, d, c.at)
    BY <1>2, <1>4, <1>7 DEF CountRequest
  <1>10. r \in Sessions /\ Kept(b, r) /\ r.tokens = n /\ Allocated(r) = Allocated(b) + d
    BY <1>1, <1>2, <1>8, <1>9, AttributeAdds
  <1>11. Allocated(b) = Allocated(s)
    BY <1>8, AllocatedIs
  <1> QED
    BY <1>3, <1>6, <1>8, <1>10, <1>11 DEF Kept, Even

LEMMA TotalEven ==
    ASSUME NEW s \in Sessions, NEW c, c.total \in Nat, c.at \in Moments,
           NEW r, r = CountTotal(s, c)
    PROVE  /\ r \in Sessions /\ Kept(s, r)
           /\ Even(s, FALSE) => Even(r, FALSE)
  <1> DEFINE restart == c.total < s.lastCumulative
             delta == IF restart THEN c.total ELSE c.total - s.lastCumulative
  <1>0. s.lastCumulative \in Nat /\ s.baseline \in Nat /\ s.tokens \in Nat
        /\ s.historical \in Nat /\ s.increments \in Increments
    BY Fields
  <1>1. PICK d \in Nat : d = delta
    BY <1>0
  <1>2. PICK f : f = IF restart
                     THEN [s EXCEPT !.baseline = 0, !.historical = 0, !.increments = NoIncrements]
                     ELSE s
    OBVIOUS
  <1>3. NoIncrements \in Increments
    BY DEF NoIncrements, Increments
  <1>4. f \in Sessions /\ Kept(s, f)
        /\ (restart => f.baseline = 0 /\ f.historical = 0 /\ f.increments = NoIncrements)
        /\ (~restart => f = s)
    BY <1>2, <1>3 DEF Sessions, Kept
  <1>5. f.baseline \in Nat
    BY <1>4, Fields
  <1>6. PICK n : n = subtractInherited(c.total, f.baseline)
    OBVIOUS
  <1>7. n \in Nat /\ (f.baseline <= c.total => n = c.total - f.baseline)
    BY <1>5, <1>6 DEF subtractInherited
  <1>8. PICK a : a = [f EXCEPT !.lastCumulative = c.total, !.tokens = n]
    OBVIOUS
  <1>9. a \in Sessions /\ Kept(f, a) /\ a.tokens = n /\ a.lastCumulative = c.total
        /\ a.baseline = f.baseline
        /\ a.historical = f.historical /\ a.increments = f.increments
    BY <1>4, <1>7, <1>8 DEF Sessions, Kept
  <1>10. PICK b : b = Observe(a, c.at)
    OBVIOUS
  <1>11. b \in Sessions /\ Kept(a, b) /\ b.tokens = n /\ b.lastCumulative = c.total
        /\ b.baseline = f.baseline
        /\ b.historical = f.historical /\ b.increments = f.increments
    BY <1>9, <1>10, ObserveKeeps
  <1>12. r = Attribute(b, d, c.at)
    BY <1>1, <1>2, <1>6, <1>8, <1>10 DEF CountTotal
  <1>13. r \in Sessions /\ Kept(b, r) /\ r.tokens = n /\ r.lastCumulative = c.total
         /\ r.baseline = f.baseline /\ Allocated(r) = Allocated(b) + d
    BY <1>11, <1>12, AttributeAdds
  <1>14. Allocated(b) = IF restart THEN 0 ELSE Allocated(s)
    BY <1>4, <1>11, AllocatedIs, SumZero
  <1>15. ASSUME Even(s, FALSE) PROVE Even(r, FALSE)
    <2>1. CASE restart
      BY <1>0, <1>1, <1>4, <1>7, <1>13, <1>14, <2>1 DEF Even
    <2>2. CASE ~restart
      <3>1. s.baseline <= s.lastCumulative /\ s.tokens = s.lastCumulative - s.baseline
            /\ Allocated(s) = s.tokens /\ f = s
        BY <1>4, <1>15, <2>2 DEF Even
      <3>2. f.baseline <= c.total /\ n = c.total - s.baseline
        BY <1>0, <1>7, <2>2, <3>1
      <3>3. Allocated(r) = s.tokens + (c.total - s.lastCumulative)
        BY <1>1, <1>13, <1>14, <2>2, <3>1
      <3> QED
        BY <1>0, <1>13, <3>1, <3>2, <3>3 DEF Even
    <2> QED
      BY <2>1, <2>2
  <1> QED
    BY <1>4, <1>9, <1>11, <1>13, <1>15 DEF Kept

-----------------------------------------------------------------------------
(* Readings *)

\* A forked file read from its end is continued rightly if its totals do not start
\* afresh, or name their requests.
Steady == ~({"reset", "fork", "bare"} \subseteq Habits)

Good(named) == {s \in Sessions : /\ s.thread \in {0, 1} /\ s.startedAt \in Times
                                 /\ Steady => Even(s, named)}

\* Before the metadata only the total is known.
Open(named) == {s \in Sessions : s.thread # None => s \in Good(named)}

ForwardStates(named) == [state : Open(named), request : Nat \cup {None}, saw : BOOLEAN]

LEMMA BlankOpen == ASSUME NEW named PROVE Blank \in Open(named)
  <1>1. NoIncrements \in Increments /\ None \in Moments
    BY DEF NoIncrements, Increments, Moments
  <1> QED
    BY <1>1 DEF Open, Blank, Sessions

LEMMA CountGood ==
    ASSUME NEW named \in BOOLEAN, NEW s \in Good(named), NEW l \in Line(named), ~l.meta
    PROVE  /\ l.last # None => \A duplicate \in BOOLEAN :
                                  CountRequest(s, l, duplicate) \in Good(named)
           /\ l.last = None => CountTotal(s, l) \in Good(named)
  <1>1. l.total \in Nat /\ l.at \in Moments /\ l.last \in Nat \cup {None}
        /\ ((l.last # None) <=> named)
    BY CountType
  <1>2. s \in Sessions
    BY DEF Good
  <1>3. ASSUME l.last # None, NEW duplicate \in BOOLEAN, NEW r, r = CountRequest(s, l, duplicate)
        PROVE  r \in Good(named)
    <2>1. r \in Sessions /\ Kept(s, r) /\ (Even(s, TRUE) => Even(r, TRUE))
      BY <1>1, <1>2, <1>3, RequestEven
    <2> QED
      BY <1>1, <1>3, <2>1 DEF Good, Kept
  <1>4. ASSUME l.last = None, NEW r, r = CountTotal(s, l)
        PROVE  r \in Good(named)
    <2>1. r \in Sessions /\ Kept(s, r) /\ (Even(s, FALSE) => Even(r, FALSE))
      BY <1>1, <1>2, TotalEven, <1>4
    <2> QED
      BY <1>1, <1>4, <2>1 DEF Good, Kept
  <1> QED
    BY <1>3, <1>4

LEMMA StartGood ==
    ASSUME NEW named, NEW s \in Sessions, NEW l, l.meta, l \in Line(named)
    PROVE  StartSession(s, l) \in Good(named)
  <1>1. l \in MetaLines
    BY DEF Line, CountLines
  <1>2. PICK r : r = StartSession(s, l)
    OBVIOUS
  <1>3. r \in Sessions /\ r.thread \in {0, 1} /\ r.startedAt \in Times /\ Even(r, named)
    BY <1>1, <1>2, StartEven
  <1> QED
    BY <1>2, <1>3 DEF Good

LEMMA GoodIsOpen == ASSUME NEW named PROVE Good(named) \subseteq Open(named)
  BY DEF Good, Open

LEMMA LineKinds ==
    ASSUME NEW named, NEW l \in Line(named)
    PROVE  l.meta \in BOOLEAN
  BY DEF Line, MetaLines, CountLines

LEMMA ForwardStep ==
    ASSUME NEW named \in BOOLEAN, NEW r \in ForwardStates(named), NEW l \in Line(named)
    PROVE  ForwardLine(r, l) \in ForwardStates(named)
  <1>1. PICK s : s = r.state
    OBVIOUS
  <1>2. s \in Open(named) /\ s \in Sessions /\ r.request \in Nat \cup {None} /\ r.saw \in BOOLEAN
    BY <1>1 DEF ForwardStates, Open
  <1>3. CASE l.meta
    <2>1. PICK t : t = StartSession(s, l)
      OBVIOUS
    <2>2. t \in Open(named)
      BY <1>2, <1>3, <2>1, StartGood, GoodIsOpen
    <2>3. ForwardLine(r, l) = [state |-> t, request |-> None, saw |-> FALSE]
      BY <1>1, <1>3, <2>1 DEF ForwardLine
    <2> QED
      BY <2>2, <2>3 DEF ForwardStates
  <1>4. CASE ~l.meta /\ s.thread = None
    <2>1. l.total \in Nat
      BY <1>4, CountType
    <2>2. PICK t : t = [s EXCEPT !.lastCumulative = l.total]
      OBVIOUS
    <2>3. t \in Sessions /\ t.thread = None
      BY <1>2, <1>4, <2>1, <2>2 DEF Sessions
    <2>4. t \in Open(named)
      BY <2>3 DEF Open
    <2>5. ForwardLine(r, l) = [r EXCEPT !.state = t]
      BY <1>1, <1>4, <2>2 DEF ForwardLine
    <2> QED
      BY <2>4, <2>5 DEF ForwardStates
  <1>5. CASE ~l.meta /\ s.thread # None
    <2>1. s \in Good(named)
      BY <1>2, <1>5 DEF Open
    <2>2. l.total \in Nat
      BY <1>5, CountType
    <2>3. CASE l.last # None
      <3>1. PICK t : t = CountRequest(s, l, l.total = r.request)
        OBVIOUS
      <3>2. t \in Open(named)
        BY <1>5, <2>1, <2>3, <3>1, CountGood, GoodIsOpen
      <3>3. ForwardLine(r, l) = [state |-> t, request |-> l.total, saw |-> TRUE]
        BY <1>1, <1>5, <2>3, <3>1 DEF ForwardLine
      <3> QED
        BY <2>2, <3>2, <3>3 DEF ForwardStates
    <2>4. CASE l.last = None
      <3>1. PICK t : t = CountTotal(s, l)
        OBVIOUS
      <3>2. t \in Open(named)
        BY <1>5, <2>1, <2>4, <3>1, CountGood, GoodIsOpen
      <3>3. ForwardLine(r, l) = [r EXCEPT !.state = t, !.saw = TRUE]
        BY <1>1, <1>5, <2>4, <3>1 DEF ForwardLine
      <3> QED
        BY <3>2, <3>3 DEF ForwardStates
    <2> QED
      BY <2>3, <2>4
  <1> QED
    BY <1>3, <1>4, <1>5, LineKinds

\* The machine that a reading is, run on the lines.
ForwardRun(lines) ==
    CHOOSE g : g = [n \in 0 .. Len(lines) |->
                      IF n = 0 THEN [state |-> Blank, request |-> None, saw |-> FALSE]
                      ELSE ForwardLine(g[n - 1], lines[n])]

LEMMA ForwardRunIs ==
    ASSUME NEW lines
    PROVE  Forward(lines) =
             LET r == ForwardRun(lines)[Len(lines)]
             IN  IF r.state.thread = None \/ (~r.saw /\ r.state.lastCumulative = 0) THEN None
                 ELSE r.state
  BY DEF Forward, ForwardRun

LEMMA ForwardRunType ==
    ASSUME NEW named \in BOOLEAN, NEW lines \in Seq(Line(named))
    PROVE  \A n \in 0 .. Len(lines) :
              /\ ForwardRun(lines)[n] \in ForwardStates(named)
              /\ ForwardRun(lines)[n] =
                    IF n = 0 THEN [state |-> Blank, request |-> None, saw |-> FALSE]
                    ELSE ForwardLine(ForwardRun(lines)[n - 1], lines[n])
  <1> DEFINE D == ForwardStates(named)
             V == Line(named)
             start == [state |-> Blank, request |-> None, saw |-> FALSE]
             step == [x \in D \X V |-> ForwardLine(x[1], x[2])]
             N == Len(lines)
  <1>1. \A r \in D, l \in V : ForwardLine(r, l) \in D
    BY ForwardStep
  <1>2. start \in D
    BY BlankOpen DEF ForwardStates
  <1>3. N \in Nat /\ \A n \in 1 .. N : lines[n] \in V
    OBVIOUS
  <1> HIDE DEF D, V, start, N
  <1>4. Machine(step, D, V) /\ Read(lines, N, V)
    BY <1>1, <1>3 DEF Machine, Read
  <1>5. \A r \in D, l \in V : step[<<r, l>>] = ForwardLine(r, l)
    OBVIOUS
  <1> HIDE DEF step
  <1>6. PICK f : Run(f, D, step, start, lines, N)
    BY <1>2, <1>3, <1>4, Runs
  <1>7. f = [n \in 0 .. N |-> IF n = 0 THEN start ELSE ForwardLine(f[n - 1], lines[n])]
    <2>1. ASSUME NEW n \in 0 .. N
          PROVE  f[n] = IF n = 0 THEN start ELSE ForwardLine(f[n - 1], lines[n])
      <3>1. CASE n = 0
        BY <1>6, <3>1 DEF Run
      <3>2. CASE n # 0
        <4>1. n - 1 \in 0 .. N /\ n \in 1 .. N
          BY <1>3, <3>2
        <4>2. f[n - 1] \in D /\ lines[n] \in V
          BY <1>3, <1>6, <4>1 DEF Run
        <4>3. f[n] = step[<<f[n - 1], lines[n]>>]
          BY <1>6, <3>2 DEF Run
        <4> QED
          BY <1>5, <3>2, <4>2, <4>3
      <3> QED
        BY <3>1, <3>2
    <2>2. f \in [0 .. N -> D]
      BY <1>6 DEF Run
    <2> QED
      BY <2>1, <2>2
  <1>8. PICK g : g = ForwardRun(lines)
    OBVIOUS
  <1>9. g = [n \in 0 .. N |-> IF n = 0 THEN start ELSE ForwardLine(g[n - 1], lines[n])]
    BY <1>7, <1>8 DEF ForwardRun, start, N
  <1> DEFINE T == {n \in Nat : n <= N => g[n] \in D}
  <1>10. 0 \in T
    BY <1>2, <1>3, <1>9
  <1>11. ASSUME NEW n \in Nat, n \in T PROVE n + 1 \in T
    <2> SUFFICES ASSUME n + 1 <= N PROVE g[n + 1] \in D
      OBVIOUS
    <2>1. n + 1 \in 0 .. N /\ n + 1 \in 1 .. N /\ (n + 1) - 1 = n /\ n + 1 # 0
      BY <1>3
    <2>2. g[n + 1] = ForwardLine(g[n], lines[n + 1])
      BY <1>9, <2>1
    <2>3. g[n] \in D /\ lines[n + 1] \in V
      BY <1>3, <1>11, <2>1
    <2> QED
      BY <1>1, <2>2, <2>3
  <1>12. Nat \subseteq T
    <2> HIDE DEF T
    <2> QED
      BY <1>10, <1>11, Inductive
  <1>13. \A n \in 0 .. N : g[n] \in D
    BY <1>3, <1>12
  <1>14. \A n \in 0 .. N : g[n] = IF n = 0 THEN start ELSE ForwardLine(g[n - 1], lines[n])
    BY <1>9
  <1> QED
    BY <1>8, <1>13, <1>14 DEF N, D, start

LEMMA ForwardGood ==
    ASSUME NEW named \in BOOLEAN, NEW lines \in Seq(Line(named))
    PROVE  Forward(lines) \in Good(named) \cup {None}
  <1>1. PICK r : r = ForwardRun(lines)[Len(lines)]
    OBVIOUS
  <1>2. r \in ForwardStates(named)
    <2>1. Len(lines) \in 0 .. Len(lines)
      OBVIOUS
    <2> QED
      BY <1>1, <2>1, ForwardRunType
  <1>3. r.state.thread # None => r.state \in Good(named)
    BY <1>2 DEF ForwardStates, Open
  <1> QED
    BY <1>1, <1>3, ForwardRunIs

AppendStates(named) == [state : Good(named), force : BOOLEAN]

LEMMA AppendStep ==
    ASSUME NEW named \in BOOLEAN, NEW r \in AppendStates(named), NEW l \in Line(named)
    PROVE  AppendLine(r, l) \in AppendStates(named)
  <1>1. PICK s : s = r.state
    OBVIOUS
  <1>2. s \in Good(named) /\ s \in Sessions /\ r.force \in BOOLEAN
    BY <1>1 DEF AppendStates, Good
  <1>3. CASE l.meta
    <2>1. PICK t : t = StartSession(s, l)
      OBVIOUS
    <2>2. t \in Good(named)
      BY <1>2, <1>3, <2>1, StartGood
    <2>3. AppendLine(r, l) = [state |-> t, force |-> TRUE]
      BY <1>1, <1>3, <2>1 DEF AppendLine
    <2> QED
      BY <2>2, <2>3 DEF AppendStates
  <1>4. CASE ~l.meta /\ l.last # None
    <2>1. PICK t : t = CountRequest(s, l, ~r.force /\ l.total = s.lastCumulative)
      OBVIOUS
    <2>2. t \in Good(named)
      BY <1>2, <1>4, <2>1, CountGood
    <2>3. AppendLine(r, l) = [state |-> t, force |-> FALSE]
      BY <1>1, <1>4, <2>1 DEF AppendLine
    <2> QED
      BY <2>2, <2>3 DEF AppendStates
  <1>5. CASE ~l.meta /\ l.last = None
    <2>1. PICK t : t = CountTotal(s, l)
      OBVIOUS
    <2>2. t \in Good(named)
      BY <1>2, <1>5, <2>1, CountGood
    <2>3. AppendLine(r, l) = [r EXCEPT !.state = t]
      BY <1>1, <1>5, <2>1 DEF AppendLine
    <2> QED
      BY <2>2, <2>3 DEF AppendStates
  <1> QED
    BY <1>3, <1>4, <1>5, LineKinds

ReadOnRun(s, lines) ==
    CHOOSE g : g = [n \in 0 .. Len(lines) |->
                      IF n = 0 THEN [state |-> s, force |-> FALSE]
                      ELSE AppendLine(g[n - 1], lines[n])]

LEMMA ReadOnRunIs ==
    ASSUME NEW s, NEW lines
    PROVE  ReadOn(s, lines) = ReadOnRun(s, lines)[Len(lines)].state
  BY DEF ReadOn, ReadOnRun

LEMMA ReadOnRunType ==
    ASSUME NEW named \in BOOLEAN, NEW s \in Good(named), NEW lines \in Seq(Line(named))
    PROVE  \A n \in 0 .. Len(lines) :
              /\ ReadOnRun(s, lines)[n] \in AppendStates(named)
              /\ ReadOnRun(s, lines)[n] =
                    IF n = 0 THEN [state |-> s, force |-> FALSE]
                    ELSE AppendLine(ReadOnRun(s, lines)[n - 1], lines[n])
  <1> DEFINE D == AppendStates(named)
             V == Line(named)
             start == [state |-> s, force |-> FALSE]
             step == [x \in D \X V |-> AppendLine(x[1], x[2])]
             N == Len(lines)
  <1>1. \A r \in D, l \in V : AppendLine(r, l) \in D
    BY AppendStep
  <1>2. start \in D
    BY DEF AppendStates
  <1>3. N \in Nat /\ \A n \in 1 .. N : lines[n] \in V
    OBVIOUS
  <1> HIDE DEF D, V, start, N
  <1>4. Machine(step, D, V) /\ Read(lines, N, V)
    BY <1>1, <1>3 DEF Machine, Read
  <1>5. \A r \in D, l \in V : step[<<r, l>>] = AppendLine(r, l)
    OBVIOUS
  <1> HIDE DEF step
  <1>6. PICK f : Run(f, D, step, start, lines, N)
    BY <1>2, <1>3, <1>4, Runs
  <1>7. f = [n \in 0 .. N |-> IF n = 0 THEN start ELSE AppendLine(f[n - 1], lines[n])]
    <2>1. ASSUME NEW n \in 0 .. N
          PROVE  f[n] = IF n = 0 THEN start ELSE AppendLine(f[n - 1], lines[n])
      <3>1. CASE n = 0
        BY <1>6, <3>1 DEF Run
      <3>2. CASE n # 0
        <4>1. n - 1 \in 0 .. N /\ n \in 1 .. N
          BY <1>3, <3>2
        <4>2. f[n - 1] \in D /\ lines[n] \in V
          BY <1>3, <1>6, <4>1 DEF Run
        <4>3. f[n] = step[<<f[n - 1], lines[n]>>]
          BY <1>6, <3>2 DEF Run
        <4> QED
          BY <1>5, <3>2, <4>2, <4>3
      <3> QED
        BY <3>1, <3>2
    <2>2. f \in [0 .. N -> D]
      BY <1>6 DEF Run
    <2> QED
      BY <2>1, <2>2
  <1>8. PICK g : g = ReadOnRun(s, lines)
    OBVIOUS
  <1>9. g = [n \in 0 .. N |-> IF n = 0 THEN start ELSE AppendLine(g[n - 1], lines[n])]
    BY <1>7, <1>8 DEF ReadOnRun, start, N
  <1> DEFINE T == {n \in Nat : n <= N => g[n] \in D}
  <1>10. 0 \in T
    BY <1>2, <1>3, <1>9
  <1>11. ASSUME NEW n \in Nat, n \in T PROVE n + 1 \in T
    <2> SUFFICES ASSUME n + 1 <= N PROVE g[n + 1] \in D
      OBVIOUS
    <2>1. n + 1 \in 0 .. N /\ n + 1 \in 1 .. N /\ (n + 1) - 1 = n /\ n + 1 # 0
      BY <1>3
    <2>2. g[n + 1] = AppendLine(g[n], lines[n + 1])
      BY <1>9, <2>1
    <2>3. g[n] \in D /\ lines[n + 1] \in V
      BY <1>3, <1>11, <2>1
    <2> QED
      BY <1>1, <2>2, <2>3
  <1>12. Nat \subseteq T
    <2> HIDE DEF T
    <2> QED
      BY <1>10, <1>11, Inductive
  <1>13. \A n \in 0 .. N : g[n] \in D
    BY <1>3, <1>12
  <1>14. \A n \in 0 .. N : g[n] = IF n = 0 THEN start ELSE AppendLine(g[n - 1], lines[n])
    BY <1>9
  <1> QED
    BY <1>8, <1>13, <1>14 DEF N, D, start

LEMMA ReadOnGood ==
    ASSUME NEW named \in BOOLEAN, NEW s \in Good(named), NEW lines \in Seq(Line(named))
    PROVE  ReadOn(s, lines) \in Good(named)
  <1>1. Len(lines) \in 0 .. Len(lines)
    OBVIOUS
  <1> QED
    BY <1>1, ReadOnRunType, ReadOnRunIs DEF AppendStates

-----------------------------------------------------------------------------
(* A reading from the end *)

LEMMA MaxIs ==
    ASSUME NEW n \in Nat, NEW T \in SUBSET (0 .. n), T # {}
    PROVE  Max(T) \in T /\ \A k \in T : k <= Max(T)
  <1>1. PICK m \in T : \A k \in T : m >= k
    BY Greatest
  <1> QED
    BY <1>1 DEF Max

LEMMA MinIs ==
    ASSUME NEW T \in SUBSET Nat, T # {}
    PROVE  Min(T) \in T /\ \A k \in T : Min(T) <= k
  <1>1. PICK m \in T : \A k \in T : m <= k
    BY Least
  <1> QED
    BY <1>1 DEF Min

\* The totals do not start afresh.
Grows(lines) == \A i, j \in Counts(lines) : i <= j => lines[i].total <= lines[j].total

LEMMA PlacesType ==
    ASSUME NEW named \in BOOLEAN, NEW lines \in Seq(Line(named))
    PROVE  /\ Counts(lines) \in SUBSET (0 .. Len(lines)) /\ Len(lines) \in Nat
           /\ Metas(lines) \in SUBSET (0 .. Len(lines))
           /\ \A i \in Counts(lines) : lines[i] \in CountLines /\ lines[i].total \in Nat
                 /\ lines[i].last \in Nat \cup {None} /\ lines[i].at \in Moments
                 /\ ((lines[i].last # None) <=> named)
           /\ \A i \in Metas(lines) : lines[i] \in MetaLines
  <1>1. \A i \in 1 .. Len(lines) : lines[i] \in Line(named)
    OBVIOUS
  <1>2. \A i \in Counts(lines) : i \in 1 .. Len(lines) /\ ~lines[i].meta
    BY DEF Counts
  <1>3. \A i \in Metas(lines) : i \in 1 .. Len(lines) /\ lines[i].meta
    BY DEF Metas
  <1>4. \A l \in Line(named) : l.meta => l \in MetaLines
    BY DEF Line, CountLines
  <1> QED
    BY <1>1, <1>2, <1>3, <1>4, CountType

LEMMA ReadBackwards ==
    ASSUME NEW named \in BOOLEAN, NEW lines \in Seq(Line(named)), NEW own \in BOOLEAN,
           Steady /\ ~named /\ ~own => Grows(lines)
    PROVE  Backward(lines, own) \in Good(named) \cup {None}
  <1> SUFFICES ASSUME Counts(lines) # {}, Metas(lines) # {}
               PROVE  Backward(lines, own) \in Good(named) \cup {None}
    BY DEF Backward
  <1>1. PICK N \in Nat : N = Len(lines)
    OBVIOUS
  <1>2. Counts(lines) \in SUBSET (0 .. N) /\ Metas(lines) \in SUBSET (0 .. N)
    BY <1>1, PlacesType
  <1>3. PICK e \in Counts(lines) : e = Max(Counts(lines)) /\ \A k \in Counts(lines) : k <= e
    BY <1>2, MaxIs
  <1>4. PICK m \in Metas(lines) : m = IF own THEN Min(Metas(lines)) ELSE Max(Metas(lines))
    <2>1. Max(Metas(lines)) \in Metas(lines)
      BY <1>2, MaxIs
    <2>2. Min(Metas(lines)) \in Metas(lines)
      <3>1. Metas(lines) \in SUBSET Nat
        BY <1>2
      <3> QED
        BY <3>1, MinIs
    <2> QED
      BY <2>1, <2>2
  <1>5. PICK before \in SUBSET Counts(lines) :
          before = {i \in Counts(lines) : i < Max(Metas(lines))}
    OBVIOUS
  <1>6. PICK baseline : baseline = IF own \/ before = {} THEN 0 ELSE lines[Max(before)].total
    OBVIOUS
  <1>7. PICK first : first = IF own THEN lines[Min(Counts(lines))] ELSE None
    OBVIOUS
  <1>8. PICK final : final = lines[e]
    OBVIOUS
  <1>9. PICK total : total = HistoricalTotal(first, final, baseline)
    OBVIOUS
  <1>10. PICK meta : meta = lines[m]
    OBVIOUS
  <1>11. CASE own /\ first.last # None /\ final.last # None /\ final.total < first.total
    <2>1. Backward(lines, own) = Forward(lines)
      BY <1>3, <1>7, <1>8, <1>11 DEF Backward
    <2> QED
      BY <2>1, ForwardGood
  <1>12. CASE ~(own /\ first.last # None /\ final.last # None /\ final.total < first.total)
    <2>1. final.total \in Nat /\ final.last \in Nat \cup {None} /\ final.at \in Moments
          /\ ((final.last # None) <=> named)
      BY <1>3, <1>8, PlacesType
    <2>2. meta.thread \in {0, 1} /\ meta.at \in Times
      BY <1>4, <1>10, PlacesType DEF MetaLines
    <2>3. baseline \in Nat /\ (Steady /\ ~named => baseline <= final.total)
      <3>1. CASE own \/ before = {}
        BY <1>6, <2>1, <3>1
      <3>2. CASE ~own /\ before # {}
        <4>1. Max(before) \in before
          BY <1>2, <1>5, <3>2, MaxIs
        <4>2. Max(before) \in Counts(lines) /\ Max(before) <= e
          BY <1>3, <1>5, <4>1
        <4> QED
          BY <1>3, <1>6, <1>8, <3>2, <4>2, PlacesType DEF Grows
      <3> QED
        BY <3>1, <3>2
    <2>4. own => first.total \in Nat /\ first.last \in Nat \cup {None}
      <3>1. Min(Counts(lines)) \in Counts(lines)
        <4>1. Counts(lines) \in SUBSET Nat
          BY <1>2
        <4> QED
          BY <4>1, MinIs
      <3> QED
        BY <1>7, <3>1, PlacesType
    <2>5. total \in Nat /\ (Steady /\ ~named => total = final.total - baseline)
      <3>1. CASE first # None /\ first.last # None /\ final.last # None
                 /\ final.total >= first.total
        <4>1. total = final.total - first.total + first.last /\ named /\ own
          BY <1>7, <1>9, <2>1, <3>1 DEF HistoricalTotal
        <4> QED
          BY <2>1, <2>4, <3>1, <4>1
      <3>2. CASE ~(first # None /\ first.last # None /\ final.last # None
                   /\ final.total >= first.total)
        <4>1. total = subtractInherited(final.total, baseline)
          BY <1>9, <3>2 DEF HistoricalTotal
        <4> QED
          BY <2>1, <2>3, <4>1 DEF subtractInherited
      <3> QED
        BY <3>1, <3>2
    <2>6. PICK at : at = IF final.at = None THEN meta.at ELSE final.at
      OBVIOUS
    <2>7. at \in Moments /\ meta.at \in Moments
      BY <2>1, <2>2, <2>6 DEF Moments
    <2>8. PICK r : r = [thread |-> meta.thread, startedAt |-> meta.at, observedAt |-> at,
                        baseline |-> baseline, lastCumulative |-> final.total,
                        historical |-> total, increments |-> NoIncrements,
                        tokens |-> total, tracked |-> FALSE]
      OBVIOUS
    <2>9. Backward(lines, own) = r
      BY <1>3, <1>4, <1>5, <1>6, <1>7, <1>8, <1>9, <1>10, <1>12, <2>6, <2>8 DEF Backward
    <2>10. NoIncrements \in Increments
      BY DEF NoIncrements, Increments
    <2>11. r \in Sessions
      BY <2>1, <2>2, <2>3, <2>5, <2>7, <2>8, <2>10 DEF Sessions
    <2>12. Allocated(r) = r.tokens
      BY <2>5, <2>8, AllocatedIs, SumZero
    <2>13. Steady => Even(r, named)
      BY <2>3, <2>5, <2>8, <2>12 DEF Even
    <2>14. r.thread \in {0, 1} /\ r.startedAt \in Times
      BY <2>2, <2>8
    <2> QED
      BY <2>9, <2>11, <2>13, <2>14 DEF Good
  <1> QED
    BY <1>11, <1>12

-----------------------------------------------------------------------------
(* A record from nothing *)

\* The lines of a rollout file: the first is metadata, and the totals of one that was
\* forked before the index was built do not start afresh.
Sound(lines, named) ==
    /\ lines \in Seq(Line(named))
    /\ lines # <<>> =>
          /\ lines[1] \in MetaLines
          /\ Steady /\ ~named /\ lines[1].thread = 0 /\ lines[1].at < InitializedAt
                => Grows(lines)

LEMMA BootstrapGood ==
    ASSUME NEW named \in BOOLEAN, NEW lines \in Seq(Line(named)), NEW begun, NEW tracked, NEW all,
           all = (IF begun = None THEN lines ELSE Append(lines, begun)), Sound(all, named)
    PROVE  Bootstrap(lines, begun, tracked) \in Good(named) \cup {None}
  <1>1. PICK head : head = HeadMeta(all)
    OBVIOUS
  <1>2. PICK own \in BOOLEAN : own = (head # None /\ head.thread = 1)
    OBVIOUS
  <1>3. PICK historical : historical = Backward(all, own)
    OBVIOUS
  <1>4. \/ Bootstrap(lines, begun, tracked) = Forward(lines)
        \/ /\ Bootstrap(lines, begun, tracked) = historical
           /\ ~(head # None /\ head.at >= InitializedAt)
    BY <1>1, <1>2, <1>3 DEF Bootstrap
  <1>5. Forward(lines) \in Good(named) \cup {None}
    BY ForwardGood
  <1>6. CASE Metas(all) = {}
    <2>1. historical = None
      BY <1>3, <1>6 DEF Backward
    <2> QED
      BY <1>4, <1>5, <2>1
  <1>7. CASE Metas(all) # {} /\ ~(head # None /\ head.at >= InitializedAt)
    <2>1. all \in Seq(Line(named)) /\ all # <<>>
      BY <1>7 DEF Sound, Metas
    <2>2. all[1] \in MetaLines /\ 1 \in Metas(all) /\ Metas(all) \in SUBSET (Nat \ {0})
      <3>1. all[1] \in MetaLines
        BY <2>1 DEF Sound
      <3>2. all[1].meta
        BY <3>1 DEF MetaLines
      <3>3. Len(all) \in Nat /\ Len(all) >= 1
        BY <2>1
      <3> QED
        BY <3>1, <3>2, <3>3 DEF Metas
    <2>3. Min(Metas(all)) = 1
      <3>1. Metas(all) \in SUBSET Nat
        BY <2>2
      <3>2. Min(Metas(all)) \in Metas(all) /\ Min(Metas(all)) <= 1
        BY <2>2, <3>1, MinIs
      <3> QED
        BY <2>2, <3>2
    <2>4. head = all[1] /\ head # None
      BY <1>1, <1>7, <2>2, <2>3, ScanAssumption DEF HeadMeta, MetaLines, Times
    <2>5. head.at \in Times /\ head.thread \in {0, 1}
      BY <2>2, <2>4 DEF MetaLines
    <2>6. ~own => head.thread = 0 /\ head.at < InitializedAt
      <3>1. ~own => head.thread # 1
        BY <1>2, <2>4, Zenon
      <3>2. head.at < InitializedAt
        BY <1>7, <2>4, <2>5, ScanAssumption DEF Times
      <3> QED
        BY <2>5, <3>1, <3>2
    <2>7. Steady /\ ~named /\ ~own => Grows(all)
      BY <2>1, <2>4, <2>6 DEF Sound
    <2>8. historical \in Good(named) \cup {None}
      BY <1>3, <2>1, <2>7, ReadBackwards
    <2> QED
      BY <1>4, <1>5, <2>8
  <1> QED
    BY <1>4, <1>5, <1>6, <1>7

LEMMA SoundPrefix ==
    ASSUME NEW named \in BOOLEAN, NEW w, Sound(w, named),
           NEW p \in Seq(Line(named)), Len(p) <= Len(w), \A i \in 1 .. Len(p) : p[i] = w[i]
    PROVE  Sound(p, named)
  <1> SUFFICES ASSUME p # <<>> PROVE Sound(p, named)
    BY DEF Sound
  <1>1. w \in Seq(Line(named)) /\ Len(w) \in Nat /\ Len(p) \in Nat /\ Len(p) >= 1
    BY DEF Sound
  <1>2. w # <<>> /\ p[1] = w[1]
    BY <1>1
  <1>3. \A i \in Counts(p) : i \in Counts(w) /\ p[i] = w[i]
    BY <1>1 DEF Counts
  <1>4. Grows(w) => Grows(p)
    BY <1>3 DEF Grows
  <1> QED
    BY <1>2, <1>4 DEF Sound

-----------------------------------------------------------------------------
(* The file *)

Lined == /\ names \in BOOLEAN /\ file \in Seq(Line(names))
         /\ tail \in Line(names) \cup {None}

FileInv ==
    /\ Lined /\ Sound(Written, names)
    /\ moved \in 0 .. MaxRewrites /\ now \in Times
    /\ ~names => "bare" \in Habits
    /\ Written # <<>> /\ Written[1].thread = 0 => "fork" \in Habits

LEMMA WrittenIs ==
    ASSUME Lined
    PROVE  /\ Written \in Seq(Line(names)) /\ Len(file) \in Nat
           /\ \A i \in 1 .. Len(file) : Written[i] = file[i]
           /\ tail = None => Written = file
           /\ tail # None => Len(Written) = Len(file) + 1 /\ Written[Len(file) + 1] = tail
  BY AppendProperties DEF Lined, Written

LEMMA FirstIs ==
    ASSUME FileInv, file # <<>>
    PROVE  Written # <<>> /\ Written[1] = file[1] /\ file[1] \in MetaLines
  <1>1. Len(file) \in Nat /\ Len(file) >= 1 /\ file \in Seq(Line(names))
    BY DEF FileInv, Lined
  <1>2. Written[1] = file[1] /\ Written # <<>>
    BY <1>1, WrittenIs DEF FileInv
  <1> QED
    BY <1>2 DEF FileInv, Sound

LEMMA TotalIs ==
    ASSUME FileInv
    PROVE  /\ Total \in Nat
           /\ Grows(Written) => \A i \in Counts(Written) : Written[i].total <= Total
           /\ Written = <<>> => Total = 0
  <1>1. Written \in Seq(Line(names)) /\ names \in BOOLEAN
    BY WrittenIs DEF FileInv, Lined
  <1>2. PICK N \in Nat : N = Len(Written)
    BY <1>1
  <1>3. Counts(Written) \in SUBSET (0 .. N)
    BY <1>1, <1>2, PlacesType
  <1>4. CASE Counts(Written) = {}
    BY <1>4 DEF Total
  <1>5. CASE Counts(Written) # {}
    <2>1. PICK m \in Counts(Written) : m = Max(Counts(Written))
                                        /\ \A k \in Counts(Written) : k <= m
      BY <1>3, <1>5, MaxIs
    <2>2. Total = Written[m].total
      BY <1>5, <2>1 DEF Total
    <2>3. Written # <<>>
      BY <1>5 DEF Counts
    <2> QED
      BY <1>1, <2>1, <2>2, <2>3, PlacesType DEF Grows
  <1> QED
    BY <1>4, <1>5

\* Whether the totals of the file may not start afresh.
Bound == Steady /\ ~names /\ file[1].thread = 0 /\ file[1].at < InitializedAt

LEMMA BeginSound ==
    ASSUME FileInv, NEW l \in Line(names), Begin(l), file # <<>>,
           Bound /\ ~l.meta => \A i \in Counts(file) : file[i].total <= l.total
    PROVE  FileInv'
  <1>1. tail = None /\ tail' = l /\ file' = file /\ names' = names /\ moved' = moved
        /\ now' = now
    BY DEF Begin
  <1>2. Written = file /\ names \in BOOLEAN /\ file \in Seq(Line(names))
    BY <1>1 DEF FileInv, Lined, Written
  <1>3. PICK w : w = Written'
    OBVIOUS
  <1>4. w = (IF l = None THEN file ELSE Append(file, l))
    BY <1>1, <1>3 DEF Written
  <1>5. CASE l = None
    BY <1>1, <1>2, <1>3, <1>4, <1>5 DEF FileInv, Lined
  <1>6. CASE l # None
    <2>1. w \in Seq(Line(names)) /\ w # <<>> /\ Len(w) = Len(file) + 1 /\ Len(file) \in Nat
          /\ (\A i \in 1 .. Len(file) : w[i] = file[i]) /\ w[Len(file) + 1] = l
      BY <1>2, <1>4, <1>6, AppendProperties
    <2>2. w[1] = file[1] /\ file[1] \in MetaLines
      BY <1>2, <2>1, FirstIs
    <2>3. Bound => Grows(w)
      <3> SUFFICES ASSUME Bound, NEW i \in Counts(w), NEW j \in Counts(w), i <= j
                   PROVE  w[i].total <= w[j].total
        BY DEF Grows
      <3>1. Grows(file)
        BY <1>2, FirstIs DEF Bound, FileInv, Sound
      <3>2. i \in 1 .. Len(file) + 1 /\ j \in 1 .. Len(file) + 1 /\ ~w[i].meta /\ ~w[j].meta
        BY <2>1 DEF Counts
      <3>3. CASE j \in 1 .. Len(file)
        <4>1. i \in Counts(file) /\ j \in Counts(file) /\ w[i] = file[i] /\ w[j] = file[j]
          BY <2>1, <3>2, <3>3 DEF Counts
        <4> QED
          BY <3>1, <4>1 DEF Grows
      <3>4. CASE j = Len(file) + 1 /\ i \in 1 .. Len(file)
        <4>1. i \in Counts(file) /\ w[i] = file[i] /\ w[j] = l /\ ~l.meta
          BY <2>1, <3>2, <3>4 DEF Counts
        <4> QED
          BY <4>1
      <3>5. CASE j = Len(file) + 1 /\ i = j
        <4>1. w[i].total \in Nat
          BY <1>2, <2>1, PlacesType
        <4> QED
          BY <3>5, <4>1
      <3> QED
        BY <2>1, <3>2, <3>3, <3>4, <3>5
    <2>4. Sound(w, names)
      BY <2>1, <2>2, <2>3 DEF Sound, Bound
    <2>5. w[1].thread = 0 => "fork" \in Habits
      BY <1>2, <2>2 DEF FileInv
    <2> QED
      BY <1>1, <1>2, <1>3, <2>1, <2>4, <2>5 DEF FileInv, Lined
  <1> QED
    BY <1>5, <1>6

LEMMA FileInit == Init => FileInv
  <1> SUFFICES ASSUME Init PROVE FileInv
    OBVIOUS
  <1>1. 1 \in Times /\ 0 \in 0 .. MaxRewrites
    BY ScanAssumption DEF Times
  <1>2. names \in BOOLEAN /\ (~names => "bare" \in Habits)
    BY DEF Init
  <1>3. tail \in MetaLines /\ (tail.thread = 0 => "fork" \in Habits)
    <2>1. tail = Meta(1, 1) \/ (tail = Meta(0, 1) /\ "fork" \in Habits)
      BY DEF Init
    <2>2. Meta(1, 1) \in MetaLines /\ Meta(0, 1) \in MetaLines /\ Meta(1, 1).thread = 1
      BY <1>1 DEF Meta, MetaLines
    <2> QED
      BY <2>1, <2>2
  <1>4. tail \in Line(names) /\ tail.meta
    BY <1>3 DEF Line, MetaLines
  <1>5. file = <<>> /\ file \in Seq(Line(names)) /\ Len(file) = 0
    BY DEF Init
  <1>6. Lined
    BY <1>2, <1>4, <1>5 DEF Lined
  <1>7. tail # None
    BY <1>3, ScanAssumption DEF MetaLines, Times
  <1>8. Written \in Seq(Line(names)) /\ Len(Written) = 1 /\ Written[1] = tail
    BY <1>5, <1>6, <1>7, WrittenIs
  <1>9. Counts(Written) = {}
    BY <1>4, <1>8 DEF Counts
  <1>10. Sound(Written, names)
    BY <1>3, <1>8, <1>9 DEF Sound, Grows
  <1> QED
    BY <1>1, <1>2, <1>3, <1>6, <1>8, <1>10 DEF FileInv, Init

LEMMA RequestFile == ASSUME FileInv, Request PROVE FileInv'
  <1>1. PICK use \in 1 .. MaxUse, at \in Stamp : Begin(Count(Total + use, Named(use), at))
    BY DEF Request
  <1>2. file # <<>> /\ tail = None /\ Written = file
    BY <1>1 DEF Request, Begin, Written
  <1>3. PICK l : l = Count(Total + use, Named(use), at)
    OBVIOUS
  <1>4. at \in Moments /\ names \in BOOLEAN
    BY DEF Stamp, FileInv, Lined, Moments
  <1>5. Total \in Nat /\ (Grows(file) => \A i \in Counts(file) : file[i].total <= Total)
    BY <1>2, TotalIs
  <1>6. use \in Nat /\ Total + use \in Nat /\ Total + use >= Total
    BY <1>5, ScanAssumption
  <1>7. Named(use) \in Nat \cup {None} /\ ((Named(use) # None) <=> names)
    BY <1>4, <1>6, ScanAssumption DEF Named
  <1>8. l \in Line(names) /\ l.total = Total + use
    BY <1>3, <1>4, <1>6, <1>7 DEF Line, CountLines, Count
  <1>9. Bound => Grows(file)
    BY <1>2, FirstIs DEF Bound, FileInv, Sound
  <1>10. \A i \in Counts(file) : file[i].total \in Nat
    BY PlacesType DEF FileInv, Lined
  <1>11. Bound => \A i \in Counts(file) : file[i].total <= l.total
    BY <1>5, <1>6, <1>8, <1>9, <1>10
  <1> QED
    BY <1>1, <1>2, <1>3, <1>8, <1>11, BeginSound

LEMMA RepeatFile == ASSUME FileInv, Repeat PROVE FileInv'
  <1>1. PICK l : l = [Last(file) EXCEPT !.at = now]
    OBVIOUS
  <1>2. PICK k : k = Last(file)
    OBVIOUS
  <1>3. file # <<>> /\ tail = None /\ Written = file /\ Begin(l) /\ ~k.meta
    BY <1>1, <1>2 DEF Repeat, Begin, Written
  <1>4. file \in Seq(Line(names)) /\ names \in BOOLEAN /\ now \in Moments
    BY DEF FileInv, Lined, Moments
  <1>5. Len(file) \in Nat /\ Len(file) >= 1 /\ k = file[Len(file)] /\ k \in Line(names)
    BY <1>2, <1>3, <1>4 DEF Last
  <1>6. k \in CountLines /\ ((k.last # None) <=> names)
    BY <1>3, <1>4, <1>5, CountType
  <1>7. l = [k EXCEPT !.at = now]
    BY <1>1, <1>2
  <1>8. l \in CountLines /\ l.total = k.total /\ l.last = k.last
    BY <1>4, <1>6, <1>7 DEF CountLines
  <1>9. l \in Line(names)
    BY <1>6, <1>8 DEF Line
  <1>10. Len(file) \in Counts(file) /\ \A i \in Counts(file) : i <= Len(file)
    BY <1>3, <1>5 DEF Counts
  <1>11. Bound => Grows(file)
    BY <1>3, FirstIs DEF Bound, FileInv, Sound
  <1>12. Bound => \A i \in Counts(file) : file[i].total <= l.total
    BY <1>5, <1>8, <1>10, <1>11 DEF Grows
  <1> QED
    BY <1>3, <1>9, <1>12, BeginSound

LEMMA ResetFile == ASSUME FileInv, Reset PROVE FileInv'
  <1>1. PICK use \in 1 .. MaxUse : Begin(Count(use, Named(use), now))
    BY DEF Reset
  <1>2. tail = None /\ Written = file
    BY <1>1 DEF Begin, Written
  <1>3. file # <<>>
    BY <1>2, TotalIs DEF Reset
  <1>4. PICK l : l = Count(use, Named(use), now)
    OBVIOUS
  <1>5. now \in Moments /\ names \in BOOLEAN /\ use \in Nat
    BY ScanAssumption DEF FileInv, Lined, Moments
  <1>6. Named(use) \in Nat \cup {None} /\ ((Named(use) # None) <=> names)
    BY <1>5, ScanAssumption DEF Named
  <1>7. l \in Line(names)
    BY <1>4, <1>5, <1>6 DEF Line, CountLines, Count
  <1>8. Head(file) = file[1]
    BY <1>3 DEF FileInv, Lined
  <1>9. ~Bound
    <2> SUFFICES ASSUME Bound PROVE FALSE
      OBVIOUS
    <2>1. "reset" \in Habits
      BY <1>8 DEF Reset, Bound
    <2>2. "bare" \in Habits /\ "fork" \in Habits
      BY <1>2, <1>3 DEF FileInv, Bound
    <2> QED
      BY <2>1, <2>2 DEF Bound, Steady
  <1> QED
    BY <1>1, <1>3, <1>4, <1>7, <1>9, BeginSound

LEMMA ForkFile == ASSUME FileInv, Fork PROVE FileInv'
  <1>1. Begin(Meta(1, now)) /\ file # <<>>
    BY DEF Fork
  <1>2. PICK l : l = Meta(1, now)
    OBVIOUS
  <1>3. l \in MetaLines /\ l.meta
    BY <1>2 DEF Meta, MetaLines, FileInv
  <1>4. l \in Line(names)
    BY <1>3 DEF Line
  <1> QED
    BY <1>1, <1>2, <1>3, <1>4, BeginSound

LEMMA EndLineFile == ASSUME FileInv, EndLine PROVE FileInv' /\ Len(file') = Len(file) + 1
  <1>1. tail # None /\ file' = Append(file, tail) /\ tail' = None /\ names' = names
        /\ moved' = moved /\ now' = now
    BY DEF EndLine
  <1>2. Written' = Written /\ Written = Append(file, tail)
    BY <1>1 DEF Written
  <1>3. names \in BOOLEAN /\ file \in Seq(Line(names)) /\ tail \in Line(names)
    BY <1>1 DEF FileInv, Lined
  <1>4. file' \in Seq(Line(names)) /\ Len(file') = Len(file) + 1
    BY <1>1, <1>3, AppendProperties
  <1>5. Sound(Written, names)' /\ (Written[1])' = Written[1]
    BY <1>1, <1>2 DEF FileInv
  <1> QED
    BY <1>1, <1>2, <1>3, <1>4, <1>5 DEF FileInv, Lined

LEMMA FileSame ==
    ASSUME FileInv, UNCHANGED <<file, tail, names>>, moved' \in 0 .. MaxRewrites, now' \in Times
    PROVE  FileInv'
  <1>1. Written' = Written
    BY DEF Written
  <1> QED
    BY <1>1 DEF FileInv, Lined

-----------------------------------------------------------------------------
(* The records *)

ReadInv ==
    /\ attempt \in 0 .. 3
    /\ size # None => size[2] \in 0 .. Len(file)
    /\ \A r \in {record, checkpoint} \ {None} :
          r.state \in Good(names) /\ r.offset \in 0 .. Len(file)

LEMMA ReadInit == Init => ReadInv
  BY DEF Init, ReadInv

LEMMA ReadSame ==
    ASSUME ReadInv, FileInv, Len(file') \in Nat, Len(file) <= Len(file'),
           UNCHANGED <<names, scan, record>>
    PROVE  ReadInv'
  BY DEF ReadInv, FileInv, Lined, scan

Begins(p, w) == Len(p) <= Len(w) /\ \A i \in 1 .. Len(p) : p[i] = w[i]

LEMMA ReadFrom ==
    ASSUME FileInv, ReadInv, size # None,
           NEW read \in {n \in {size[2], size[2] - 1} : n >= 0 /\ (size[1] = moved => n = size[2])},
           NEW begun \in IF size[1] = moved THEN BegunLine(size) ELSE {None},
           NEW lines, lines = SubSeq(file, 1, read),
           NEW all, all = (IF begun = None THEN lines ELSE Append(lines, begun))
    PROVE  read \in 0 .. Len(file) /\ Len(lines) = read /\ lines \in Seq(Line(names))
           /\ Sound(all, names) /\ Begins(lines, file) /\ Begins(all, Written)
  <1>1. file \in Seq(Line(names)) /\ names \in BOOLEAN /\ Len(file) \in Nat
        /\ tail \in Line(names) \cup {None}
    BY DEF FileInv, Lined
  <1>2. read \in 0 .. Len(file) /\ (size[1] = moved => read = size[2]) /\ size[2] \in 0 .. Len(file)
    BY <1>1 DEF ReadInv
  <1>3. lines \in Seq(Line(names)) /\ Len(lines) = read
        /\ \A i \in 1 .. read : lines[i] = file[i]
    <2>1. \A i \in 1 .. read : file[i] \in Line(names)
      BY <1>1, <1>2
    <2>2. 1 \in Int /\ read \in Int
      BY <1>1, <1>2
    <2>3. lines \in Seq(Line(names)) /\ Len(lines) = (IF 1 <= read THEN read - 1 + 1 ELSE 0)
          /\ \A i \in 1 .. read - 1 + 1 : lines[i] = file[1 + i - 1]
      BY <2>1, <2>2, SubSeqProperties
    <2>4. Len(lines) = read
      BY <1>2, <2>3
    <2>5. \A i \in 1 .. read : i \in 1 .. read - 1 + 1 /\ 1 + i - 1 = i
      BY <1>2
    <2> QED
      BY <2>3, <2>4, <2>5
  <1>4. Lined /\ Sound(Written, names)
    BY DEF FileInv
  <1>5. Written \in Seq(Line(names)) /\ Len(Written) >= Len(file)
        /\ (\A i \in 1 .. Len(file) : Written[i] = file[i])
        /\ (tail # None => Len(Written) = Len(file) + 1 /\ Written[Len(file) + 1] = tail)
    BY <1>1, <1>4, WrittenIs
  <1>6. CASE begun = None
    <2>1. all = lines
      BY <1>6
    <2>2. Len(lines) <= Len(Written) /\ \A i \in 1 .. Len(lines) : lines[i] = Written[i]
      BY <1>1, <1>2, <1>3, <1>5
    <2>3. Sound(lines, names)
      BY <1>1, <1>3, <1>4, <2>2, SoundPrefix
    <2> QED
      <3>1. Begins(lines, file)
        BY <1>1, <1>2, <1>3 DEF Begins
      <3>2. Begins(all, Written)
        BY <2>1, <2>2 DEF Begins
      <3> QED
        BY <1>2, <1>3, <2>1, <2>3, <3>1, <3>2
  <1>7. CASE begun # None
    <2>1. read = size[2] /\ begun \in BegunLine(size)
      BY <1>2, <1>7
    <2>2. begun \in Line(names) /\ read + 1 <= Len(Written) /\ begun = Written[read + 1]
      <3>1. CASE size[2] = Len(file)
        <4>1. begun = tail
          BY <1>7, <2>1, <3>1 DEF BegunLine
        <4> QED
          BY <1>1, <1>5, <1>7, <2>1, <3>1, <4>1
      <3>2. CASE size[2] # Len(file)
        <4>1. begun = file[size[2] + 1]
          BY <1>7, <2>1, <3>2 DEF BegunLine
        <4>2. read + 1 \in 1 .. Len(file)
          BY <1>1, <1>2, <2>1, <3>2
        <4>3. Len(Written) \in Nat
          BY <1>5
        <4> QED
          BY <1>1, <1>5, <2>1, <4>1, <4>2, <4>3
      <3> QED
        BY <3>1, <3>2
    <2>3. all \in Seq(Line(names)) /\ Len(all) = read + 1
          /\ (\A i \in 1 .. read : all[i] = lines[i]) /\ all[read + 1] = begun
      <3>1. all = Append(lines, begun)
        BY <1>7
      <3>2. /\ Append(lines, begun) \in Seq(Line(names))
            /\ Len(Append(lines, begun)) = Len(lines) + 1
            /\ \A i \in 1 .. Len(lines) : Append(lines, begun)[i] = lines[i]
            /\ Append(lines, begun)[Len(lines) + 1] = begun
        BY <1>3, <2>2, AppendProperties
      <3> QED
        BY <1>3, <3>1, <3>2
    <2>4. \A i \in 1 .. Len(all) : all[i] = Written[i]
      <3> SUFFICES ASSUME NEW i \in 1 .. read + 1 PROVE all[i] = Written[i]
        BY <2>3
      <3>1. CASE i \in 1 .. read
        BY <1>1, <1>2, <1>3, <1>5, <2>3, <3>1
      <3>2. CASE i = read + 1
        BY <2>2, <2>3, <3>2
      <3>3. read \in Nat
        BY <1>2
      <3>4. i \in 1 .. read \/ i = read + 1
        BY <3>3
      <3> QED
        BY <3>1, <3>2, <3>4
    <2> QED
      <3>1. Len(all) <= Len(Written)
        BY <2>2, <2>3
      <3>2. Sound(all, names)
        BY <1>1, <1>4, <2>3, <2>4, <3>1, SoundPrefix
      <3> QED
        BY <1>1, <1>2, <1>3, <2>4, <3>1, <3>2 DEF Begins
  <1> QED
    BY <1>2, <1>3, <1>6, <1>7

LEMMA ResultGood ==
    ASSUME FileInv, ReadInv, NEW lines \in Seq(Line(names)), NEW begun, NEW all,
           all = (IF begun = None THEN lines ELSE Append(lines, begun)), Sound(all, names)
    PROVE  Result(lines, begun) \in Good(names) \cup {None}
  <1>1. names \in BOOLEAN
    BY DEF FileInv, Lined
  <1>2. PICK c : c = checkpoint
    OBVIOUS
  <1>3. CASE c # None /\ Bytes(size) > Bytes(c.size) /\ GuardMatches(c, lines)
    <2>1. c.state \in Good(names) /\ c.offset \in Nat /\ c.offset <= Len(lines)
      BY <1>2, <1>3 DEF ReadInv, GuardMatches
    <2>2. PICK rest : rest = SubSeq(lines, c.offset + 1, Len(lines))
      OBVIOUS
    <2>3. rest \in Seq(Line(names))
      <3>1. \A i \in c.offset + 1 .. Len(lines) : lines[i] \in Line(names)
        BY <2>1
      <3>2. c.offset + 1 \in Int /\ Len(lines) \in Int
        BY <2>1
      <3> QED
        BY <2>2, <3>1, <3>2, SubSeqProperties
    <2>4. Result(lines, begun) = ReadOn(c.state, rest)
      BY <1>2, <1>3, <2>2 DEF Result
    <2> QED
      BY <1>1, <2>1, <2>3, <2>4, ReadOnGood
  <1>4. CASE ~(c # None /\ Bytes(size) > Bytes(c.size) /\ GuardMatches(c, lines))
    <2>1. PICK tracked : Result(lines, begun) = Bootstrap(lines, begun, tracked)
      BY <1>2, <1>4 DEF Result
    <2> QED
      BY <1>1, <2>1, BootstrapGood
  <1> QED
    BY <1>3, <1>4

LEMMA ScanRead == ASSUME FileInv, ReadInv, Scan PROVE ReadInv'
  <1>1. size # None /\ file' = file /\ names' = names
    BY DEF Scan, Idle, disk
  <1>2. PICK read \in {n \in {size[2], size[2] - 1} : n >= 0 /\ (size[1] = moved => n = size[2])},
             begun \in IF size[1] = moved THEN BegunLine(size) ELSE {None} :
          LET state == Result(SubSeq(file, 1, read), begun)
              result == IF state = None THEN None
                        ELSE [state |-> state, size |-> size, offset |-> read,
                              moved |-> moved]
          IN  IF Settled
              THEN record' = result /\ Rest
              ELSE /\ size' = Fingerprint /\ attempt' = attempt + 1
                   /\ checkpoint' = IF result = None THEN checkpoint ELSE result
                   /\ UNCHANGED record
    BY DEF Scan
  <1>3. PICK lines : lines = SubSeq(file, 1, read)
    OBVIOUS
  <1>4. PICK all : all = IF begun = None THEN lines ELSE Append(lines, begun)
    OBVIOUS
  <1>5. read \in 0 .. Len(file) /\ lines \in Seq(Line(names)) /\ Sound(all, names)
    BY <1>1, <1>3, <1>4, ReadFrom
  <1>6. PICK state : state = Result(lines, begun)
    OBVIOUS
  <1>7. state \in Good(names) \cup {None}
    BY <1>4, <1>5, <1>6, ResultGood
  <1>8. PICK result : result = IF state = None THEN None
                               ELSE [state |-> state, size |-> size, offset |-> read,
                                     moved |-> moved]
    OBVIOUS
  <1>9. result # None => result.state \in Good(names) /\ result.offset \in 0 .. Len(file)
    BY <1>5, <1>7, <1>8
  <1>10. IF Settled THEN record' = result /\ Rest
         ELSE /\ size' = Fingerprint /\ attempt' = attempt + 1
              /\ checkpoint' = IF result = None THEN checkpoint ELSE result
              /\ UNCHANGED record
    BY <1>2, <1>3, <1>6, <1>8
  <1>11. CASE Settled
    BY <1>1, <1>9, <1>10, <1>11 DEF ReadInv, Rest
  <1>12. CASE ~Settled
    <2>1. attempt' \in 0 .. 3
      BY <1>10, <1>12 DEF ReadInv, Settled
    <2>2. size'[2] \in 0 .. Len(file')
      BY <1>1, <1>10, <1>12 DEF Fingerprint, FileInv, Lined
    <2>3. \A r \in {record', checkpoint'} \ {None} :
             r.state \in Good(names) /\ r.offset \in 0 .. Len(file)
      BY <1>9, <1>10, <1>12 DEF ReadInv
    <2> QED
      BY <1>1, <2>1, <2>2, <2>3 DEF ReadInv
  <1> QED
    BY <1>11, <1>12

ScanInv == FileInv /\ ReadInv

LEMMA EveryStep == ScanInv /\ [Next]_vars => ScanInv'
  <1> SUFFICES ASSUME FileInv, ReadInv, [Next]_vars PROVE FileInv' /\ ReadInv'
    BY DEF ScanInv
  <1>0. Len(file) \in Nat
    BY DEF FileInv, Lined
  <1>1. moved \in 0 .. MaxRewrites /\ now \in Times /\ MaxTime \in Nat /\ MaxRewrites \in Nat
    BY ScanAssumption DEF FileInv
  <1>2. ASSUME NEW l, Begin(l) PROVE UNCHANGED <<names, scan, record, file>>
    BY <1>2 DEF Begin
  <1>3. CASE Request
    BY <1>0, <1>2, <1>3, RequestFile, ReadSame DEF Request
  <1>4. CASE Repeat
    BY <1>0, <1>2, <1>4, RepeatFile, ReadSame DEF Repeat
  <1>5. CASE Reset
    BY <1>0, <1>2, <1>5, ResetFile, ReadSame DEF Reset
  <1>6. CASE Fork
    BY <1>0, <1>2, <1>6, ForkFile, ReadSame DEF Fork
  <1>7. CASE EndLine
    <2>1. UNCHANGED <<names, scan, record>>
      BY <1>7 DEF EndLine
    <2> QED
      BY <1>0, <1>7, <2>1, EndLineFile, ReadSame
  <1>8. CASE Tick
    <2>1. UNCHANGED <<file, tail, moved, names, record, scan>> /\ now' \in Times
      BY <1>1, <1>8 DEF Tick, Times
    <2> QED
      BY <1>0, <1>1, <2>1, FileSame, ReadSame
  <1>9. CASE Rewrite
    <2>1. UNCHANGED <<file, tail, now, names, record, scan>> /\ moved' \in 0 .. MaxRewrites
      BY <1>1, <1>9 DEF Rewrite
    <2> QED
      BY <1>0, <1>1, <2>1, FileSame, ReadSame
  <1>10. CASE Discover
    <2>1. UNCHANGED disk /\ record' = record /\ size' = Fingerprint /\ attempt' = 1
          /\ checkpoint' = record
      BY <1>10 DEF Discover
    <2>2. size'[2] = Len(file)
      BY <2>1 DEF Fingerprint
    <2>3. ReadInv'
      BY <1>0, <2>1, <2>2 DEF ReadInv, disk
    <2> QED
      BY <1>1, <2>1, <2>3, FileSame DEF disk
  <1>11. CASE Scan
    <2>1. UNCHANGED disk
      BY <1>11 DEF Scan
    <2> QED
      BY <1>1, <1>11, <2>1, FileSame, ScanRead DEF disk
  <1>12. CASE ScanFails
    <2>1. UNCHANGED <<disk, record>> /\ Rest
      BY <1>12 DEF ScanFails
    <2>2. ReadInv'
      BY <2>1 DEF ReadInv, disk, Rest
    <2> QED
      BY <1>1, <2>1, <2>2, FileSame DEF disk
  <1>13. CASE UNCHANGED vars
    BY <1>0, <1>1, <1>13, FileSame, ReadSame DEF vars, disk
  <1> QED
    BY <1>3, <1>4, <1>5, <1>6, <1>7, <1>8, <1>9, <1>10, <1>11, <1>12, <1>13 DEF Next

LEMMA Always == Spec => []ScanInv
  <1>1. Init => ScanInv
    BY FileInit, ReadInit DEF ScanInv
  <1> QED
    BY <1>1, EveryStep, PTL DEF Spec

LEMMA TypesKept == ASSUME ScanInv PROVE TypeOK
  <1>1. tail = None \/ tail.meta \/ tail.total \in Nat
    <2>1. tail # None => tail \in Line(names) /\ names \in BOOLEAN
      BY DEF ScanInv, FileInv, Lined
    <2> QED
      BY <2>1, CountType
  <1>2. ASSUME NEW r \in {record, checkpoint} \ {None}
        PROVE  /\ DOMAIN r.state = DOMAIN Blank /\ r.state.thread \in {0, 1}
               /\ r.state.historical \in Nat /\ r.state.tokens \in Nat
               /\ \A t \in Moments : r.state.increments[t] \in Nat
               /\ r.offset \in 0 .. Len(file)
    <2>1. PICK s : s = r.state
      OBVIOUS
    <2>2. s \in Good(names) /\ r.offset \in 0 .. Len(file)
      BY <2>1 DEF ScanInv, ReadInv
    <2>3. s \in Sessions /\ s.thread \in {0, 1}
      BY <2>2 DEF Good
    <2>4. DOMAIN s = DOMAIN Blank
      BY <2>3 DEF Sessions, Blank
    <2>5. s.historical \in Nat /\ s.tokens \in Nat /\ s.increments \in Increments
      BY <2>3, Fields
    <2> QED
      BY <2>1, <2>2, <2>3, <2>4, <2>5 DEF Increments
  <1> QED
    BY <1>1, <1>2 DEF ScanInv, FileInv, ReadInv, TypeOK

\* Whatever Codex writes and whenever the file is read, the records are typed.
THEOREM TypeCorrect == Spec => []TypeOK
  BY Always, TypesKept, PTL

\* Whatever interleaves, all tokens of a session are given to a moment or to the time
\* before the index (rebuildSnapshot).
THEOREM AllAttributed == ASSUME Steady PROVE Spec => []Conserved
  <1>1. ScanInv => Conserved
    BY DEF ScanInv, ReadInv, Conserved, Good, Even
  <1> QED
    BY <1>1, Always, PTL

-----------------------------------------------------------------------------
(* Sessions that count alike *)

\* Every count carries its time.
Dated == "undated" \notin Habits

Like(s, t) ==
    /\ s.thread = t.thread /\ s.startedAt = t.startedAt /\ s.baseline = t.baseline
    /\ s.lastCumulative = t.lastCumulative /\ s.tokens = t.tokens
    /\ Dated => s.historical = t.historical /\ s.increments = t.increments

\* What an attribution makes of the two.
Before(at, startedAt) == \/ at # None /\ at < InitializedAt
                         \/ at = None /\ startedAt < InitializedAt
Historical(s, delta, at) == IF HasTokens(delta) /\ Before(at, s.startedAt)
                            THEN s.historical + delta ELSE s.historical
Recorded(s, delta, at) == IF HasTokens(delta) /\ ~Before(at, s.startedAt)
                          THEN [s.increments EXCEPT ![at] = @ + delta] ELSE s.increments

LEMMA AttributeIs ==
    ASSUME NEW s \in Sessions, NEW delta \in Nat, NEW at \in Moments, NEW r,
           r = Attribute(s, delta, at)
    PROVE  r.historical = Historical(s, delta, at) /\ r.increments = Recorded(s, delta, at)
  <1>1. CASE ~HasTokens(delta)
    BY <1>1 DEF Attribute, Historical, Recorded
  <1>2. CASE HasTokens(delta) /\ Before(at, s.startedAt)
    <2>1. PICK h : h = s.historical + delta
      OBVIOUS
    <2>2. r = [s EXCEPT !.historical = h]
      BY <1>2, <2>1 DEF Attribute, Before
    <2>3. r.historical = h /\ r.increments = s.increments
      BY <2>2 DEF Sessions
    <2> QED
      BY <1>2, <2>1, <2>3 DEF Historical, Recorded
  <1>3. CASE HasTokens(delta) /\ ~Before(at, s.startedAt)
    <2>1. PICK e : e = [s.increments EXCEPT ![at] = @ + delta]
      OBVIOUS
    <2>2. r = [s EXCEPT !.increments = e, !.tracked = TRUE]
      BY <1>3, <2>1 DEF Attribute, Before
    <2>3. r.historical = s.historical /\ r.increments = e
      BY <2>2 DEF Sessions
    <2> QED
      BY <1>3, <2>1, <2>3 DEF Historical, Recorded
  <1> QED
    BY <1>1, <1>2, <1>3

LEMMA RequestIs ==
    ASSUME NEW s \in Sessions, NEW c, c.total \in Nat, c.last \in Nat, c.at \in Moments,
           NEW duplicate \in BOOLEAN, NEW r, r = CountRequest(s, c, duplicate),
           NEW delta, delta = IF duplicate THEN 0 ELSE c.last
    PROVE  /\ r \in Sessions /\ Kept(s, r) /\ r.baseline = s.baseline
           /\ r.lastCumulative = c.total /\ r.tokens = s.tokens + delta
           /\ r.historical = Historical(s, delta, c.at)
           /\ r.increments = Recorded(s, delta, c.at)
  <1>1. delta \in Nat /\ s.tokens \in Nat
    BY Fields
  <1>2. PICK n \in Nat : n = s.tokens + delta
    BY <1>1
  <1>3. PICK a : a = [s EXCEPT !.lastCumulative = c.total, !.tokens = @ + delta]
    OBVIOUS
  <1>4. a = [s EXCEPT !.lastCumulative = c.total, !.tokens = n]
    BY <1>2, <1>3
  <1>5. a \in Sessions /\ Kept(s, a) /\ a.tokens = n /\ a.lastCumulative = c.total
        /\ a.baseline = s.baseline
        /\ a.historical = s.historical /\ a.increments = s.increments
    BY <1>4 DEF Sessions, Kept
  <1>6. PICK b : b = Observe(a, c.at)
    OBVIOUS
  <1>7. b \in Sessions /\ Kept(a, b) /\ b.tokens = n /\ b.lastCumulative = c.total
        /\ b.baseline = s.baseline
        /\ b.historical = s.historical /\ b.increments = s.increments
    BY <1>5, <1>6, ObserveKeeps
  <1>8. r = Attribute(b, delta, c.at)
    BY <1>3, <1>6 DEF CountRequest
  <1>9. r \in Sessions /\ Kept(b, r) /\ r.tokens = n /\ r.lastCumulative = c.total
        /\ r.baseline = s.baseline
    BY <1>1, <1>7, <1>8, AttributeAdds
  <1>10. r.historical = Historical(b, delta, c.at) /\ r.increments = Recorded(b, delta, c.at)
    BY <1>1, <1>7, <1>8, AttributeIs
  <1> QED
    BY <1>2, <1>5, <1>7, <1>9, <1>10 DEF Kept, Historical, Recorded

\* The session a total is compared with: a smaller one starts afresh.
Afresh(s, c) ==
    IF c.total < s.lastCumulative
    THEN [s EXCEPT !.baseline = 0, !.historical = 0, !.increments = NoIncrements] ELSE s
Difference(s, c) ==
    IF c.total < s.lastCumulative THEN c.total ELSE c.total - s.lastCumulative

LEMMA AfreshIs ==
    ASSUME NEW s \in Sessions, NEW c, c.total \in Nat
    PROVE  /\ Afresh(s, c) \in Sessions /\ Kept(s, Afresh(s, c)) /\ Difference(s, c) \in Nat
           /\ c.total < s.lastCumulative =>
                 /\ Afresh(s, c).baseline = 0 /\ Afresh(s, c).historical = 0
                 /\ Afresh(s, c).increments = NoIncrements
           /\ ~(c.total < s.lastCumulative) => Afresh(s, c) = s
  <1>1. s.lastCumulative \in Nat /\ NoIncrements \in Increments
    BY Fields DEF NoIncrements, Increments
  <1>2. Difference(s, c) \in Nat
    BY <1>1 DEF Difference
  <1>3. CASE c.total < s.lastCumulative
    <2>1. PICK f : f = [s EXCEPT !.baseline = 0, !.historical = 0, !.increments = NoIncrements]
      OBVIOUS
    <2>2. f \in Sessions /\ Kept(s, f) /\ f.baseline = 0 /\ f.historical = 0
          /\ f.increments = NoIncrements
      BY <1>1, <2>1 DEF Sessions, Kept
    <2> QED
      BY <1>2, <1>3, <2>1, <2>2 DEF Afresh
  <1>4. CASE ~(c.total < s.lastCumulative)
    BY <1>2, <1>4 DEF Afresh, Kept
  <1> QED
    BY <1>3, <1>4

LEMMA TotalFields ==
    ASSUME NEW s \in Sessions, NEW c, c.total \in Nat, c.at \in Moments,
           NEW r, r = CountTotal(s, c), NEW f, f = Afresh(s, c)
    PROVE  /\ r \in Sessions /\ Kept(s, r) /\ r.baseline = f.baseline
           /\ r.lastCumulative = c.total
           /\ r.tokens = subtractInherited(c.total, f.baseline)
           /\ r.historical = Historical(f, Difference(s, c), c.at)
           /\ r.increments = Recorded(f, Difference(s, c), c.at)
  <1>1. f \in Sessions /\ Kept(s, f) /\ Difference(s, c) \in Nat
    BY AfreshIs
  <1>2. PICK n : n = subtractInherited(c.total, f.baseline)
    OBVIOUS
  <1>3. n \in Nat
    BY <1>1, <1>2, Fields DEF subtractInherited
  <1>4. PICK a : a = [f EXCEPT !.lastCumulative = c.total, !.tokens = n]
    OBVIOUS
  <1>5. a \in Sessions /\ Kept(f, a) /\ a.tokens = n /\ a.lastCumulative = c.total
        /\ a.baseline = f.baseline
        /\ a.historical = f.historical /\ a.increments = f.increments
    BY <1>1, <1>3, <1>4 DEF Sessions, Kept
  <1>6. PICK b : b = Observe(a, c.at)
    OBVIOUS
  <1>7. b \in Sessions /\ Kept(a, b) /\ b.tokens = n /\ b.lastCumulative = c.total
        /\ b.baseline = f.baseline
        /\ b.historical = f.historical /\ b.increments = f.increments
    BY <1>5, <1>6, ObserveKeeps
  <1>8. r = Attribute(b, Difference(s, c), c.at)
    BY <1>2, <1>4, <1>6 DEF CountTotal, Afresh, Difference
  <1>9. r \in Sessions /\ Kept(b, r) /\ r.tokens = n /\ r.lastCumulative = c.total
        /\ r.baseline = f.baseline
    BY <1>1, <1>7, <1>8, AttributeAdds
  <1>10. r.historical = Historical(b, Difference(s, c), c.at)
         /\ r.increments = Recorded(b, Difference(s, c), c.at)
    BY <1>1, <1>7, <1>8, AttributeIs
  <1> QED
    BY <1>1, <1>2, <1>5, <1>7, <1>9, <1>10 DEF Kept, Historical, Recorded

LEMMA LikeStart ==
    ASSUME NEW s \in Sessions, NEW t \in Sessions, NEW m \in MetaLines, Like(s, t)
    PROVE  Like(StartSession(s, m), StartSession(t, m))
  BY StartType DEF Like

LEMMA LikeRequest ==
    ASSUME NEW s \in Sessions, NEW t \in Sessions, Like(s, t),
           NEW c, c.total \in Nat, c.last \in Nat, c.at \in Moments,
           NEW duplicate \in BOOLEAN
    PROVE  Like(CountRequest(s, c, duplicate), CountRequest(t, c, duplicate))
  <1>1. PICK a, b : a = CountRequest(s, c, duplicate) /\ b = CountRequest(t, c, duplicate)
    OBVIOUS
  <1>2. PICK d : d = IF duplicate THEN 0 ELSE c.last
    OBVIOUS
  <1>3. /\ Kept(s, a) /\ a.baseline = s.baseline
        /\ a.lastCumulative = c.total /\ a.tokens = s.tokens + d
        /\ a.historical = Historical(s, d, c.at)
        /\ a.increments = Recorded(s, d, c.at)
    BY <1>1, <1>2, RequestIs
  <1>4. /\ Kept(t, b) /\ b.baseline = t.baseline
        /\ b.lastCumulative = c.total /\ b.tokens = t.tokens + d
        /\ b.historical = Historical(t, d, c.at)
        /\ b.increments = Recorded(t, d, c.at)
    BY <1>1, <1>2, RequestIs
  <1>5. Dated => Historical(s, d, c.at) = Historical(t, d, c.at)
                 /\ Recorded(s, d, c.at) = Recorded(t, d, c.at)
    BY DEF Like, Historical, Recorded
  <1> QED
    BY <1>1, <1>3, <1>4, <1>5 DEF Like, Kept

LEMMA LikeTotal ==
    ASSUME NEW s \in Sessions, NEW t \in Sessions, Like(s, t),
           NEW c, c.total \in Nat, c.at \in Moments
    PROVE  Like(CountTotal(s, c), CountTotal(t, c))
  <1>1. PICK a, b : a = CountTotal(s, c) /\ b = CountTotal(t, c)
    OBVIOUS
  <1>2. PICK f, g : f = Afresh(s, c) /\ g = Afresh(t, c)
    OBVIOUS
  <1>3. PICK d, e : d = Difference(s, c) /\ e = Difference(t, c)
    OBVIOUS
  <1>4. /\ Kept(s, a) /\ a.baseline = f.baseline /\ a.lastCumulative = c.total
        /\ a.tokens = subtractInherited(c.total, f.baseline)
        /\ a.historical = Historical(f, d, c.at) /\ a.increments = Recorded(f, d, c.at)
    BY <1>1, <1>2, <1>3, TotalFields
  <1>5. /\ Kept(t, b) /\ b.baseline = g.baseline /\ b.lastCumulative = c.total
        /\ b.tokens = subtractInherited(c.total, g.baseline)
        /\ b.historical = Historical(g, e, c.at) /\ b.increments = Recorded(g, e, c.at)
    BY <1>1, <1>2, <1>3, TotalFields
  <1>6. /\ f.baseline = g.baseline /\ f.startedAt = g.startedAt /\ d = e
        /\ Dated => f.historical = g.historical /\ f.increments = g.increments
    BY <1>2, <1>3, AfreshIs DEF Like, Kept, Difference
  <1>7. Dated => Historical(f, d, c.at) = Historical(g, e, c.at)
                 /\ Recorded(f, d, c.at) = Recorded(g, e, c.at)
    BY <1>6 DEF Historical, Recorded
  <1> QED
    BY <1>1, <1>4, <1>5, <1>6, <1>7 DEF Like, Kept

-----------------------------------------------------------------------------
(* A reading of an orderly file *)

LEMMA PrefixRun ==
    ASSUME NEW named \in BOOLEAN, NEW w \in Seq(Line(named)), NEW p \in Seq(Line(named)),
           Len(p) <= Len(w), \A i \in 1 .. Len(p) : p[i] = w[i]
    PROVE  \A n \in 0 .. Len(p) : ForwardRun(p)[n] = ForwardRun(w)[n]
  <1>1. PICK N \in Nat : N = Len(p)
    OBVIOUS
  <1>2. PICK M \in Nat : M = Len(w)
    OBVIOUS
  <1>3. PICK f : f = ForwardRun(p)
    OBVIOUS
  <1>4. PICK g : g = ForwardRun(w)
    OBVIOUS
  <1>5. PICK start : start = [state |-> Blank, request |-> None, saw |-> FALSE]
    OBVIOUS
  <1>6. \A n \in 0 .. N : f[n] = IF n = 0 THEN start ELSE ForwardLine(f[n - 1], p[n])
    BY <1>1, <1>3, <1>5, ForwardRunType
  <1>7. \A n \in 0 .. M : g[n] = IF n = 0 THEN start ELSE ForwardLine(g[n - 1], w[n])
    BY <1>2, <1>4, <1>5, ForwardRunType
  <1> DEFINE T == {n \in Nat : n <= N => f[n] = g[n]}
  <1>8. 0 \in T
    BY <1>6, <1>7
  <1>9. ASSUME NEW n \in Nat, n \in T PROVE n + 1 \in T
    <2> SUFFICES ASSUME n + 1 <= N PROVE f[n + 1] = g[n + 1]
      OBVIOUS
    <2>1. n + 1 \in 0 .. N /\ n + 1 \in 0 .. M /\ n + 1 # 0 /\ (n + 1) - 1 = n
          /\ n + 1 \in 1 .. Len(p)
      BY <1>1, <1>2
    <2>2. f[n] = g[n] /\ p[n + 1] = w[n + 1]
      BY <1>9, <2>1
    <2>3. f[n + 1] = ForwardLine(f[n], p[n + 1])
      BY <1>6, <2>1
    <2>4. g[n + 1] = ForwardLine(g[n], w[n + 1])
      BY <1>7, <2>1
    <2> QED
      BY <2>2, <2>3, <2>4
  <1>10. Nat \subseteq T
    <2> HIDE DEF T
    <2> QED
      BY <1>8, <1>9, Inductive
  <1> QED
    BY <1>1, <1>3, <1>4, <1>10

\* What Codex writes while a running total starts afresh only in new files and a file
\* that was forked is an old one.
Regular ==
    "reset" \notin Habits /\ ("fork" \in Habits => InitializedAt > 1)
Old == InitializedAt > 1

\* The count c after a reading f of the lines before it, in a file that begins with the
\* history of a thread.
Follows(f, c, named, thread) ==
    /\ c.total > 0
    /\ named /\ f.request = None => c.total # f.state.lastCumulative
    /\ named /\ Old => c.total = f.request \/ c.total = f.state.lastCumulative + c.last
    /\ ~named /\ thread = 0 => c.total >= f.state.lastCumulative

Orderly(w, named) ==
    /\ w \in Seq(Line(named))
    /\ w # <<>> => /\ w[1] \in MetaLines /\ w[1].at = 1
                   /\ w[1].thread = 1 => Metas(w) = {1}
                   /\ w[1].thread = 0 => Old
    /\ \A k \in Counts(w) : Follows(ForwardRun(w)[k - 1], w[k], named, w[1].thread)
    /\ Dated => \A i, j \in Counts(w) :
                   i <= j => w[i].at \in Times /\ w[j].at \in Times /\ w[i].at <= w[j].at

\* The session after k lines.
LastMeta(w, k, m) == m \in Metas(w) /\ m <= k /\ \A j \in Metas(w) : j <= k => j <= m
LastCount(w, k, c) == c \in Counts(w) /\ c <= k /\ \A j \in Counts(w) : j <= k => j <= c
Early(w, k) == Dated /\ \A j \in Counts(w) : j <= k => w[j].at < InitializedAt

Known(w, named, k) ==
    LET f == ForwardRun(w)[k]
    IN  /\ \E m : /\ LastMeta(w, k, m)
                  /\ f.state.thread = w[m].thread /\ f.state.startedAt = w[m].at
                  /\ f.state.baseline = ForwardRun(w)[m - 1].state.lastCumulative
        /\ \/ /\ \A j \in Counts(w) : ~(j <= k)
              /\ f.state.lastCumulative = 0 /\ ~f.saw
           \/ \E c : LastCount(w, k, c) /\ f.state.lastCumulative = w[c].total
        /\ f.request = IF w[k].meta \/ ~named THEN None ELSE w[k].total
        /\ named /\ Old => /\ f.state.baseline <= f.state.lastCumulative
                           /\ f.state.tokens = f.state.lastCumulative - f.state.baseline
        /\ Early(w, k) => f.state.increments = NoIncrements

LEMMA MetasThread ==
    ASSUME NEW w, NEW named \in BOOLEAN, Orderly(w, named), NEW m \in Metas(w)
    PROVE  w[m] \in MetaLines /\ w[m].thread \in {0, 1} /\ w[m].thread # None
  <1>1. w[m] \in MetaLines
    BY PlacesType DEF Orderly
  <1>2. w[m].thread \in {0, 1}
    BY <1>1 DEF MetaLines
  <1>3. None \notin {0, 1}
    BY ScanAssumption
  <1> QED
    BY <1>1, <1>2, <1>3

LEMMA KnownOne ==
    ASSUME NEW w, NEW named \in BOOLEAN, Orderly(w, named), w # <<>>
    PROVE  Known(w, named, 1)
  <1>1. w \in Seq(Line(named)) /\ w[1] \in MetaLines /\ Len(w) \in Nat /\ Len(w) >= 1
    BY DEF Orderly
  <1>2. w[1].meta /\ 1 \in Metas(w) /\ (\A j \in Counts(w) : ~(j <= 1)) /\ Metas(w) \subseteq Nat
    <2>1. w[1].meta
      BY <1>1 DEF MetaLines
    <2> QED
      BY <1>1, <2>1 DEF Metas, Counts
  <1>3. PICK f : f = ForwardRun(w)
    OBVIOUS
  <1>4. f[0] = [state |-> Blank, request |-> None, saw |-> FALSE]
        /\ f[1] = ForwardLine(f[0], w[1])
    <2>1. 0 \in 0 .. Len(w) /\ 1 \in 0 .. Len(w)
      BY <1>1
    <2> QED
      <3>1. PICK start : start = [state |-> Blank, request |-> None, saw |-> FALSE]
        OBVIOUS
      <3>2. \A n \in 0 .. Len(w) : f[n] = IF n = 0 THEN start ELSE ForwardLine(f[n - 1], w[n])
        BY <1>1, <1>3, <3>1, ForwardRunType
      <3>3. f[0] = start /\ f[1] = ForwardLine(f[1 - 1], w[1])
        BY <2>1, <3>2
      <3> QED
        BY <3>1, <3>3
  <1>5. PICK s : s = Blank
    OBVIOUS
  <1>6. s \in Sessions /\ s.lastCumulative = 0
    BY <1>5, BlankOpen DEF Open, Blank
  <1>7. PICK r : r = StartSession(s, w[1])
    OBVIOUS
  <1>8. f[1] = [state |-> r, request |-> None, saw |-> FALSE]
    BY <1>2, <1>4, <1>5, <1>7 DEF ForwardLine
  <1>9. r.thread = w[1].thread /\ r.startedAt = w[1].at /\ r.baseline = 0
        /\ r.lastCumulative = 0 /\ r.increments = NoIncrements /\ r.tokens = 0
    BY <1>1, <1>6, <1>7, StartType
  <1>10. LastMeta(w, 1, 1)
    BY <1>2 DEF LastMeta
  <1>11. f[1 - 1].state.lastCumulative = 0
    BY <1>4, <1>5, <1>6
  <1> QED
    BY <1>2, <1>3, <1>8, <1>9, <1>10, <1>11 DEF Known

\* What a reading knows of the session it is in.
LEMMA KnownGood ==
    ASSUME NEW w, NEW named \in BOOLEAN, Orderly(w, named), NEW k \in 1 .. Len(w),
           Known(w, named, k), NEW f, f = ForwardRun(w)[k]
    PROVE  /\ f \in ForwardStates(named) /\ f.state \in Good(named) /\ f.state \in Sessions
           /\ f.state.thread # None
  <1>1. w \in Seq(Line(named)) /\ k \in 0 .. Len(w)
    BY DEF Orderly
  <1>2. f \in ForwardStates(named)
    BY <1>1, ForwardRunType
  <1>3. f.state.thread # None
    BY MetasThread DEF Known, LastMeta
  <1> QED
    BY <1>2, <1>3 DEF ForwardStates, Open, Good

LEMMA RunStep ==
    ASSUME NEW w, NEW named \in BOOLEAN, w \in Seq(Line(named)), NEW k \in Nat, k + 1 <= Len(w),
           NEW f, f = ForwardRun(w)
    PROVE  f[k + 1] = ForwardLine(f[k], w[k + 1]) /\ w[k + 1] \in Line(named)
           /\ f[k] \in ForwardStates(named)
  <1>1. Len(w) \in Nat /\ k + 1 \in 0 .. Len(w) /\ k \in 0 .. Len(w) /\ (k + 1) - 1 = k
        /\ k + 1 # 0 /\ k + 1 \in 1 .. Len(w)
    OBVIOUS
  <1>2. PICK start : start = [state |-> Blank, request |-> None, saw |-> FALSE]
    OBVIOUS
  <1>3. \A n \in 0 .. Len(w) : f[n] = IF n = 0 THEN start ELSE ForwardLine(f[n - 1], w[n])
    BY <1>2, ForwardRunType
  <1>4. f[k + 1] = ForwardLine(f[(k + 1) - 1], w[k + 1])
    BY <1>1, <1>3
  <1>5. \A n \in 0 .. Len(w) : f[n] \in ForwardStates(named)
    BY ForwardRunType
  <1> QED
    BY <1>1, <1>4, <1>5

LEMMA KnownMeta ==
    ASSUME NEW w, NEW named \in BOOLEAN, Orderly(w, named), NEW k \in Nat \ {0}, k + 1 <= Len(w),
           Known(w, named, k), w[k + 1].meta
    PROVE  Known(w, named, k + 1)
  <1>1. w \in Seq(Line(named)) /\ Len(w) \in Nat /\ k \in 1 .. Len(w)
    BY DEF Orderly
  <1>2. PICK f : f = ForwardRun(w)
    OBVIOUS
  <1>3. f[k + 1] = ForwardLine(f[k], w[k + 1]) /\ w[k + 1] \in Line(named)
        /\ f[k] \in ForwardStates(named)
    BY <1>1, <1>2, RunStep
  <1>4. PICK s : s = f[k].state
    OBVIOUS
  <1>5. s \in Sessions /\ s.lastCumulative \in Nat
    BY <1>1, <1>2, <1>4, KnownGood, Fields
  <1>6. PICK r : r = StartSession(s, w[k + 1])
    OBVIOUS
  <1>7. f[k + 1] = [state |-> r, request |-> None, saw |-> FALSE]
    BY <1>3, <1>4, <1>6 DEF ForwardLine
  <1>8. w[k + 1] \in MetaLines
    BY <1>3 DEF Line, CountLines
  <1>9. r.thread = w[k + 1].thread /\ r.startedAt = w[k + 1].at /\ r.baseline = s.lastCumulative
        /\ r.lastCumulative = s.lastCumulative /\ r.increments = NoIncrements /\ r.tokens = 0
    BY <1>5, <1>6, <1>8, StartType
  <1>10. k + 1 \in Metas(w) /\ k + 1 \notin Counts(w) /\ (k + 1) - 1 = k
         /\ Metas(w) \subseteq Nat /\ Counts(w) \subseteq Nat
    BY <1>1 DEF Metas, Counts
  <1>11. LastMeta(w, k + 1, k + 1)
    BY <1>10 DEF LastMeta
  <1>12. \E m : /\ LastMeta(w, k + 1, m) /\ r.thread = w[m].thread /\ r.startedAt = w[m].at
                /\ r.baseline = f[m - 1].state.lastCumulative
    BY <1>4, <1>9, <1>10, <1>11
  <1>13. \A j \in Counts(w) : j <= k + 1 <=> j <= k
    BY <1>10
  <1>14. \/ (\A j \in Counts(w) : ~(j <= k + 1)) /\ r.lastCumulative = 0
         \/ \E c : LastCount(w, k + 1, c) /\ r.lastCumulative = w[c].total
    <2>1. CASE (\A j \in Counts(w) : ~(j <= k)) /\ s.lastCumulative = 0
      BY <1>9, <1>13, <2>1
    <2>2. CASE \E c : LastCount(w, k, c) /\ s.lastCumulative = w[c].total
      <3>1. PICK c : LastCount(w, k, c) /\ s.lastCumulative = w[c].total
        BY <2>2
      <3>2. LastCount(w, k + 1, c)
        BY <1>13, <3>1 DEF LastCount
      <3> QED
        BY <1>9, <3>1, <3>2
    <2> QED
      BY <1>2, <1>4, <2>1, <2>2 DEF Known
  <1> QED
    BY <1>2, <1>5, <1>7, <1>9, <1>12, <1>14 DEF Known

LEMMA EarlyTime ==
    ASSUME NEW w, NEW named \in BOOLEAN, Orderly(w, named), NEW k, Early(w, k),
           NEW c \in Counts(w), c <= k, NEW s
    PROVE  Before(w[c].at, s)
  <1>1. w[c].at \in Times /\ w[c].at < InitializedAt
    <2>1. c <= c
      BY DEF Counts
    <2> QED
      BY <2>1 DEF Early, Orderly
  <1>2. w[c].at # None
    BY <1>1, ScanAssumption DEF Times
  <1> QED
    BY <1>1, <1>2 DEF Before

LEMMA KnownCount ==
    ASSUME NEW w, NEW named \in BOOLEAN, Orderly(w, named), NEW k \in Nat \ {0}, k + 1 <= Len(w),
           Known(w, named, k), ~w[k + 1].meta, Regular
    PROVE  Known(w, named, k + 1)
  <1>1. w \in Seq(Line(named)) /\ Len(w) \in Nat /\ k \in 1 .. Len(w) /\ k + 1 \in 1 .. Len(w)
    BY DEF Orderly
  <1>2. PICK f : f = ForwardRun(w)
    OBVIOUS
  <1>3. PICK l : l = w[k + 1]
    OBVIOUS
  <1>4. f[k + 1] = ForwardLine(f[k], l) /\ l \in Line(named)
        /\ f[k] \in ForwardStates(named)
    BY <1>1, <1>2, <1>3, RunStep
  <1>5. PICK s : s = f[k].state
    OBVIOUS
  <1>6. PICK q : q = f[k].request
    OBVIOUS
  <1>7. s \in Sessions /\ s \in Good(named) /\ s.thread # None /\ s.lastCumulative \in Nat
        /\ s.tokens \in Nat /\ s.baseline \in Nat
    BY <1>1, <1>2, <1>5, KnownGood, Fields
  <1>8. l.total \in Nat /\ l.at \in Moments /\ l.last \in Nat \cup {None}
        /\ ((l.last # None) <=> named)
    BY <1>3, <1>4, CountType
  <1>9. k + 1 \in Counts(w) /\ k + 1 \notin Metas(w) /\ Counts(w) \subseteq Nat
        /\ Metas(w) \subseteq Nat /\ (k + 1) - 1 = k
    BY <1>1 DEF Counts, Metas
  <1>10. Follows(f[k], l, named, w[1].thread)
    BY <1>2, <1>3, <1>9 DEF Orderly
  <1>11. LastCount(w, k + 1, k + 1)
    BY <1>9 DEF LastCount
  <1>12. \A m : LastMeta(w, k, m) => LastMeta(w, k + 1, m)
    BY <1>9 DEF LastMeta
  <1>13. q = IF w[k].meta \/ ~named THEN None ELSE w[k].total
    BY <1>2, <1>6 DEF Known
  <1>14. Early(w, k + 1) => Early(w, k) /\ Before(l.at, s.startedAt)
    <2>1. \A j \in Counts(w) : j <= k => j <= k + 1
      BY <1>9
    <2>2. Early(w, k + 1) => Early(w, k)
      BY <2>1 DEF Early
    <2>3. k + 1 <= k + 1
      OBVIOUS
    <2> QED
      BY <1>3, <1>9, <2>2, <2>3, EarlyTime
  <1>15. Early(w, k + 1) => s.increments = NoIncrements
    BY <1>2, <1>5, <1>14 DEF Known
  <1>16. PICK m : /\ LastMeta(w, k, m) /\ s.thread = w[m].thread /\ s.startedAt = w[m].at
                  /\ s.baseline = f[m - 1].state.lastCumulative
    BY <1>2, <1>5 DEF Known
  <1>17. CASE named
    <2>1. PICK duplicate \in BOOLEAN : duplicate = (l.total = q)
      OBVIOUS
    <2>2. PICK r : r = CountRequest(s, l, duplicate)
      OBVIOUS
    <2>3. PICK d : d = IF duplicate THEN 0 ELSE l.last
      OBVIOUS
    <2>4. l.last # None /\ l.last \in Nat
      BY <1>8, <1>17
    <2>5. f[k + 1] = [state |-> r, request |-> l.total, saw |-> TRUE]
      BY <1>3, <1>4, <1>5, <1>6, <1>7, <2>1, <2>2, <2>4 DEF ForwardLine
    <2>6. /\ r \in Sessions /\ Kept(s, r) /\ r.baseline = s.baseline
          /\ r.lastCumulative = l.total /\ r.tokens = s.tokens + d
          /\ r.increments = Recorded(s, d, l.at)
      BY <1>7, <1>8, <2>2, <2>3, <2>4, RequestIs
    <2>7. Early(w, k + 1) => r.increments = NoIncrements
      BY <1>14, <1>15, <2>6 DEF Recorded
    <2>8. Old => r.baseline <= r.lastCumulative /\ r.tokens = r.lastCumulative - r.baseline
      <3> SUFFICES ASSUME Old
                   PROVE  r.baseline <= r.lastCumulative /\ r.tokens = r.lastCumulative - r.baseline
        OBVIOUS
      <3>1. s.baseline <= s.lastCumulative /\ s.tokens = s.lastCumulative - s.baseline
        BY <1>2, <1>5, <1>17 DEF Known
      <3>2. CASE l.total = q
        <4>1. ~w[k].meta /\ q = w[k].total
          BY <1>8, <1>13, <3>2, ScanAssumption
        <4>2. k \in Counts(w)
          BY <1>1, <4>1 DEF Counts
        <4>3. s.lastCumulative = w[k].total
          <5>1. PICK c : LastCount(w, k, c) /\ s.lastCumulative = w[c].total
            BY <1>2, <1>5, <1>9, <4>2 DEF Known
          <5>2. c = k
            BY <1>9, <4>2, <5>1 DEF LastCount
          <5> QED
            BY <5>1, <5>2
        <4>4. d = 0 /\ l.total = s.lastCumulative
          BY <2>1, <2>3, <3>2, <4>1, <4>3
        <4> QED
          BY <1>7, <2>6, <3>1, <4>4
      <3>3. CASE l.total # q
        <4>1. d = l.last
          BY <2>1, <2>3, <3>3
        <4>2. l.total = s.lastCumulative + l.last
          BY <1>5, <1>6, <1>10, <1>17, <3>3 DEF Follows
        <4> QED
          BY <1>7, <2>4, <2>6, <3>1, <4>1, <4>2
      <3> QED
        BY <3>2, <3>3
    <2>9. LastMeta(w, k + 1, m) /\ r.thread = w[m].thread /\ r.startedAt = w[m].at
          /\ r.baseline = f[m - 1].state.lastCumulative
      BY <1>12, <1>16, <2>6 DEF Kept
    <2> QED
      BY <1>2, <1>3, <1>11, <1>17, <2>5, <2>6, <2>7, <2>8, <2>9 DEF Known
  <1>18. CASE ~named
    <2>1. PICK r : r = CountTotal(s, l)
      OBVIOUS
    <2>2. PICK g : g = Afresh(s, l)
      OBVIOUS
    <2>3. l.last = None
      BY <1>8, <1>18
    <2>4. f[k + 1] = [f[k] EXCEPT !.state = r, !.saw = TRUE]
      BY <1>3, <1>4, <1>5, <1>7, <2>1, <2>3 DEF ForwardLine
    <2>5. f[k + 1].state = r /\ f[k + 1].request = q /\ f[k + 1].saw = TRUE
      BY <1>4, <1>6, <2>4 DEF ForwardStates
    <2>6. /\ r \in Sessions /\ Kept(s, r) /\ r.baseline = g.baseline
          /\ r.lastCumulative = l.total
          /\ r.increments = Recorded(g, Difference(s, l), l.at)
      BY <1>7, <1>8, <2>1, <2>2, TotalFields
    <2>7. /\ Kept(s, g)
          /\ l.total < s.lastCumulative => g.baseline = 0 /\ g.increments = NoIncrements
          /\ ~(l.total < s.lastCumulative) => g = s
      BY <1>7, <1>8, <2>2, AfreshIs
    <2>8. Early(w, k + 1) => r.increments = NoIncrements
      BY <1>14, <1>15, <2>6, <2>7 DEF Recorded, Kept
    <2>9. r.baseline = s.baseline
      <3>1. CASE w[1].thread = 0
        BY <1>5, <1>7, <1>8, <1>10, <1>18, <2>6, <2>7, <3>1 DEF Follows
      <3>2. CASE w[1].thread # 0
        <4>1. w # <<>> /\ w[1] \in MetaLines
          BY <1>1 DEF Orderly
        <4>2. w[1].thread = 1
          BY <3>2, <4>1 DEF MetaLines
        <4>3. m = 1
          BY <1>16, <4>1, <4>2 DEF Orderly, LastMeta
        <4>4. f[1 - 1].state.lastCumulative = 0
          <5>1. 0 \in 0 .. Len(w) /\ 1 - 1 = 0
            BY <1>1
          <5>2. f[0] = [state |-> Blank, request |-> None, saw |-> FALSE]
            BY <1>1, <1>2, <5>1, ForwardRunType
          <5> QED
            BY <5>1, <5>2 DEF Blank
        <4>5. s.baseline = 0
          BY <1>16, <4>3, <4>4
        <4> QED
          BY <2>6, <2>7, <4>5
      <3> QED
        BY <3>1, <3>2
    <2>10. LastMeta(w, k + 1, m) /\ r.thread = w[m].thread /\ r.startedAt = w[m].at
           /\ r.baseline = f[m - 1].state.lastCumulative
      BY <1>12, <1>16, <2>6, <2>9 DEF Kept
    <2>11. q = None
      BY <1>13, <1>18
    <2> QED
      BY <1>2, <1>3, <1>11, <1>18, <2>5, <2>6, <2>8, <2>10, <2>11 DEF Known
  <1> QED
    BY <1>17, <1>18

LEMMA AlwaysKnown ==
    ASSUME NEW w, NEW named \in BOOLEAN, Orderly(w, named), Regular, NEW k \in 1 .. Len(w)
    PROVE  Known(w, named, k)
  <1>1. w \in Seq(Line(named)) /\ Len(w) \in Nat
    BY DEF Orderly
  <1> DEFINE T == {n \in Nat : 1 <= n /\ n <= Len(w) => Known(w, named, n)}
  <1>2. 0 \in T
    OBVIOUS
  <1>3. ASSUME NEW n \in Nat, n \in T PROVE n + 1 \in T
    <2> SUFFICES ASSUME n + 1 <= Len(w) PROVE Known(w, named, n + 1)
      OBVIOUS
    <2>1. CASE n = 0
      <3>1. w # <<>> /\ n + 1 = 1
        BY <1>1, <2>1
      <3> QED
        BY <3>1, KnownOne
    <2>2. CASE n # 0
      <3>1. n \in Nat \ {0} /\ Known(w, named, n)
        BY <1>1, <1>3, <2>2
      <3> QED
        BY <3>1, KnownMeta, KnownCount
    <2> QED
      BY <2>1, <2>2
  <1>4. Nat \subseteq T
    <2> HIDE DEF T
    <2> QED
      BY <1>2, <1>3, Inductive
  <1> QED
    BY <1>1, <1>4

LEMMA RegularEven ==
    ASSUME Regular, NEW named \in BOOLEAN, NEW s \in Good(named) PROVE Even(s, named)
  BY DEF Regular, Steady, Good

\* The line before the first count of a file of its own session is its metadata.
LEMMA FirstCount ==
    ASSUME NEW w, NEW named \in BOOLEAN, Orderly(w, named), Regular, Old, named,
           w # <<>>, Metas(w) = {1}, NEW i \in Counts(w), \A j \in Counts(w) : i <= j
    PROVE  w[i].total = w[i].last
  <1>1. w \in Seq(Line(named)) /\ Len(w) \in Nat /\ Len(w) >= 1 /\ w[1] \in MetaLines
    <2>1. w \in Seq(Line(named)) /\ w[1] \in MetaLines
      BY DEF Orderly
    <2>2. PICK V : V = Line(named)
      OBVIOUS
    <2>3. w \in Seq(V) /\ w # <<>>
      BY <2>1, <2>2
    <2>4. Len(w) \in Nat /\ Len(w) >= 1
      BY ONLY <2>3
    <2> QED
      BY <2>1, <2>4
  <1>2. i \in 1 .. Len(w) /\ ~w[i].meta /\ i # 1
    BY <1>1 DEF Counts, MetaLines
  <1>3. PICK k \in 1 .. Len(w) : k = i - 1
    BY <1>1, <1>2
  <1>4. Counts(w) \subseteq Nat /\ \A j \in Counts(w) : ~(j <= k)
    BY <1>1, <1>2, <1>3 DEF Counts
  <1>5. Known(w, named, k)
    BY AlwaysKnown
  <1>6. PICK f : f = ForwardRun(w)[k]
    OBVIOUS
  <1>7. f.state.lastCumulative = 0
    BY <1>4, <1>5, <1>6 DEF Known, LastCount
  <1>8. w[k].meta
    <2>1. k \in Counts(w) => k <= k
      BY <1>4
    <2> QED
      BY <1>1, <1>4, <2>1 DEF Counts
  <1>9. f.request = None
    BY <1>5, <1>6, <1>8 DEF Known
  <1>10. Follows(f, w[i], named, w[1].thread)
    BY <1>3, <1>6 DEF Orderly
  <1>11. w[i].total \in Nat /\ w[i].last \in Nat
    BY <1>1, PlacesType
  <1>12. w[i].total # None
    BY <1>11, ScanAssumption
  <1> QED
    BY <1>7, <1>9, <1>10, <1>11, <1>12 DEF Follows

\* A session's baseline is the total of the last count before its metadata.
LEMMA BaselineIs ==
    ASSUME NEW w, NEW named \in BOOLEAN, Orderly(w, named), Regular, NEW m \in Metas(w),
           NEW before, before = {i \in Counts(w) : i < m}
    PROVE  ForwardRun(w)[m - 1].state.lastCumulative =
             IF before = {} THEN 0 ELSE w[Max(before)].total
  <1>1. w \in Seq(Line(named)) /\ Len(w) \in Nat /\ m \in 1 .. Len(w) /\ w # <<>>
        /\ Counts(w) \subseteq 1 .. Len(w)
    BY DEF Orderly, Metas, Counts
  <1>2. CASE m = 1
    <2>1. before = {}
      BY <1>1, <1>2
    <2>2. ForwardRun(w)[0] = [state |-> Blank, request |-> None, saw |-> FALSE]
      <3>1. 0 \in 0 .. Len(w)
        BY <1>1
      <3> QED
        BY <1>1, <3>1, ForwardRunType
    <2>3. m - 1 = 0
      BY <1>2
    <2> QED
      BY <2>1, <2>2, <2>3 DEF Blank
  <1>3. CASE m # 1
    <2>1. PICK k \in 1 .. Len(w) : k = m - 1
      BY <1>1, <1>3
    <2>2. Known(w, named, k)
      BY AlwaysKnown
    <2>3. \A j \in Counts(w) : j <= k <=> j < m
      BY <1>1, <2>1
    <2>4. CASE \A j \in Counts(w) : ~(j <= k)
      <3>1. before = {}
        BY <2>3, <2>4
      <3>2. ForwardRun(w)[k].state.lastCumulative = 0
        BY <2>2, <2>4 DEF Known, LastCount
      <3> QED
        BY <2>1, <3>1, <3>2
    <2>5. CASE ~\A j \in Counts(w) : ~(j <= k)
      <3>1. PICK c : LastCount(w, k, c) /\ ForwardRun(w)[k].state.lastCumulative = w[c].total
        BY <2>2, <2>5 DEF Known
      <3>2. c \in before /\ \A j \in before : j <= c
        BY <2>3, <3>1 DEF LastCount
      <3>3. before \in SUBSET (0 .. Len(w)) /\ before # {}
        BY <1>1, <3>2
      <3>4. Max(before) \in before /\ \A j \in before : j <= Max(before)
        BY <1>1, <3>3, MaxIs
      <3>5. Max(before) = c
        <4>1. c \in Nat /\ Max(before) \in Nat /\ c <= Max(before) /\ Max(before) <= c
          BY <1>1, <3>2, <3>3, <3>4
        <4> QED
          BY <4>1
      <3> QED
        BY <2>1, <3>1, <3>3, <3>5
    <2> QED
      BY <2>4, <2>5
  <1> QED
    BY <1>2, <1>3

\* The reading from the end finds what a reading from the beginning finds.
LEMMA BackwardLike ==
    ASSUME NEW w, NEW named \in BOOLEAN, Orderly(w, named), Regular, Old, w # <<>>,
           Counts(w) # {}, NEW own \in BOOLEAN, own = (w[1].thread = 1),
           Dated /\ Backward(w, own) # Forward(w) => Early(w, Len(w)),
           NEW s, s = ForwardRun(w)[Len(w)].state
    PROVE  Like(Backward(w, own), s) /\ s.lastCumulative > 0
  <1>1. w \in Seq(Line(named)) /\ w[1] \in MetaLines /\ w[1].meta /\ Len(w) \in Nat
        /\ Len(w) >= 1
    <2>1. w \in Seq(Line(named)) /\ w[1] \in MetaLines
      BY DEF Orderly
    <2>2. w[1].meta
      BY <2>1 DEF MetaLines
    <2> QED
      BY <2>1, <2>2
  <1>2. PICK N \in 1 .. Len(w) : N = Len(w)
    BY <1>1
  <1>3. Known(w, named, N)
    BY AlwaysKnown
  <1>4. PICK f : f = ForwardRun(w)[N]
    OBVIOUS
  <1>5. s = f.state /\ s \in Good(named) /\ s \in Sessions /\ s.thread # None
    BY <1>2, <1>3, <1>4, KnownGood
  <1>6. Counts(w) \in SUBSET (0 .. N) /\ Metas(w) \in SUBSET (0 .. N) /\ 1 \in Metas(w)
        /\ N \in Nat /\ \A j \in Counts(w) \cup Metas(w) : j <= N
    BY <1>1, <1>2, PlacesType DEF Metas
  <1>7. PICK e \in Counts(w) : e = Max(Counts(w)) /\ \A k \in Counts(w) : k <= e
    BY <1>6, MaxIs
  <1>8. s.lastCumulative = w[e].total
    <2>1. e <= N
      BY <1>6
    <2>2. PICK c : LastCount(w, N, c) /\ s.lastCumulative = w[c].total
      BY <1>3, <1>4, <1>5, <2>1 DEF Known
    <2>3. c = e
      <3>1. c \in Nat /\ e \in Nat /\ c <= e /\ e <= c
        BY <1>6, <1>7, <2>1, <2>2 DEF LastCount
      <3> QED
        BY <3>1
    <2> QED
      BY <2>2, <2>3
  <1>9. PICK final : final = w[e]
    OBVIOUS
  <1>10. final.total \in Nat /\ final.total > 0 /\ s.lastCumulative = final.total
         /\ final.last \in Nat \cup {None} /\ ((final.last # None) <=> named)
         /\ final.at \in Moments
    BY <1>1, <1>7, <1>8, <1>9, PlacesType DEF Orderly, Follows
  <1>11. PICK m : /\ LastMeta(w, N, m) /\ s.thread = w[m].thread /\ s.startedAt = w[m].at
                  /\ s.baseline = ForwardRun(w)[m - 1].state.lastCumulative
    BY <1>3, <1>4, <1>5 DEF Known
  <1>12. m \in Metas(w) /\ m = Max(Metas(w))
    <2>1. Max(Metas(w)) \in Metas(w) /\ \A k \in Metas(w) : k <= Max(Metas(w))
      BY <1>6, MaxIs
    <2>2. m \in Nat /\ Max(Metas(w)) \in Nat /\ m <= Max(Metas(w)) /\ Max(Metas(w)) <= m
      BY <1>6, <1>11, <2>1 DEF LastMeta
    <2> QED
      BY <1>11, <2>2 DEF LastMeta
  <1>13. own => Metas(w) = {1} /\ m = 1 /\ Min(Metas(w)) = m
    <2> SUFFICES ASSUME own PROVE Metas(w) = {1} /\ m = 1 /\ Min(Metas(w)) = m
      OBVIOUS
    <2>1. Metas(w) = {1}
      BY DEF Orderly
    <2>2. Metas(w) \in SUBSET Nat /\ Metas(w) # {}
      BY <2>1
    <2>3. Min(Metas(w)) \in Metas(w)
      BY <2>2, MinIs
    <2> QED
      BY <1>12, <2>1, <2>3
  <1>14. PICK meta : meta = w[m]
    OBVIOUS
  <1>15. PICK before : before = {i \in Counts(w) : i < m}
    OBVIOUS
  <1>16. PICK baseline : baseline = IF own \/ before = {} THEN 0 ELSE w[Max(before)].total
    OBVIOUS
  <1>17. baseline = s.baseline /\ (own => baseline = 0)
    <2>1. s.baseline = IF before = {} THEN 0 ELSE w[Max(before)].total
      BY <1>11, <1>12, <1>15, BaselineIs
    <2>2. own => before = {}
      <3>1. \A j \in Counts(w) : ~(j < 1)
        BY DEF Counts
      <3> QED
        BY <1>13, <1>15, <3>1
    <2> QED
      BY <1>16, <2>1, <2>2
  <1>18. PICK first : first = IF own THEN w[Min(Counts(w))] ELSE None
    OBVIOUS
  <1>19. own => /\ first.total \in Nat /\ first.last \in Nat \cup {None}
                /\ ((first.last # None) <=> named)
                /\ named => first.total = first.last
    <2> SUFFICES ASSUME own
                 PROVE  /\ first.total \in Nat /\ first.last \in Nat \cup {None}
                        /\ ((first.last # None) <=> named)
                        /\ named => first.total = first.last
      OBVIOUS
    <2>1. Counts(w) \in SUBSET Nat
      BY <1>6
    <2>2. Min(Counts(w)) \in Counts(w) /\ \A k \in Counts(w) : Min(Counts(w)) <= k
      BY <2>1, MinIs
    <2>3. named => w[Min(Counts(w))].total = w[Min(Counts(w))].last
      BY <1>13, <2>2, FirstCount
    <2> QED
      BY <1>1, <1>18, <2>2, <2>3, PlacesType
  <1>20. s.baseline \in Nat /\ s.tokens \in Nat /\ s.historical \in Nat
         /\ s.baseline <= s.lastCumulative /\ s.tokens = s.lastCumulative - s.baseline
    <2>1. Even(s, named)
      BY <1>5, RegularEven
    <2>2. CASE named
      BY <1>3, <1>4, <1>5, <2>2, Fields DEF Known
    <2>3. CASE ~named
      BY <1>5, <2>1, <2>3, Fields DEF Even
    <2> QED
      BY <2>2, <2>3
  <1>21. CASE Backward(w, own) = Forward(w)
    <2>2. Forward(w) = s
      <3>1. PICK r : r = ForwardRun(w)[Len(w)]
        OBVIOUS
      <3>2. r.state = s /\ s.lastCumulative # 0
        BY <1>10, <3>1
      <3> QED
        BY <1>5, <3>1, <3>2, ForwardRunIs
    <2> QED
      BY <1>10, <1>21, <2>2 DEF Like
  <1>22. CASE Backward(w, own) # Forward(w)
    <2>0. ~(own /\ first.last # None /\ final.last # None /\ final.total < first.total)
      BY <1>6, <1>7, <1>9, <1>18, <1>22 DEF Backward
    <2>1. PICK total : total = HistoricalTotal(first, final, baseline)
      OBVIOUS
    <2>2. total = s.tokens
      <3>1. CASE first # None /\ first.last # None /\ final.last # None
                 /\ final.total >= first.total
        <4>1. own /\ named
          BY <1>10, <1>18, <3>1
        <4>2. total = final.total - first.total + first.last
          BY <2>1, <3>1 DEF HistoricalTotal
        <4>3. first.last = first.total /\ first.total \in Nat
          BY <1>19, <4>1
        <4> QED
          BY <1>10, <1>17, <1>20, <4>1, <4>2, <4>3
      <3>2. CASE ~(first # None /\ first.last # None /\ final.last # None
                   /\ final.total >= first.total)
        <4>1. total = subtractInherited(final.total, baseline)
          BY <2>1, <3>2 DEF HistoricalTotal
        <4> QED
          BY <1>10, <1>17, <1>20, <4>1 DEF subtractInherited
      <3> QED
        BY <3>1, <3>2
    <2>3. Dated => s.increments = NoIncrements /\ s.historical = s.tokens
      <3> SUFFICES ASSUME Dated PROVE s.increments = NoIncrements /\ s.historical = s.tokens
        OBVIOUS
      <3>1. s.increments = NoIncrements
        BY <1>2, <1>3, <1>4, <1>5, <1>22 DEF Known
      <3>2. Allocated(s) = s.tokens
        BY <1>5, RegularEven DEF Even
      <3>3. Allocated(s) = s.historical + 0
        BY <3>1, AllocatedIs, SumZero
      <3> QED
        BY <1>20, <3>1, <3>2, <3>3
    <2>4. PICK at : at = IF final.at = None THEN meta.at ELSE final.at
      OBVIOUS
    <2>5. PICK r : r = [thread |-> meta.thread, startedAt |-> meta.at, observedAt |-> at,
                        baseline |-> baseline, lastCumulative |-> final.total,
                        historical |-> total, increments |-> NoIncrements,
                        tokens |-> total, tracked |-> FALSE]
      OBVIOUS
    <2>6. Backward(w, own) = r
      <3>1. meta = w[IF own THEN Min(Metas(w)) ELSE Max(Metas(w))]
        BY <1>12, <1>13, <1>14
      <3>2. before = {i \in Counts(w) : i < Max(Metas(w))}
        BY <1>12, <1>15
      <3>3. Metas(w) # {}
        BY <1>6
      <3> QED
        BY <1>7, <1>9, <1>16, <1>18, <2>0, <2>1, <2>4, <2>5, <3>1, <3>2, <3>3 DEF Backward
    <2>7. r.thread = s.thread /\ r.startedAt = s.startedAt /\ r.baseline = s.baseline
          /\ r.lastCumulative = s.lastCumulative /\ r.tokens = s.tokens
          /\ r.historical = total /\ r.increments = NoIncrements
      BY <1>10, <1>11, <1>14, <1>17, <2>2, <2>5
    <2> QED
      BY <1>10, <2>2, <2>3, <2>6, <2>7 DEF Like
  <1> QED
    BY <1>21, <1>22

LEMMA OrderlyPrefix ==
    ASSUME NEW w, NEW named \in BOOLEAN, Orderly(w, named), NEW p \in Seq(Line(named)),
           Len(p) <= Len(w), \A i \in 1 .. Len(p) : p[i] = w[i]
    PROVE  /\ Orderly(p, named)
           /\ \A n \in 0 .. Len(p) : ForwardRun(p)[n] = ForwardRun(w)[n]
  <1>1. w \in Seq(Line(named)) /\ Len(w) \in Nat /\ Len(p) \in Nat
    BY DEF Orderly
  <1>2. \A n \in 0 .. Len(p) : ForwardRun(p)[n] = ForwardRun(w)[n]
    BY <1>1, PrefixRun
  <1>3. \A i \in Counts(p) : i \in Counts(w) /\ p[i] = w[i] /\ i - 1 \in 0 .. Len(p)
    BY <1>1 DEF Counts
  <1>4. \A i \in Metas(p) : i \in Metas(w) /\ p[i] = w[i]
    BY <1>1 DEF Metas
  <1>5. ASSUME p # <<>> PROVE /\ p[1] \in MetaLines /\ p[1].at = 1 /\ p[1] = w[1]
                              /\ p[1].thread = 1 => Metas(p) = {1}
                              /\ p[1].thread = 0 => Old
    <2>1. Len(p) >= 1 /\ w # <<>> /\ p[1] = w[1]
      BY <1>1, <1>5
    <2>2. /\ p[1] \in MetaLines /\ p[1].at = 1 /\ (p[1].thread = 0 => Old)
          /\ p[1].thread = 1 => Metas(w) = {1}
      BY <2>1 DEF Orderly
    <2>3. p[1].meta
      BY <2>2 DEF MetaLines
    <2>4. 1 \in Metas(p)
      BY <1>1, <2>1, <2>3 DEF Metas
    <2>5. p[1].thread = 1 => Metas(p) = {1}
      BY <1>4, <2>2, <2>4
    <2> QED
      BY <2>1, <2>2, <2>5
  <1>6. ASSUME NEW k \in Counts(p)
        PROVE  Follows(ForwardRun(p)[k - 1], p[k], named, p[1].thread)
    <2>1. Follows(ForwardRun(w)[k - 1], w[k], named, w[1].thread)
      BY <1>3 DEF Orderly
    <2>2. p # <<>>
      BY DEF Counts
    <2> QED
      BY <1>2, <1>3, <1>5, <2>1, <2>2
  <1>7. Dated => \A i, j \in Counts(p) :
                    i <= j => p[i].at \in Times /\ p[j].at \in Times /\ p[i].at <= p[j].at
    BY <1>3 DEF Orderly
  <1> QED
    BY <1>2, <1>5, <1>6, <1>7 DEF Orderly

LEMMA PositiveIs ==
    ASSUME NEW w, NEW named \in BOOLEAN, Orderly(w, named), Regular, NEW k \in 1 .. Len(w),
           NEW f, f = ForwardRun(w)[k]
    PROVE  /\ f.state.lastCumulative > 0 <=> \E j \in Counts(w) : j <= k
           /\ f.saw => f.state.lastCumulative > 0
           /\ f.state.thread # None
  <1>1. w \in Seq(Line(named))
    BY DEF Orderly
  <1>2. Known(w, named, k)
    BY AlwaysKnown
  <1>3. f.state.thread # None
    BY <1>2, KnownGood
  <1>4. \A c \in Counts(w) : w[c].total \in Nat /\ w[c].total > 0
    BY <1>1, PlacesType DEF Orderly, Follows
  <1>5. \/ (\A j \in Counts(w) : ~(j <= k)) /\ f.state.lastCumulative = 0 /\ ~f.saw
        \/ \E c : LastCount(w, k, c) /\ f.state.lastCumulative = w[c].total
    BY <1>2 DEF Known
  <1>6. CASE (\A j \in Counts(w) : ~(j <= k)) /\ f.state.lastCumulative = 0 /\ ~f.saw
    BY <1>3, <1>6
  <1>7. CASE \E c : LastCount(w, k, c) /\ f.state.lastCumulative = w[c].total
    BY <1>3, <1>4, <1>7 DEF LastCount
  <1> QED
    BY <1>5, <1>6, <1>7

\* The session of a reading that ends after k lines.
Reaches(s, w, k) == /\ k \in 1 .. Len(w) /\ Like(s, ForwardRun(w)[k].state)
                    /\ ForwardRun(w)[k].state.lastCumulative > 0

LEMMA ForwardReaches ==
    ASSUME NEW w, NEW named \in BOOLEAN, Orderly(w, named), Regular,
           Forward(w) # None
    PROVE  Reaches(Forward(w), w, Len(w)) /\ Forward(w) = ForwardRun(w)[Len(w)].state
  <1>1. w \in Seq(Line(named)) /\ Len(w) \in Nat
    BY DEF Orderly
  <1>2. PICK r : r = ForwardRun(w)[Len(w)]
    OBVIOUS
  <1>3. r.state.thread # None /\ (r.saw \/ r.state.lastCumulative # 0) /\ Forward(w) = r.state
    BY <1>2, ForwardRunIs
  <1>4. Len(w) # 0
    <2> SUFFICES ASSUME Len(w) = 0 PROVE FALSE
      OBVIOUS
    <2>1. Len(w) \in 0 .. Len(w)
      BY <1>1
    <2>2. r = [state |-> Blank, request |-> None, saw |-> FALSE]
      BY <1>1, <1>2, <2>1, ForwardRunType
    <2> QED
      BY <1>3, <2>2 DEF Blank
  <1>5. Len(w) \in 1 .. Len(w)
    BY <1>1, <1>4
  <1>6. r.state.lastCumulative \in Nat
    <2>1. Known(w, named, Len(w))
      BY <1>5, AlwaysKnown
    <2> QED
      BY <1>2, <1>5, <2>1, KnownGood, Fields
  <1>7. r.state.lastCumulative > 0
    <2>1. r.saw => r.state.lastCumulative > 0
      BY <1>2, <1>5, PositiveIs
    <2> QED
      BY <1>3, <1>6, <2>1
  <1> QED
    BY <1>2, <1>3, <1>5, <1>7 DEF Reaches, Like

LEMMA ReachesPrefix ==
    ASSUME NEW w, NEW named \in BOOLEAN, Orderly(w, named), NEW p \in Seq(Line(named)),
           Len(p) <= Len(w), \A i \in 1 .. Len(p) : p[i] = w[i], NEW s, NEW k, Reaches(s, p, k)
    PROVE  Reaches(s, w, k)
  <1>1. Len(w) \in Nat /\ Len(p) \in Nat
    BY DEF Orderly
  <1>2. k \in 1 .. Len(w) /\ k \in 0 .. Len(p)
    BY <1>1 DEF Reaches
  <1>3. ForwardRun(p)[k] = ForwardRun(w)[k]
    BY <1>2, OrderlyPrefix
  <1> QED
    BY <1>2, <1>3 DEF Reaches

LEMMA BackwardAt ==
    ASSUME NEW w, NEW own \in BOOLEAN, Backward(w, own) # None, Backward(w, own) # Forward(w),
           NEW final, final = w[Max(Counts(w))], final.at # None
    PROVE  Backward(w, own).observedAt = final.at
  BY DEF Backward

LEMMA EarlyIs ==
    ASSUME NEW w, NEW named \in BOOLEAN, Orderly(w, named), Dated, Counts(w) # {}, NEW at,
           \A final : final = w[Max(Counts(w))] /\ final.at # None => at = final.at,
           ~(at >= InitializedAt)
    PROVE  Early(w, Len(w))
  <1>1. w \in Seq(Line(named))
    BY DEF Orderly
  <1>2. Counts(w) \in SUBSET (0 .. Len(w)) /\ Len(w) \in Nat
    BY <1>1, PlacesType
  <1>3. PICK e \in Counts(w) : e = Max(Counts(w)) /\ \A j \in Counts(w) : j <= e
    BY <1>2, MaxIs
  <1>4. \A j \in Counts(w) : w[j].at \in Times /\ w[e].at \in Times /\ w[j].at <= w[e].at
    BY <1>3 DEF Orderly
  <1>5. Times \subseteq Nat /\ None \notin Times /\ InitializedAt \in Nat
    BY ScanAssumption DEF Times
  <1>6. w[e].at \in Times /\ w[e].at # None
    BY <1>3, <1>4, <1>5
  <1>7. at = w[e].at
    BY <1>3, <1>6
  <1>8. ASSUME NEW j \in Counts(w) PROVE w[j].at < InitializedAt
    <2>1. PICK n \in Nat : n = w[e].at
      BY <1>5, <1>6
    <2>2. PICK k \in Nat : k = w[j].at
      BY <1>4, <1>5
    <2>3. PICK built \in Nat : built = InitializedAt
      BY <1>5
    <2>4. k <= n /\ ~(n >= built)
      BY <1>4, <1>7, <2>1, <2>2, <2>3
    <2>5. k < built
      BY ONLY <2>4, k \in Nat, n \in Nat, built \in Nat
    <2> QED
      BY <2>2, <2>3, <2>5
  <1> QED
    BY <1>8 DEF Early

\* A record from nothing counts like a reading from the beginning.
LEMMA BootstrapLike ==
    ASSUME NEW named \in BOOLEAN, NEW w, Orderly(w, named), Regular,
           NEW lines \in Seq(Line(named)), NEW begun, NEW tracked,
           NEW all \in Seq(Line(named)),
           all = (IF begun = None THEN lines ELSE Append(lines, begun)),
           Len(all) <= Len(w), \A i \in 1 .. Len(all) : all[i] = w[i],
           NEW b, b = Bootstrap(lines, begun, tracked), b # None
    PROVE  Reaches(b, w, Len(lines)) \/ Reaches(b, w, Len(all))
  <1>1. Len(w) \in Nat /\ Len(all) \in Nat /\ Len(lines) \in Nat /\ Orderly(all, named)
    <2>1. w \in Seq(Line(named))
      BY DEF Orderly
    <2>2. Orderly(all, named)
      BY OrderlyPrefix
    <2> QED
      BY <2>1, <2>2
  <1>2. Len(lines) <= Len(all) /\ \A i \in 1 .. Len(lines) : lines[i] = all[i]
    <2>1. CASE begun = None
      BY <1>1, <2>1
    <2>2. CASE begun # None
      <3>1. all = Append(lines, begun)
        BY <2>2
      <3>2. Len(all) = Len(lines) + 1
        BY <3>1
      <3>3. \A i \in 1 .. Len(lines) : all[i] = lines[i]
        BY <3>1
      <3> QED
        BY <1>1, <3>2, <3>3
    <2> QED
      BY <2>1, <2>2
  <1>3. Len(lines) <= Len(w) /\ \A i \in 1 .. Len(lines) : lines[i] = w[i]
    BY <1>1, <1>2
  <1>4. Orderly(lines, named)
    BY <1>3, OrderlyPrefix
  <1>5. PICK head : head = HeadMeta(all)
    OBVIOUS
  <1>6. PICK own \in BOOLEAN : own = (head # None /\ head.thread = 1)
    OBVIOUS
  <1>7. PICK historical : historical = Backward(all, own)
    OBVIOUS
  <1>8. CASE b = Forward(lines)
    <2>1. Reaches(b, lines, Len(lines))
      BY <1>4, <1>8, ForwardReaches
    <2> QED
      BY <1>3, <2>1, ReachesPrefix
  <1>9. CASE b = historical /\ ~(head # None /\ head.at >= InitializedAt)
             /\ ~(historical.observedAt >= InitializedAt)
    <2>1. Counts(all) # {} /\ Metas(all) # {}
      BY <1>7, <1>9 DEF Backward
    <2>2. all # <<>>
      BY <2>1 DEF Counts
    <2>3. all[1] \in MetaLines /\ all[1].at = 1 /\ Len(all) >= 1
      BY <1>1, <2>2 DEF Orderly
    <2>4. all[1].meta /\ all[1] # None
      BY <2>3, ScanAssumption DEF MetaLines, Times
    <2>5. Min(Metas(all)) = 1
      <3>1. 1 \in Metas(all) /\ \A i \in Metas(all) : 1 <= i /\ i \in Nat
        BY <1>1, <2>3, <2>4 DEF Metas
      <3>2. Metas(all) \in SUBSET Nat
        BY <3>1
      <3>3. Min(Metas(all)) \in Metas(all) /\ \A i \in Metas(all) : Min(Metas(all)) <= i
        BY <3>1, <3>2, MinIs
      <3>4. Min(Metas(all)) \in Nat /\ Min(Metas(all)) <= 1 /\ 1 <= Min(Metas(all))
        BY <3>1, <3>3
      <3> QED
        BY <3>4
    <2>6. head = all[1] /\ own = (all[1].thread = 1)
      BY <1>5, <1>6, <2>1, <2>4, <2>5 DEF HeadMeta
    <2>7. Old
      BY <1>9, <2>3, <2>4, <2>6, ScanAssumption DEF Old
    <2>8. ASSUME Dated, historical # Forward(all) PROVE Early(all, Len(all))
      <3>1. \A final : final = all[Max(Counts(all))] /\ final.at # None =>
                         historical.observedAt = final.at
        BY <1>7, <1>9, <2>8, BackwardAt
      <3> QED
        BY <1>1, <1>9, <2>1, <2>8, <3>1, EarlyIs
    <2>9. PICK s : s = ForwardRun(all)[Len(all)].state
      OBVIOUS
    <2>10. Like(Backward(all, own), s) /\ s.lastCumulative > 0
      BY <1>1, <1>7, <2>1, <2>2, <2>6, <2>7, <2>8, <2>9, BackwardLike
    <2>11. Reaches(b, all, Len(all))
      BY <1>1, <1>7, <1>9, <2>3, <2>9, <2>10 DEF Reaches
    <2> QED
      BY <2>11, ReachesPrefix
  <1>10. \/ b = Forward(lines)
         \/ /\ b = historical /\ ~(head # None /\ head.at >= InitializedAt)
            /\ ~(historical.observedAt >= InitializedAt)
    BY <1>5, <1>6, <1>7 DEF Bootstrap
  <1> QED
    BY <1>8, <1>9, <1>10

-----------------------------------------------------------------------------
(* Reading on *)

\* A reading that goes on is abreast of one from the beginning.
Abreast(q, f) == Like(q.state, f.state) /\ (q.force => f.request = None)

LEMMA AppendLike ==
    ASSUME NEW w, NEW named \in BOOLEAN, Orderly(w, named), Regular,
           NEW k \in Nat \ {0}, k + 1 <= Len(w), NEW q \in AppendStates(named),
           Abreast(q, ForwardRun(w)[k])
    PROVE  Abreast(AppendLine(q, w[k + 1]), ForwardRun(w)[k + 1])
  <1>1. w \in Seq(Line(named)) /\ Len(w) \in Nat /\ k \in 1 .. Len(w) /\ k + 1 \in 1 .. Len(w)
    BY DEF Orderly
  <1>2. PICK l : l = w[k + 1]
    OBVIOUS
  <1>3. PICK f : f = ForwardRun(w)[k]
    OBVIOUS
  <1>4. PICK g : g = ForwardRun(w)[k + 1]
    OBVIOUS
  <1>5. g = ForwardLine(f, l) /\ l \in Line(named) /\ f \in ForwardStates(named)
    BY <1>1, <1>2, <1>3, <1>4, RunStep
  <1>6. Known(w, named, k)
    BY <1>1, AlwaysKnown
  <1>7. PICK s : s = f.state
    OBVIOUS
  <1>8. s \in Sessions /\ s.thread # None
    BY <1>1, <1>3, <1>6, <1>7, KnownGood
  <1>9. PICK t : t = q.state
    OBVIOUS
  <1>10. t \in Sessions /\ Like(t, s) /\ (q.force => f.request = None) /\ q.force \in BOOLEAN
    BY <1>3, <1>7, <1>9 DEF Abreast, AppendStates, Good
  <1>11. CASE l.meta
    <2>1. l \in MetaLines
      BY <1>5, <1>11 DEF Line, CountLines
    <2>2. PICK a, b : a = StartSession(t, l) /\ b = StartSession(s, l)
      OBVIOUS
    <2>3. Like(a, b)
      BY <1>8, <1>10, <2>1, <2>2, LikeStart
    <2>4. AppendLine(q, l) = [state |-> a, force |-> TRUE]
      BY <1>9, <1>11, <2>2 DEF AppendLine
    <2>5. g = [state |-> b, request |-> None, saw |-> FALSE]
      BY <1>5, <1>7, <1>11, <2>2 DEF ForwardLine
    <2> QED
      BY <1>2, <1>4, <2>3, <2>4, <2>5 DEF Abreast
  <1>12. CASE ~l.meta
    <2>1. l.total \in Nat /\ l.at \in Moments /\ l.last \in Nat \cup {None}
          /\ ((l.last # None) <=> named)
      BY <1>5, <1>12, CountType
    <2>2. k + 1 \in Counts(w) /\ (k + 1) - 1 = k
      BY <1>1, <1>2, <1>12 DEF Counts
    <2>3. Follows(f, l, named, w[1].thread)
      BY <1>2, <1>3, <2>2 DEF Orderly
    <2>4. CASE named
      <3>1. PICK again \in BOOLEAN : again = (l.total = f.request)
        OBVIOUS
      <3>2. again = (~q.force /\ l.total = t.lastCumulative)
        <4>1. t.lastCumulative = s.lastCumulative
          BY <1>10 DEF Like
        <4>2. CASE f.request = None
          <5>1. l.total # f.request
            BY <2>1, <4>2, ScanAssumption
          <5>2. l.total # s.lastCumulative
            BY <1>7, <2>3, <2>4, <4>2 DEF Follows
          <5> QED
            BY <3>1, <4>1, <5>1, <5>2
        <4>3. CASE f.request # None
          <5>1. ~q.force /\ ~w[k].meta /\ f.request = w[k].total
            BY <1>3, <1>6, <1>10, <4>3 DEF Known
          <5>2. k \in Counts(w)
            BY <1>1, <5>1 DEF Counts
          <5>3. s.lastCumulative = w[k].total
            <6>1. k <= k
              OBVIOUS
            <6>2. PICK c : LastCount(w, k, c) /\ s.lastCumulative = w[c].total
              BY <1>3, <1>6, <1>7, <5>2, <6>1 DEF Known
            <6>3. c \in Nat /\ c <= k /\ k <= c
              BY <5>2, <6>1, <6>2 DEF LastCount, Counts
            <6>4. c = k
              BY <6>3
            <6> QED
              BY <6>2, <6>4
          <5> QED
            BY <3>1, <4>1, <5>1, <5>3
        <4> QED
          BY <4>2, <4>3
      <3>3. l.last # None /\ l.last \in Nat
        BY <2>1, <2>4
      <3>4. PICK a, b : a = CountRequest(t, l, again) /\ b = CountRequest(s, l, again)
        OBVIOUS
      <3>5. Like(a, b)
        BY <1>8, <1>10, <2>1, <3>3, <3>4, LikeRequest
      <3>6. AppendLine(q, l) = [state |-> a, force |-> FALSE]
        BY <1>9, <1>12, <3>2, <3>3, <3>4 DEF AppendLine
      <3>7. g = [state |-> b, request |-> l.total, saw |-> TRUE]
        BY <1>5, <1>7, <1>8, <1>12, <3>1, <3>3, <3>4 DEF ForwardLine
      <3> QED
        BY <1>2, <1>4, <3>5, <3>6, <3>7 DEF Abreast
    <2>5. CASE ~named
      <3>1. l.last = None
        BY <2>1, <2>5
      <3>2. PICK a, b : a = CountTotal(t, l) /\ b = CountTotal(s, l)
        OBVIOUS
      <3>3. Like(a, b)
        BY <1>8, <1>10, <2>1, <3>2, LikeTotal
      <3>4. AppendLine(q, l) = [q EXCEPT !.state = a]
        BY <1>9, <1>12, <3>1, <3>2 DEF AppendLine
      <3>5. g = [f EXCEPT !.state = b, !.saw = TRUE]
        BY <1>5, <1>7, <1>8, <1>12, <3>1, <3>2 DEF ForwardLine
      <3>6. AppendLine(q, l).state = a /\ AppendLine(q, l).force = q.force
        BY <3>4 DEF AppendStates
      <3>7. g.state = b /\ g.request = f.request
        BY <1>5, <3>5 DEF ForwardStates
      <3> QED
        BY <1>2, <1>4, <1>10, <3>3, <3>6, <3>7 DEF Abreast
    <2> QED
      BY <2>4, <2>5
  <1> QED
    BY <1>11, <1>12

\* A line that was read already, as the one that the reading from the end looks at.
LEMMA AppendAgain ==
    ASSUME NEW w, NEW named \in BOOLEAN, Orderly(w, named), Regular, NEW k \in 1 .. Len(w),
           NEW q \in AppendStates(named), ~q.force, Abreast(q, ForwardRun(w)[k])
    PROVE  Abreast(AppendLine(q, w[k]), ForwardRun(w)[k])
  <1>1. w \in Seq(Line(named)) /\ Len(w) \in Nat
    BY DEF Orderly
  <1>2. PICK l : l = w[k]
    OBVIOUS
  <1>3. l \in Line(named)
    BY <1>1, <1>2
  <1>4. PICK f : f = ForwardRun(w)[k]
    OBVIOUS
  <1>5. Known(w, named, k)
    BY AlwaysKnown
  <1>6. PICK s : s = f.state
    OBVIOUS
  <1>7. s \in Sessions /\ s \in Good(named)
    BY <1>4, <1>5, <1>6, KnownGood
  <1>8. PICK t : t = q.state
    OBVIOUS
  <1>9. t \in Sessions /\ t \in Good(named) /\ Like(t, s)
    BY <1>4, <1>6, <1>8 DEF Abreast, AppendStates, Good
  <1>10. CASE l.meta
    <2>1. l \in MetaLines
      BY <1>3, <1>10 DEF Line, CountLines
    <2>2. PICK p \in Nat : p = k - 1
      OBVIOUS
    <2>3. f = ForwardLine(ForwardRun(w)[p], l) /\ ForwardRun(w)[p] \in ForwardStates(named)
      <3>1. p + 1 = k /\ p + 1 <= Len(w)
        BY <1>1, <2>2
      <3> QED
        BY <1>1, <1>2, <1>4, <3>1, RunStep
    <2>4. PICK before : before = ForwardRun(w)[p].state
      OBVIOUS
    <2>5. before \in Sessions
      BY <2>3, <2>4 DEF ForwardStates, Open
    <2>6. f = [state |-> StartSession(before, l), request |-> None, saw |-> FALSE]
      BY <1>10, <2>3, <2>4 DEF ForwardLine
    <2>7. s = StartSession(before, l) /\ f.request = None
      BY <1>6, <2>6
    <2>8. /\ s.thread = l.thread /\ s.startedAt = l.at /\ s.baseline = before.lastCumulative
          /\ s.lastCumulative = before.lastCumulative /\ s.historical = 0
          /\ s.increments = NoIncrements /\ s.tokens = 0
      BY <2>1, <2>5, <2>7, StartType
    <2>9. PICK a : a = StartSession(t, l)
      OBVIOUS
    <2>10. /\ a.thread = l.thread /\ a.startedAt = l.at /\ a.baseline = t.lastCumulative
           /\ a.lastCumulative = t.lastCumulative /\ a.historical = 0
           /\ a.increments = NoIncrements /\ a.tokens = 0
      BY <1>9, <2>1, <2>9, StartType
    <2>11. Like(a, s)
      BY <1>9, <2>8, <2>10 DEF Like
    <2>12. AppendLine(q, l) = [state |-> a, force |-> TRUE]
      BY <1>8, <1>10, <2>9 DEF AppendLine
    <2> QED
      BY <1>2, <1>4, <1>6, <2>7, <2>11, <2>12 DEF Abreast
  <1>11. CASE ~l.meta
    <2>1. l.total \in Nat /\ l.at \in Moments /\ l.last \in Nat \cup {None}
          /\ ((l.last # None) <=> named)
      BY <1>3, <1>11, CountType
    <2>2. s.lastCumulative = l.total
      <3>1. k \in Counts(w) /\ k <= k
        BY <1>2, <1>11 DEF Counts
      <3>2. PICK c : LastCount(w, k, c) /\ s.lastCumulative = w[c].total
        BY <1>4, <1>5, <1>6, <3>1 DEF Known
      <3>3. c \in Nat /\ c <= k /\ k <= c
        BY <3>1, <3>2 DEF LastCount, Counts
      <3>4. c = k
        BY <3>3
      <3> QED
        BY <1>2, <3>2, <3>4
    <2>3. t.lastCumulative = l.total
      BY <1>9, <2>2 DEF Like
    <2>4. CASE named
      <3>1. l.last # None /\ l.last \in Nat
        BY <2>1, <2>4
      <3>0. PICK again \in BOOLEAN : again = TRUE
        OBVIOUS
      <3>2. PICK a : a = CountRequest(t, l, again)
        OBVIOUS
      <3>3. /\ Kept(t, a) /\ a.baseline = t.baseline /\ a.lastCumulative = l.total
            /\ a.tokens = t.tokens + 0 /\ a.historical = Historical(t, 0, l.at)
            /\ a.increments = Recorded(t, 0, l.at)
        <4>1. PICK d : d = IF again THEN 0 ELSE l.last
          OBVIOUS
        <4>2. /\ Kept(t, a) /\ a.baseline = t.baseline /\ a.lastCumulative = l.total
              /\ a.tokens = t.tokens + d /\ a.historical = Historical(t, d, l.at)
              /\ a.increments = Recorded(t, d, l.at)
          BY <1>9, <2>1, <3>1, <3>2, <4>1, RequestIs
        <4>3. d = 0
          BY <3>0, <4>1
        <4> QED
          BY <4>2, <4>3
      <3>4. Like(a, t)
        BY <1>9, <2>3, <3>3, Fields DEF Like, Kept, Historical, Recorded, HasTokens
      <3>5. AppendLine(q, l) = [state |-> a, force |-> FALSE]
        <4>1. (~q.force /\ l.total = t.lastCumulative) = again
          BY <2>3, <3>0
        <4> QED
          BY <1>8, <1>11, <3>1, <3>2, <4>1 DEF AppendLine
      <3>6. Like(a, s)
        BY <1>9, <3>4 DEF Like
      <3> QED
        BY <1>2, <1>4, <1>6, <3>5, <3>6 DEF Abreast
    <2>5. CASE ~named
      <3>1. l.last = None
        BY <2>1, <2>5
      <3>2. PICK a : a = CountTotal(t, l)
        OBVIOUS
      <3>3. Afresh(t, l) = t /\ Difference(t, l) = 0
        BY <2>1, <2>3 DEF Afresh, Difference
      <3>4. /\ Kept(t, a) /\ a.baseline = t.baseline /\ a.lastCumulative = l.total
            /\ a.tokens = subtractInherited(l.total, t.baseline)
            /\ a.historical = Historical(t, 0, l.at) /\ a.increments = Recorded(t, 0, l.at)
        BY <1>9, <2>1, <3>2, <3>3, TotalFields
      <3>5. Even(t, named)
        BY <1>9, RegularEven
      <3>6. t.baseline \in Nat /\ t.baseline <= l.total /\ t.tokens = l.total - t.baseline
        BY <1>9, <2>3, <2>5, <3>5, Fields DEF Even
      <3>7. a.tokens = t.tokens
        BY <2>1, <3>4, <3>6 DEF subtractInherited
      <3>8. Like(a, t)
        BY <1>9, <2>3, <3>4, <3>7 DEF Like, Kept, Historical, Recorded, HasTokens
      <3>9. AppendLine(q, l) = [q EXCEPT !.state = a]
        BY <1>8, <1>11, <3>1, <3>2 DEF AppendLine
      <3>10. AppendLine(q, l).state = a /\ AppendLine(q, l).force = q.force
        BY <3>9 DEF AppendStates
      <3>11. Like(a, s)
        BY <1>9, <3>8 DEF Like
      <3> QED
        BY <1>2, <1>4, <1>6, <3>10, <3>11 DEF Abreast
    <2> QED
      BY <2>4, <2>5
  <1> QED
    BY <1>10, <1>11

LEMMA PositiveStays ==
    ASSUME NEW w, NEW named \in BOOLEAN, Orderly(w, named), Regular, NEW k \in 1 .. Len(w),
           NEW p \in 1 .. Len(w), k <= p, ForwardRun(w)[k].state.lastCumulative > 0
    PROVE  ForwardRun(w)[p].state.lastCumulative > 0
  <1>1. PICK j \in Counts(w) : j <= k
    BY PositiveIs
  <1>2. j <= p
    BY <1>1 DEF Counts
  <1> QED
    BY <1>1, <1>2, PositiveIs

\* A reading that goes on from a record reaches what it would from the beginning.
LEMMA ReadOnLike ==
    ASSUME NEW w, NEW named \in BOOLEAN, Orderly(w, named), Regular,
           NEW o \in Nat, NEW k \in {o, o + 1}, NEW s \in Good(named), Reaches(s, w, k),
           NEW rest \in Seq(Line(named)), NEW read, read = o + Len(rest), read <= Len(w),
           \A i \in 1 .. Len(rest) : rest[i] = w[o + i]
    PROVE  Reaches(ReadOn(s, rest), w, read) \/ Reaches(ReadOn(s, rest), w, read + 1)
  <1>1. PICK N \in Nat : N = Len(rest)
    OBVIOUS
  <1>2. PICK M \in Nat : M = Len(w)
    BY DEF Orderly
  <1>3. k \in 1 .. M /\ k \in Nat /\ Like(s, ForwardRun(w)[k].state)
        /\ ForwardRun(w)[k].state.lastCumulative > 0
    BY <1>2 DEF Reaches
  <1>4. PICK g : g = ReadOnRun(s, rest)
    OBVIOUS
  <1>5. PICK start : start = [state |-> s, force |-> FALSE]
    OBVIOUS
  <1>6. \A n \in 0 .. N : g[n] \in AppendStates(named)
    BY <1>1, <1>4, ReadOnRunType
  <1>7. \A n \in 0 .. N : g[n] = IF n = 0 THEN start ELSE AppendLine(g[n - 1], rest[n])
    BY <1>1, <1>4, <1>5, ReadOnRunType
  <1>8. PICK f : f = ForwardRun(w)
    OBVIOUS
  <1> DEFINE Place(n) == IF n = 0 THEN k ELSE o + n
             T == {n \in Nat : n <= N => Abreast(g[n], f[Place(n)])}
  <1>9. g[0] = start /\ start.force = FALSE /\ start.state = s
    <2>1. 0 \in 0 .. N
      BY <1>1
    <2>2. start.force = FALSE /\ start.state = s
      BY <1>5
    <2>3. g[0] = IF 0 = 0 THEN start ELSE AppendLine(g[0 - 1], rest[0])
      BY <1>7, <2>1
    <2> QED
      BY <2>2, <2>3
  <1>10. 0 \in T
    BY <1>3, <1>8, <1>9 DEF Abreast
  <1>11. ASSUME NEW n \in Nat, n \in T PROVE n + 1 \in T
    <2> SUFFICES ASSUME n + 1 <= N PROVE Abreast(g[n + 1], f[o + (n + 1)])
      OBVIOUS
    <2>1. n + 1 \in 0 .. N /\ n \in 0 .. N /\ n + 1 # 0 /\ (n + 1) - 1 = n /\ n + 1 \in 1 .. N
          /\ o + (n + 1) = (o + n) + 1 /\ (o + n) + 1 <= M
      BY <1>1, <1>2
    <2>2. g[n + 1] = AppendLine(g[n], rest[n + 1])
      BY <1>7, <2>1
    <2>3. rest[n + 1] = w[(o + n) + 1]
      BY <1>1, <2>1
    <2>4. PICK q \in AppendStates(named) : q = g[n]
      BY <1>6, <2>1
    <2>5. CASE n = 0 /\ k = o + 1
      <3>1. Abreast(q, f[k]) /\ ~q.force
        BY <1>9, <1>10, <1>1, <2>4, <2>5
      <3>2. k \in 1 .. Len(w)
        BY <1>2, <1>3
      <3>3. Abreast(AppendLine(q, w[k]), f[k])
        BY <1>8, <3>1, <3>2, AppendAgain
      <3>4. (o + n) + 1 = k
        BY <2>5
      <3> QED
        BY <2>1, <2>2, <2>3, <2>4, <3>3, <3>4
    <2>6. CASE ~(n = 0 /\ k = o + 1)
      <3>1. Place(n) = o + n /\ o + n \in Nat \ {0}
        BY <1>3, <2>6
      <3>2. Abreast(q, f[o + n])
        <4>1. n <= N
          BY <2>1
        <4>2. Abreast(g[n], f[Place(n)])
          BY <1>11, <4>1
        <4> HIDE DEF Place, T
        <4> QED
          BY <2>4, <3>1, <4>2
      <3>3. PICK p \in Nat \ {0} : p = o + n
        BY <3>1
      <3>4. p + 1 <= Len(w)
        BY <1>2, <2>1, <3>3
      <3>5. Abreast(AppendLine(q, w[p + 1]), f[p + 1])
        BY <1>8, <3>2, <3>3, <3>4, AppendLike
      <3> QED
        BY <2>1, <2>2, <2>3, <2>4, <3>3, <3>5
    <2> QED
      BY <2>5, <2>6
  <1>12. Nat \subseteq T
    <2> HIDE DEF T
    <2> QED
      BY <1>10, <1>11, Inductive
  <1>13. PICK p : p = Place(N)
    OBVIOUS
  <1>14. Abreast(g[N], f[p])
    BY <1>1, <1>12, <1>13
  <1>15. (p = read \/ p = read + 1) /\ p \in 1 .. Len(w) /\ k <= p
    BY <1>1, <1>2, <1>3, <1>13
  <1>16. ReadOn(s, rest) = g[N].state
    BY <1>1, <1>4, ReadOnRunIs
  <1>17. k \in 1 .. Len(w)
    BY <1>2, <1>3
  <1>18. f[p].state.lastCumulative > 0
    BY <1>3, <1>8, <1>15, <1>17, PositiveStays
  <1> QED
    BY <1>8, <1>14, <1>15, <1>16, <1>18 DEF Reaches, Abreast

-----------------------------------------------------------------------------
(* The file is orderly *)

\* A line that may follow, and the file with it.
Fits(l, w, named) ==
    /\ l.meta => w[1].thread = 0
    /\ ~l.meta => Follows(ForwardRun(w)[Len(w)], l, named, w[1].thread)
    /\ ~l.meta /\ Dated => l.at \in Times /\ \A j \in Counts(w) : w[j].at <= l.at
Added(v, w, l) == \A j \in Counts(v) : \/ j \in Counts(w) /\ v[j] = w[j]
                                       \/ j = Len(w) + 1 /\ v[j] = l /\ ~l.meta

LEMMA OrderlyAppend ==
    ASSUME NEW w, NEW named \in BOOLEAN, Orderly(w, named), w # <<>>, NEW l \in Line(named),
           Fits(l, w, named), NEW v, v = Append(w, l)
    PROVE  Orderly(v, named) /\ Added(v, w, l)
  <1>1. w \in Seq(Line(named)) /\ w[1] \in MetaLines /\ w[1].at = 1
        /\ (w[1].thread = 0 => Old) /\ (w[1].thread = 1 => Metas(w) = {1})
    BY DEF Orderly
  <1>2. PICK N \in Nat : N = Len(w) /\ N >= 1
    BY <1>1
  <1>3. v \in Seq(Line(named)) /\ Len(v) = N + 1 /\ (\A i \in 1 .. N : v[i] = w[i])
        /\ v[N + 1] = l
    BY <1>1, <1>2, AppendProperties
  <1>4. v[1] = w[1] /\ v # <<>>
    BY <1>2, <1>3
  <1>5. \A j \in Counts(v) : \/ j \in Counts(w) /\ v[j] = w[j]
                             \/ j = N + 1 /\ v[j] = l /\ ~l.meta
    <2> SUFFICES ASSUME NEW j \in Counts(v)
                 PROVE  \/ j \in Counts(w) /\ v[j] = w[j]
                        \/ j = N + 1 /\ v[j] = l /\ ~l.meta
      OBVIOUS
    <2>1. (j \in 1 .. N \/ j = N + 1) /\ ~v[j].meta
      BY <1>2, <1>3 DEF Counts
    <2> QED
      BY <1>2, <1>3, <2>1 DEF Counts
  <1>6. \A m \in Metas(v) : (m \in Metas(w) /\ v[m] = w[m]) \/ l.meta
    <2> SUFFICES ASSUME NEW m \in Metas(v) PROVE (m \in Metas(w) /\ v[m] = w[m]) \/ l.meta
      OBVIOUS
    <2>1. (m \in 1 .. N \/ m = N + 1) /\ v[m].meta
      BY <1>2, <1>3 DEF Metas
    <2> QED
      BY <1>2, <1>3, <2>1 DEF Metas
  <1>7. v[1].thread = 1 => Metas(v) = {1}
    <2> SUFFICES ASSUME v[1].thread = 1 PROVE Metas(v) = {1}
      OBVIOUS
    <2>1. ~l.meta /\ Metas(w) = {1}
      BY <1>1, <1>4 DEF Fits
    <2>2. Metas(v) \subseteq {1}
      BY <1>6, <2>1
    <2>3. v[1].meta
      BY <1>1, <1>4 DEF MetaLines
    <2>4. 1 \in Metas(v)
      BY <1>2, <1>3, <2>3 DEF Metas
    <2> QED
      BY <2>2, <2>4
  <1>8. \A n \in 0 .. N : ForwardRun(w)[n] = ForwardRun(v)[n]
    <2>1. Len(w) <= Len(v) /\ \A i \in 1 .. Len(w) : w[i] = v[i]
      BY <1>2, <1>3
    <2> QED
      BY <1>1, <1>2, <1>3, <2>1, PrefixRun
  <1>9. ASSUME NEW k \in Counts(v)
        PROVE  Follows(ForwardRun(v)[k - 1], v[k], named, v[1].thread)
    <2>1. CASE k \in Counts(w) /\ v[k] = w[k]
      <3>1. k - 1 \in 0 .. N
        BY <1>2, <2>1 DEF Counts
      <3>2. Follows(ForwardRun(w)[k - 1], w[k], named, w[1].thread)
        BY <2>1 DEF Orderly
      <3>3. ForwardRun(w)[k - 1] = ForwardRun(v)[k - 1]
        BY <1>8, <3>1
      <3> QED
        BY <1>4, <2>1, <3>2, <3>3
    <2>2. CASE k = N + 1 /\ v[k] = l /\ ~l.meta
      <3>1. k - 1 = N /\ N \in 0 .. N
        BY <2>2
      <3>2. ForwardRun(w)[N] = ForwardRun(v)[N]
        BY <1>8, <3>1
      <3> QED
        BY <1>2, <1>4, <2>2, <3>1, <3>2 DEF Fits
    <2> QED
      BY <1>5, <2>1, <2>2
  <1>10. ASSUME Dated, NEW i \in Counts(v), NEW j \in Counts(v), i <= j
         PROVE  v[i].at \in Times /\ v[j].at \in Times /\ v[i].at <= v[j].at
    <2>1. \A k \in Counts(w) : k \in 1 .. N /\ k <= k
      BY <1>2 DEF Counts
    <2>2. \A k \in Counts(w) : w[k].at \in Times
      BY <1>10, <2>1 DEF Orderly
    <2>3. \A k \in Times : k <= k
      BY DEF Times
    <2>4. CASE j \in Counts(w) /\ v[j] = w[j]
      <3>1. i \in Counts(w) /\ v[i] = w[i]
        BY <1>2, <1>5, <1>10, <2>1, <2>4
      <3> QED
        BY <1>10, <2>4, <3>1 DEF Orderly
    <2>5. CASE j = N + 1 /\ v[j] = l /\ ~l.meta
      <3>1. l.at \in Times /\ \A k \in Counts(w) : w[k].at <= l.at
        BY <1>10, <2>5 DEF Fits
      <3> QED
        BY <1>5, <2>2, <2>3, <2>5, <3>1
    <2> QED
      BY <1>5, <2>4, <2>5
  <1> QED
    BY <1>1, <1>2, <1>3, <1>4, <1>5, <1>7, <1>9, <1>10 DEF Orderly, Added

OrderInv == /\ Orderly(Written, names)
            /\ Dated => \A j \in Counts(Written) : Written[j].at <= now

\* What Total reads off the file is what a reading has come to.
LEMMA TotalRead ==
    ASSUME NEW named \in BOOLEAN, Orderly(Written, named), Regular, Written # <<>>
    PROVE  /\ ForwardRun(Written)[Len(Written)].state.lastCumulative = Total
           /\ Len(Written) \in 1 .. Len(Written)
  <1>1. PICK w : w = Written
    OBVIOUS
  <1>2. w \in Seq(Line(named)) /\ w # <<>>
    BY <1>1 DEF Orderly
  <1>3. PICK N \in 1 .. Len(w) : N = Len(w) /\ N \in Nat
    BY <1>2
  <1>4. Known(w, named, N)
    BY <1>1, AlwaysKnown
  <1>5. Counts(w) \in SUBSET (0 .. N) /\ \A j \in Counts(w) : j <= N
    BY <1>2, <1>3, PlacesType
  <1>6. CASE Counts(w) = {}
    <2>1. Total = 0
      BY <1>1, <1>6 DEF Total
    <2>2. ForwardRun(w)[N].state.lastCumulative = 0
      BY <1>4, <1>6 DEF Known, LastCount
    <2> QED
      BY <1>1, <1>3, <2>1, <2>2
  <1>7. CASE Counts(w) # {}
    <2>1. PICK e \in Counts(w) : e = Max(Counts(w)) /\ \A k \in Counts(w) : k <= e
      BY <1>3, <1>5, <1>7, MaxIs
    <2>2. Total = w[e].total
      BY <1>1, <1>7, <2>1 DEF Total
    <2>3. PICK c : LastCount(w, N, c) /\ ForwardRun(w)[N].state.lastCumulative = w[c].total
      BY <1>4, <1>5, <2>1 DEF Known
    <2>4. c \in Nat /\ e \in Nat /\ c <= e /\ e <= c
      BY <1>5, <2>1, <2>3 DEF LastCount
    <2>5. c = e
      BY <2>4
    <2> QED
      BY <1>1, <1>3, <2>2, <2>3, <2>5
  <1> QED
    BY <1>6, <1>7

LEMMA BeginOrder ==
    ASSUME FileInv, OrderInv, NEW l \in Line(names), Begin(l), file # <<>>,
           l.meta => file[1].thread = 0,
           ~l.meta => Follows(ForwardRun(file)[Len(file)], l, names, file[1].thread),
           ~l.meta /\ Dated => l.at = now
    PROVE  OrderInv'
  <1>1. tail = None /\ tail' = l /\ file' = file /\ names' = names /\ now' = now
    BY DEF Begin
  <1>2. Written = file /\ names \in BOOLEAN /\ now \in Times
    BY <1>1 DEF FileInv, Lined, Written
  <1>3. PICK v : v = Append(file, l)
    OBVIOUS
  <1>0. CASE l = None
    <2>1. Written' = Written
      BY <1>0, <1>1 DEF Written
    <2> QED
      BY <1>1, <2>1 DEF OrderInv
  <1>4. l # None => Written' = v
    BY <1>1, <1>3 DEF Written
  <1>5. ~l.meta /\ Dated => l.at \in Times /\ \A j \in Counts(file) : file[j].at <= l.at
    BY <1>2 DEF OrderInv
  <1>6. Orderly(v, names) /\ Added(v, file, l)
    <2>1. Fits(l, file, names)
      BY <1>5 DEF Fits
    <2>2. Orderly(file, names)
      BY <1>2 DEF OrderInv
    <2> QED
      BY <1>2, <1>3, <2>1, <2>2, OrderlyAppend
  <1>7. Dated => \A j \in Counts(v) : v[j].at <= now
    <2>1. now <= now
      BY <1>2 DEF Times
    <2> QED
      BY <1>2, <1>6, <2>1 DEF OrderInv, Added
  <1> QED
    BY <1>0, <1>1, <1>4, <1>6, <1>7 DEF OrderInv

LEMMA InitOrder == ASSUME Init, FileInv, Regular PROVE OrderInv
  <1>1. PICK w : w = Written
    OBVIOUS
  <1>2. PICK l : l = tail
    OBVIOUS
  <1>3. file = <<>> /\ (l = Meta(1, 1) \/ (l = Meta(0, 1) /\ "fork" \in Habits))
    BY <1>2 DEF Init
  <1>4. 1 \in Times
    BY ScanAssumption DEF Times
  <1>5. l \in MetaLines /\ l.at = 1 /\ (l.thread = 0 => "fork" \in Habits)
    <2>1. Meta(1, 1) \in MetaLines /\ Meta(0, 1) \in MetaLines /\ Meta(1, 1).at = 1
          /\ Meta(0, 1).at = 1 /\ Meta(1, 1).thread = 1
      BY <1>4 DEF Meta, MetaLines
    <2> QED
      BY <1>3, <2>1
  <1>6. l.meta /\ l # None
    <2>1. l.meta
      BY <1>5 DEF MetaLines
    <2>2. l # None
      BY <1>5, ScanAssumption DEF MetaLines, Times
    <2> QED
      BY <2>1, <2>2
  <1>7. w \in Seq(Line(names)) /\ Len(w) = 1 /\ w[1] = l
    <2>1. Lined /\ Len(file) = 0
      BY <1>3 DEF FileInv
    <2> QED
      BY <1>1, <1>2, <1>6, <2>1, WrittenIs
  <1>8. Counts(w) = {} /\ Metas(w) = {1}
    BY <1>6, <1>7 DEF Counts, Metas
  <1>9. l.thread = 0 => Old
    BY <1>5 DEF Regular, Old
  <1>10. Orderly(w, names)
    BY <1>5, <1>7, <1>8, <1>9 DEF Orderly
  <1> QED
    BY <1>1, <1>8, <1>10 DEF OrderInv

\* A reading of the whole file, before the next line.
LEMMA ReadSoFar ==
    ASSUME FileInv, OrderInv, Regular, tail = None, file # <<>>,
           NEW f, f = ForwardRun(file)[Len(file)]
    PROVE  /\ f.state.lastCumulative = Total /\ Total \in Nat
           /\ f.request = IF file[Len(file)].meta \/ ~names THEN None ELSE file[Len(file)].total
           /\ Len(file) \in 1 .. Len(file) /\ file[1].at = 1
           /\ file[1].thread \in {0, 1} /\ (file[1].thread = 1 => Metas(file) = {1})
           /\ (file[1].thread = 0 => Old) /\ Orderly(file, names)
  <1>1. Written = file /\ names \in BOOLEAN
    BY DEF Written, FileInv, Lined
  <1>2. Orderly(file, names)
    BY <1>1 DEF OrderInv
  <1>3. f.state.lastCumulative = Total /\ Len(file) \in 1 .. Len(file)
    BY <1>1, <1>2, TotalRead
  <1>4. Total \in Nat
    BY TotalIs
  <1>5. Known(file, names, Len(file))
    BY <1>1, <1>2, <1>3, AlwaysKnown
  <1>6. f.request = IF file[Len(file)].meta \/ ~names THEN None ELSE file[Len(file)].total
    BY <1>5 DEF Known
  <1>7. file[1] \in MetaLines /\ file[1].at = 1 /\ (file[1].thread = 1 => Metas(file) = {1})
        /\ (file[1].thread = 0 => Old)
    BY <1>2 DEF Orderly
  <1>8. file[1].thread \in {0, 1}
    BY <1>7 DEF MetaLines
  <1> QED
    BY <1>2, <1>3, <1>4, <1>6, <1>7, <1>8

LEMMA RequestOrder == ASSUME FileInv, OrderInv, Regular, Request PROVE OrderInv'
  <1>1. PICK use \in 1 .. MaxUse, at \in Stamp : Begin(Count(Total + use, Named(use), at))
    BY DEF Request
  <1>2. file # <<>> /\ tail = None
    BY <1>1 DEF Request, Begin
  <1>3. PICK l : l = Count(Total + use, Named(use), at)
    OBVIOUS
  <1>4. at \in Moments /\ names \in BOOLEAN
    BY DEF Stamp, FileInv, Lined, Moments
  <1>5. PICK f : f = ForwardRun(file)[Len(file)]
    OBVIOUS
  <1>6. f.state.lastCumulative = Total /\ Total \in Nat
    BY <1>2, <1>5, ReadSoFar
  <1>7. use \in Nat /\ use > 0 /\ Total + use \in Nat
    BY <1>6, ScanAssumption
  <1>8. Named(use) \in Nat \cup {None} /\ ((Named(use) # None) <=> names)
        /\ (names => Named(use) = use)
    BY <1>4, <1>7, ScanAssumption DEF Named
  <1>9. l \in Line(names) /\ l.total = Total + use /\ l.last = Named(use) /\ l.at = at
        /\ ~l.meta
    BY <1>3, <1>4, <1>7, <1>8 DEF Line, CountLines, Count
  <1>10. Follows(f, l, names, file[1].thread)
    <2>1. l.total > 0 /\ l.total # f.state.lastCumulative /\ l.total >= f.state.lastCumulative
      BY <1>6, <1>7, <1>9
    <2>2. names => l.total = f.state.lastCumulative + l.last
      BY <1>6, <1>8, <1>9
    <2> QED
      BY <2>1, <2>2 DEF Follows
  <1>11. Dated => l.at = now
    BY <1>9 DEF Dated, Stamp
  <1> QED
    BY <1>1, <1>2, <1>3, <1>5, <1>9, <1>10, <1>11, BeginOrder

LEMMA RepeatOrder == ASSUME FileInv, OrderInv, Regular, Repeat PROVE OrderInv'
  <1>1. PICK l : l = [Last(file) EXCEPT !.at = now]
    OBVIOUS
  <1>2. PICK k : k = Last(file)
    OBVIOUS
  <1>3. file # <<>> /\ tail = None /\ Begin(l) /\ ~k.meta
    BY <1>1, <1>2 DEF Repeat, Begin
  <1>4. file \in Seq(Line(names)) /\ names \in BOOLEAN /\ now \in Moments
    BY DEF FileInv, Lined, Moments
  <1>5. PICK f : f = ForwardRun(file)[Len(file)]
    OBVIOUS
  <1>6. f.state.lastCumulative = Total /\ Len(file) \in 1 .. Len(file) /\ Orderly(file, names)
        /\ f.request = IF file[Len(file)].meta \/ ~names THEN None ELSE file[Len(file)].total
    BY <1>3, <1>5, ReadSoFar
  <1>7. k = file[Len(file)] /\ k \in Line(names)
    BY <1>2, <1>3, <1>4, <1>6 DEF Last
  <1>8. k \in CountLines /\ ((k.last # None) <=> names) /\ k.total \in Nat
    BY <1>3, <1>4, <1>7, CountType
  <1>9. l = [k EXCEPT !.at = now]
    BY <1>1, <1>2
  <1>10. l \in CountLines /\ l.total = k.total /\ l.last = k.last /\ l.at = now
    BY <1>4, <1>8, <1>9 DEF CountLines
  <1>11. l \in Line(names) /\ ~l.meta
    <2>1. l \in Line(names)
      BY <1>8, <1>10 DEF Line
    <2>2. ~l.meta
      BY <1>10 DEF CountLines
    <2> QED
      BY <2>1, <2>2
  <1>12. Len(file) \in Counts(file)
    BY <1>3, <1>6, <1>7 DEF Counts
  <1>13. k.total > 0
    BY <1>6, <1>7, <1>12 DEF Orderly, Follows
  <1>14. k.total = Total
    <2>1. Known(file, names, Len(file))
      BY <1>4, <1>6, AlwaysKnown
    <2>2. Len(file) <= Len(file)
      BY <1>6
    <2>3. PICK c : LastCount(file, Len(file), c) /\ f.state.lastCumulative = file[c].total
      BY <1>5, <1>12, <2>1, <2>2 DEF Known
    <2>4. c \in Nat /\ c <= Len(file) /\ Len(file) <= c /\ Len(file) \in Nat
      BY <1>12, <2>2, <2>3 DEF LastCount, Counts
    <2>5. c = Len(file)
      BY <2>4
    <2> QED
      BY <1>6, <1>7, <2>3, <2>5
  <1>15. Follows(f, l, names, file[1].thread)
    <2>1. names => f.request = l.total /\ f.request # None
      BY <1>3, <1>6, <1>7, <1>8, <1>10, ScanAssumption
    <2>2. l.total > 0 /\ l.total >= f.state.lastCumulative
      BY <1>6, <1>8, <1>10, <1>13, <1>14
    <2> QED
      BY <2>1, <2>2 DEF Follows
  <1> QED
    BY <1>3, <1>5, <1>10, <1>11, <1>15, BeginOrder

LEMMA ResetOrder == ASSUME FileInv, OrderInv, Regular, Reset PROVE OrderInv'
  <1>1. PICK use \in 1 .. MaxUse : Begin(Count(use, Named(use), now))
    BY DEF Reset
  <1>2. tail = None /\ Written = file
    BY <1>1 DEF Begin, Written
  <1>3. file # <<>> /\ Total > 0
    BY <1>2, TotalIs DEF Reset
  <1>4. PICK l : l = Count(use, Named(use), now)
    OBVIOUS
  <1>5. now \in Moments /\ names \in BOOLEAN /\ use \in Nat /\ use > 0
    BY ScanAssumption DEF FileInv, Lined, Moments
  <1>6. Named(use) \in Nat \cup {None} /\ ((Named(use) # None) <=> names)
    BY <1>5, ScanAssumption DEF Named
  <1>7. l \in Line(names) /\ ~l.meta /\ l.total = use /\ l.at = now
    BY <1>4, <1>5, <1>6 DEF Line, CountLines, Count
  <1>8. Head(file) = file[1]
    BY <1>3 DEF FileInv, Lined
  <1>9. PICK f : f = ForwardRun(file)[Len(file)]
    OBVIOUS
  <1>10. f.request = (IF file[Len(file)].meta \/ ~names THEN None ELSE file[Len(file)].total)
         /\ f.state.lastCumulative = Total /\ Total \in Nat
         /\ Len(file) \in 1 .. Len(file) /\ file[1].at = 1
         /\ file[1].thread \in {0, 1} /\ (file[1].thread = 1 => Metas(file) = {1})
         /\ (file[1].thread = 0 => Old) /\ Orderly(file, names)
    BY <1>2, <1>3, <1>9, ReadSoFar
  <1>11. ~(1 < InitializedAt /\ (names \/ file[1].thread = 0))
    BY <1>8, <1>10 DEF Reset, Regular
  <1>12. InitializedAt \in Nat /\ InitializedAt >= 1
    BY ScanAssumption
  <1>13. file[1].thread = 1 /\ Metas(file) = {1} /\ (names => ~Old)
    <2>1. file[1].thread # 0
      BY <1>10, <1>11, <1>12 DEF Old
    <2>2. names => ~Old
      BY <1>11, <1>12 DEF Old
    <2> QED
      BY <1>10, <2>1, <2>2
  <1>14. ~(names /\ f.request = None)
    <2> SUFFICES ASSUME names, f.request = None PROVE FALSE
      OBVIOUS
    <2>1. file[Len(file)].meta
      <3> SUFFICES ASSUME ~file[Len(file)].meta PROVE FALSE
        OBVIOUS
      <3>1. Len(file) \in Counts(file)
        BY <1>10 DEF Counts
      <3>2. file[Len(file)].total \in Nat
        BY <1>5, <3>1, PlacesType DEF FileInv, Lined
      <3> QED
        BY <1>10, <3>2, ScanAssumption
    <2>2. Len(file) = 1
      <3>1. Len(file) \in Metas(file)
        BY <1>10, <2>1 DEF Metas
      <3> QED
        BY <1>13, <3>1
    <2>3. Counts(file) = {}
      BY <2>1, <2>2 DEF Counts
    <2> QED
      BY <1>2, <1>3, <2>3 DEF Total
  <1>15. Follows(f, l, names, file[1].thread)
    BY <1>5, <1>7, <1>13, <1>14 DEF Follows
  <1> QED
    BY <1>1, <1>3, <1>4, <1>7, <1>9, <1>15, BeginOrder

LEMMA ForkOrder == ASSUME FileInv, OrderInv, Regular, Fork PROVE OrderInv'
  <1>1. Begin(Meta(1, now)) /\ file # <<>> /\ Head(file).thread = 0
    BY DEF Fork
  <1>2. PICK l : l = Meta(1, now)
    OBVIOUS
  <1>3. l \in MetaLines /\ l.meta
    BY <1>2 DEF Meta, MetaLines, FileInv
  <1>4. l \in Line(names)
    BY <1>3 DEF Line
  <1>5. file[1].thread = 0
    BY <1>1 DEF FileInv, Lined
  <1> QED
    BY <1>1, <1>2, <1>3, <1>4, <1>5, BeginOrder

LEMMA SameOrder ==
    ASSUME FileInv, OrderInv, Written' = Written, names' = names, now' \in Times, now' >= now
    PROVE  OrderInv'
  <1>1. now \in Times /\ names \in BOOLEAN
    BY DEF FileInv, Lined
  <1>2. PICK w : w = Written
    OBVIOUS
  <1>3. Orderly(w, names)
    BY <1>2 DEF OrderInv
  <1>4. ASSUME Dated, NEW j \in Counts(w) PROVE w[j].at <= now'
    <2>1. j <= j
      BY DEF Counts
    <2>2. w[j].at \in Times /\ w[j].at <= now
      BY <1>2, <1>3, <1>4, <2>1 DEF OrderInv, Orderly
    <2> QED
      BY <1>1, <2>2 DEF Times
  <1> QED
    BY <1>2, <1>3, <1>4 DEF OrderInv

-----------------------------------------------------------------------------
(* The records are readings of the file *)

Reading(s, o) == Reaches(s, Written, o) \/ Reaches(s, Written, o + 1)

RecordInv ==
    /\ size # None => size[1] \in Nat /\ size[1] <= moved
    /\ \A r \in {record, checkpoint} \ {None} :
          /\ Reading(r.state, r.offset)
          /\ r.size[1] \in Nat /\ r.size[1] <= moved
          /\ r.size[1] = moved => r.offset = r.size[2]

LEMMA ResultLike ==
    ASSUME FileInv, ReadInv, OrderInv, RecordInv, Regular,
           NEW lines \in Seq(Line(names)), NEW begun, NEW all \in Seq(Line(names)),
           all = (IF begun = None THEN lines ELSE Append(lines, begun)),
           NEW read \in 0 .. Len(file), Len(lines) = read,
           Begins(lines, file), Begins(all, Written),
           NEW state, state = Result(lines, begun), state # None
    PROVE  Reading(state, read)
  <1>1. names \in BOOLEAN /\ Lined
    BY DEF FileInv, Lined
  <1>2. PICK w : w = Written
    OBVIOUS
  <1>3. Orderly(w, names)
    BY <1>2 DEF OrderInv
  <1>4. Len(file) \in Nat /\ Len(w) \in Nat /\ (\A i \in 1 .. Len(file) : w[i] = file[i])
        /\ Len(file) <= Len(w)
    <2>1. Len(file) \in Nat /\ (\A i \in 1 .. Len(file) : w[i] = file[i])
          /\ (tail = None => w = file) /\ (tail # None => Len(w) = Len(file) + 1)
      BY <1>1, <1>2, WrittenIs
    <2> QED
      BY <2>1
  <1>5. PICK c : c = checkpoint
    OBVIOUS
  <1>6. CASE c # None /\ Bytes(size) > Bytes(c.size) /\ GuardMatches(c, lines)
    <2>1. c.state \in Good(names) /\ c.offset \in Nat /\ c.offset <= read
      BY <1>5, <1>6 DEF ReadInv, GuardMatches
    <2>2. PICK o \in Nat : o = c.offset /\ o <= read
      BY <2>1
    <2>3. PICK k \in {o, o + 1} : Reaches(c.state, w, k)
      BY <1>2, <1>5, <1>6, <2>2 DEF RecordInv, Reading
    <2>4. PICK rest : rest = SubSeq(lines, o + 1, read)
      OBVIOUS
    <2>5. rest \in Seq(Line(names)) /\ Len(rest) = read - o
          /\ \A i \in 1 .. read - o : rest[i] = lines[o + i]
      <3>1. \A i \in o + 1 .. read : lines[i] \in Line(names)
        BY <2>2
      <3>2. o + 1 \in Int /\ read \in Int
        BY <2>2
      <3>3. rest \in Seq(Line(names))
            /\ Len(rest) = (IF o + 1 <= read THEN read - (o + 1) + 1 ELSE 0)
            /\ \A i \in 1 .. read - (o + 1) + 1 : rest[i] = lines[o + 1 + i - 1]
        BY <2>4, <3>1, <3>2, SubSeqProperties
      <3>4. Len(rest) = read - o
        BY <2>2, <3>3
      <3>5. \A i \in 1 .. read - o : i \in 1 .. read - (o + 1) + 1 /\ o + 1 + i - 1 = o + i
        BY <2>2
      <3> QED
        BY <3>3, <3>4, <3>5
    <2>6. \A i \in 1 .. Len(rest) : rest[i] = w[o + i]
      <3> SUFFICES ASSUME NEW i \in 1 .. read - o PROVE rest[i] = w[o + i]
        BY <2>5
      <3>1. o + i \in 1 .. read /\ o + i \in 1 .. Len(file)
        BY <1>4, <2>2
      <3> QED
        BY <1>4, <2>5, <3>1 DEF Begins
    <2>7. read = o + Len(rest) /\ read <= Len(w)
      BY <1>4, <2>2, <2>5
    <2>8. state = ReadOn(c.state, rest)
      BY <1>5, <1>6, <2>2, <2>4 DEF Result
    <2>9. Reaches(state, w, read) \/ Reaches(state, w, read + 1)
      BY <1>1, <1>3, <2>1, <2>3, <2>5, <2>6, <2>7, <2>8, ReadOnLike
    <2> QED
      BY <1>2, <2>9 DEF Reading
  <1>7. CASE ~(c # None /\ Bytes(size) > Bytes(c.size) /\ GuardMatches(c, lines))
    <2>1. PICK tracked : state = Bootstrap(lines, begun, tracked)
      BY <1>5, <1>7 DEF Result
    <2>2. Len(all) <= Len(w) /\ \A i \in 1 .. Len(all) : all[i] = w[i]
      BY <1>2 DEF Begins
    <2>3. Reaches(state, w, Len(lines)) \/ Reaches(state, w, Len(all))
      BY <1>1, <1>3, <2>1, <2>2, BootstrapLike
    <2>4. Len(all) = read \/ Len(all) = read + 1
      <3>1. CASE begun = None
        BY <3>1
      <3>2. CASE begun # None
        <4>1. all = Append(lines, begun)
          BY <3>2
        <4> QED
          BY <4>1
      <3> QED
        BY <3>1, <3>2
    <2> QED
      BY <1>2, <2>3, <2>4 DEF Reading
  <1> QED
    BY <1>6, <1>7

LEMMA ScanLike ==
    ASSUME FileInv, ReadInv, OrderInv, RecordInv, Regular, Scan PROVE RecordInv'
  <1>1. size # None /\ file' = file /\ names' = names /\ moved' = moved /\ tail' = tail
    BY DEF Scan, Idle, disk
  <1>2. PICK read \in {n \in {size[2], size[2] - 1} :
                          n >= 0 /\ (size[1] = moved => n = size[2])},
             begun \in IF size[1] = moved THEN BegunLine(size) ELSE {None} :
          LET state == Result(SubSeq(file, 1, read), begun)
              result == IF state = None THEN None
                        ELSE [state |-> state, size |-> size, offset |-> read,
                              moved |-> moved]
          IN  IF Settled
              THEN record' = result /\ Rest
              ELSE /\ size' = Fingerprint /\ attempt' = attempt + 1
                   /\ checkpoint' = IF result = None THEN checkpoint ELSE result
                   /\ UNCHANGED record
    BY DEF Scan
  <1>3. PICK lines : lines = SubSeq(file, 1, read)
    OBVIOUS
  <1>4. PICK all : all = IF begun = None THEN lines ELSE Append(lines, begun)
    OBVIOUS
  <1>5. read \in 0 .. Len(file) /\ Len(lines) = read /\ lines \in Seq(Line(names))
        /\ Sound(all, names) /\ Begins(lines, file) /\ Begins(all, Written)
    BY <1>1, <1>3, <1>4, ReadFrom
  <1>6. PICK state : state = Result(lines, begun)
    OBVIOUS
  <1>7. state # None => Reading(state, read)
    BY <1>4, <1>5, <1>6, ResultLike DEF Sound
  <1>8. PICK result : result = IF state = None THEN None
                               ELSE [state |-> state, size |-> size, offset |-> read,
                                     moved |-> moved]
    OBVIOUS
  <1>9. result # None => /\ Reading(result.state, result.offset)
                         /\ result.size[1] \in Nat /\ result.size[1] <= moved
                         /\ result.size[1] = moved => result.offset = result.size[2]
    <2> SUFFICES ASSUME result # None
                 PROVE  /\ Reading(result.state, result.offset)
                        /\ result.size[1] \in Nat /\ result.size[1] <= moved
                        /\ result.size[1] = moved => result.offset = result.size[2]
      OBVIOUS
    <2>1. state # None /\ result.state = state /\ result.offset = read /\ result.size = size
      BY <1>8
    <2>2. size[1] = moved => read = size[2]
      BY <1>2
    <2> QED
      BY <1>1, <1>7, <2>1, <2>2 DEF RecordInv
  <1>10. IF Settled THEN record' = result /\ Rest
         ELSE /\ size' = Fingerprint /\ attempt' = attempt + 1
              /\ checkpoint' = IF result = None THEN checkpoint ELSE result
              /\ UNCHANGED record
    BY <1>2, <1>3, <1>6, <1>8
  <1>11. \A r \in {record', checkpoint'} \ {None} :
            r = result \/ r \in {record, checkpoint}
    BY <1>10 DEF Rest
  <1>12. \A r \in {record', checkpoint'} \ {None} :
            /\ Reading(r.state, r.offset)
            /\ r.size[1] \in Nat /\ r.size[1] <= moved
            /\ r.size[1] = moved => r.offset = r.size[2]
    BY <1>9, <1>11 DEF RecordInv
  <1>13. \A s, o : Reading(s, o)' <=> Reading(s, o)
    <2>1. Written' = Written
      BY <1>1 DEF Written
    <2> QED
      BY <2>1 DEF Reading
  <1>14. size' # None => size'[1] \in Nat /\ size'[1] <= moved
    BY <1>10 DEF Rest, Fingerprint, FileInv
  <1> QED
    BY <1>1, <1>12, <1>13, <1>14 DEF RecordInv, Reading

LEMMA RecordGrows ==
    ASSUME FileInv, RecordInv, OrderInv', names' = names, Begins(Written, Written'),
           moved' = moved, UNCHANGED <<scan, record>>
    PROVE  RecordInv'
  <1>1. PICK w, v : w = Written /\ v = Written'
    OBVIOUS
  <1>2. names \in BOOLEAN /\ w \in Seq(Line(names))
    BY <1>1, WrittenIs DEF FileInv, Lined
  <1>3. Orderly(v, names)
    BY <1>1 DEF OrderInv
  <1>4. \A s, k : Reaches(s, w, k) => Reaches(s, v, k)
    <2>1. Len(w) <= Len(v) /\ \A i \in 1 .. Len(w) : w[i] = v[i]
      BY <1>1 DEF Begins
    <2> QED
      BY <1>2, <1>3, <2>1, ReachesPrefix
  <1>5. \A s, o : Reading(s, o) => Reading(s, o)'
    BY <1>1, <1>4 DEF Reading
  <1> QED
    BY <1>5 DEF RecordInv, scan

LEMMA BeginRecord ==
    ASSUME FileInv, RecordInv, OrderInv', NEW l \in Line(names), Begin(l)
    PROVE  RecordInv'
  <1>1. tail = None /\ tail' = l /\ file' = file /\ names' = names /\ moved' = moved
        /\ UNCHANGED <<scan, record>>
    BY DEF Begin
  <1>2. Written = file /\ file \in Seq(Line(names)) /\ Len(file) \in Nat
    BY <1>1 DEF FileInv, Lined, Written
  <1>3. Begins(Written, Written')
    <2>1. CASE l = None
      <3>1. Written' = file
        BY <1>1, <2>1 DEF Written
      <3> QED
        BY <1>2, <3>1 DEF Begins
    <2>2. CASE l # None
      <3>1. PICK v : v = Append(file, l)
        OBVIOUS
      <3>2. Len(v) = Len(file) + 1 /\ \A i \in 1 .. Len(file) : v[i] = file[i]
        BY <1>2, <3>1, AppendProperties
      <3>3. Written' = v
        BY <1>1, <2>2, <3>1 DEF Written
      <3> QED
        BY <1>2, <3>2, <3>3 DEF Begins
    <2> QED
      BY <2>1, <2>2
  <1> QED
    BY <1>1, <1>3, RecordGrows

LEMMA BeginRecordLine ==
    ASSUME FileInv, RecordInv, OrderInv', NEW l, Begin(l), FileInv'
    PROVE  RecordInv'
  <1>1. tail' = l /\ names' = names
    BY DEF Begin
  <1>2. l = None \/ l \in Line(names)
    BY <1>1 DEF FileInv, Lined
  <1>3. CASE l \in Line(names)
    BY <1>3, BeginRecord
  <1>4. CASE l = None
    <2>1. Written' = Written /\ moved' = moved /\ UNCHANGED <<scan, record>> /\ names' = names
      BY <1>4 DEF Begin, Written
    <2>2. Len(Written) \in Nat
      BY WrittenIs DEF FileInv
    <2>3. Begins(Written, Written')
      BY <2>1, <2>2 DEF Begins
    <2> QED
      BY <2>1, <2>3, RecordGrows
  <1> QED
    BY <1>2, <1>3, <1>4

ReadingInv == OrderInv /\ RecordInv

LEMMA ReadingStep ==
    ASSUME Regular, ScanInv, ScanInv', ReadingInv, [Next]_vars PROVE ReadingInv'
  <1> USE DEF ReadingInv
  <1>0. FileInv /\ FileInv' /\ ReadInv /\ OrderInv /\ RecordInv
    BY DEF ScanInv
  <1>1. now \in Times /\ moved \in Nat /\ now <= now /\ Len(Written) \in Nat
        /\ Begins(Written, Written)
    <2>1. now \in Times /\ moved \in Nat /\ Len(Written) \in Nat
      BY <1>0, WrittenIs, ScanAssumption DEF FileInv
    <2> QED
      BY <2>1 DEF Times, Begins
  <1>2. CASE Request
    <2>1. OrderInv'
      BY <1>0, <1>2, RequestOrder
    <2>2. PICK l : Begin(l)
      BY <1>2 DEF Request
    <2> QED
      BY <1>0, <2>1, <2>2, BeginRecordLine
  <1>3. CASE Repeat
    <2>1. OrderInv'
      BY <1>0, <1>3, RepeatOrder
    <2>2. PICK l : Begin(l)
      BY <1>3 DEF Repeat
    <2> QED
      BY <1>0, <2>1, <2>2, BeginRecordLine
  <1>4. CASE Reset
    <2>1. OrderInv'
      BY <1>0, <1>4, ResetOrder
    <2>2. PICK l : Begin(l)
      BY <1>4 DEF Reset
    <2> QED
      BY <1>0, <2>1, <2>2, BeginRecordLine
  <1>5. CASE Fork
    <2>1. OrderInv'
      BY <1>0, <1>5, ForkOrder
    <2>2. PICK l : Begin(l)
      BY <1>5 DEF Fork
    <2> QED
      BY <1>0, <2>1, <2>2, BeginRecordLine
  <1>6. CASE EndLine
    <2>1. tail # None /\ file' = Append(file, tail) /\ tail' = None
          /\ UNCHANGED <<moved, now, names, record, scan>>
      BY <1>6 DEF EndLine
    <2>2. Written' = Written
      BY <2>1 DEF Written
    <2>3. OrderInv'
      BY <1>0, <1>1, <2>1, <2>2, SameOrder
    <2> QED
      BY <1>0, <1>1, <2>1, <2>2, <2>3, RecordGrows
  <1>7. CASE Tick
    <2>1. now' = now + 1 /\ UNCHANGED <<file, tail, moved, names, record, scan>>
      BY <1>7 DEF Tick
    <2>2. Written' = Written
      BY <2>1 DEF Written
    <2>3. now' \in Times /\ now' >= now
      BY <1>0, <1>1, <2>1 DEF FileInv, Times
    <2>4. OrderInv'
      BY <1>0, <2>1, <2>2, <2>3, SameOrder
    <2> QED
      BY <1>0, <1>1, <2>1, <2>2, <2>4, RecordGrows
  <1>8. CASE Rewrite
    <2>1. moved' = moved + 1 /\ UNCHANGED <<file, tail, now, names, record, scan>>
      BY <1>8 DEF Rewrite
    <2>2. Written' = Written
      BY <2>1 DEF Written
    <2>3. OrderInv'
      BY <1>0, <1>1, <2>1, <2>2, SameOrder
    <2>4. \A s, o : Reading(s, o) => Reading(s, o)'
      BY <2>2 DEF Reading
    <2>5. record' = record /\ checkpoint' = checkpoint /\ size' = size
      BY <2>1 DEF scan
    <2>6. \A n \in Nat : n <= moved => n <= moved' /\ n # moved'
      BY <1>1, <2>1
    <2>7. RecordInv'
      BY <1>0, <2>4, <2>5, <2>6 DEF RecordInv
    <2> QED
      BY <2>3, <2>7
  <1>9. CASE Discover
    <2>1. UNCHANGED disk /\ record' = record /\ size' = Fingerprint /\ checkpoint' = record
      BY <1>9 DEF Discover
    <2>2. Written' = Written /\ names' = names /\ now' = now /\ moved' = moved
      BY <2>1 DEF Written, disk
    <2>3. OrderInv'
      BY <1>0, <1>1, <2>2, SameOrder
    <2>4. \A s, o : Reading(s, o) => Reading(s, o)'
      BY <2>2 DEF Reading
    <2>5. size'[1] \in Nat /\ size'[1] <= moved'
      BY <1>1, <2>1, <2>2 DEF Fingerprint
    <2>6. RecordInv'
      BY <1>0, <2>1, <2>2, <2>4, <2>5 DEF RecordInv
    <2> QED
      BY <2>3, <2>6
  <1>10. CASE Scan
    <2>1. UNCHANGED disk
      BY <1>10 DEF Scan
    <2>2. Written' = Written /\ names' = names /\ now' = now
      BY <2>1 DEF Written, disk
    <2>3. OrderInv'
      BY <1>0, <1>1, <2>2, SameOrder
    <2> QED
      BY <1>0, <1>10, <2>3, ScanLike
  <1>11. CASE ScanFails
    <2>1. UNCHANGED <<disk, record>> /\ size' = None /\ checkpoint' = None
      BY <1>11 DEF ScanFails, Rest
    <2>2. Written' = Written /\ names' = names /\ now' = now /\ moved' = moved
      BY <2>1 DEF Written, disk
    <2>3. OrderInv'
      BY <1>0, <1>1, <2>2, SameOrder
    <2>4. \A s, o : Reading(s, o) => Reading(s, o)'
      BY <2>2 DEF Reading
    <2>5. RecordInv'
      BY <1>0, <2>1, <2>2, <2>4 DEF RecordInv
    <2> QED
      BY <2>3, <2>5
  <1>12. CASE UNCHANGED vars
    <2>1. UNCHANGED <<file, tail, moved, now, names, record, scan>>
      BY <1>12 DEF vars, disk
    <2>2. Written' = Written
      BY <2>1 DEF Written
    <2>3. OrderInv'
      BY <1>0, <1>1, <2>1, <2>2, SameOrder
    <2> QED
      BY <1>0, <1>1, <2>1, <2>2, <2>3, RecordGrows
  <1> QED
    BY <1>2, <1>3, <1>4, <1>5, <1>6, <1>7, <1>8, <1>9, <1>10, <1>11, <1>12 DEF Next

LEMMA AlwaysReading == ASSUME Regular PROVE Spec => [](ScanInv /\ ReadingInv)
  <1>1. Init => ReadingInv
    <2> SUFFICES ASSUME Init PROVE ReadingInv
      OBVIOUS
    <2>1. OrderInv
      BY FileInit, InitOrder
    <2>2. RecordInv
      BY DEF Init, RecordInv
    <2> QED
      BY <2>1, <2>2 DEF ReadingInv
  <1>2. ScanInv /\ ScanInv' /\ ReadingInv /\ [Next]_vars => ReadingInv'
    BY ReadingStep
  <1>3. Spec => []ScanInv
    BY Always
  <1> QED
    BY <1>1, <1>2, <1>3, PTL DEF Spec

\* A record that covers the file is what a reading of the whole file comes to.
LEMMA CoveredIs ==
    ASSUME Regular, ScanInv, ReadingInv, Covered, tail = None
    PROVE  /\ Reaches(record.state, file, Len(file)) /\ Orderly(file, names)
           /\ names \in BOOLEAN /\ Len(file) \in Nat
  <1>1. FileInv /\ ReadInv /\ OrderInv /\ RecordInv
    BY DEF ScanInv, ReadingInv
  <1>2. Written = file /\ names \in BOOLEAN /\ Len(file) \in Nat
    BY <1>1 DEF Written, FileInv, Lined
  <1>3. record # None /\ record.size = <<moved, Len(file), tail # None>>
    BY DEF Covered, Fingerprint
  <1>4. record.size[1] = moved /\ record.size[2] = Len(file)
    BY <1>3
  <1>5. Reading(record.state, record.offset) /\ record.offset = Len(file)
    BY <1>1, <1>3, <1>4 DEF RecordInv
  <1>6. ~Reaches(record.state, file, Len(file) + 1)
    BY <1>2 DEF Reaches
  <1>7. Reaches(record.state, file, Len(file))
    BY <1>2, <1>5, <1>6 DEF Reading
  <1>8. Orderly(file, names)
    BY <1>1, <1>2 DEF OrderInv
  <1> QED
    BY <1>2, <1>7, <1>8

\* A file that is read piece by piece, while it grows and after it was rewritten, counts
\* as if it were read at once (appendSessionUsage, bootstrapSessionUsage).
THEOREM PiecesAddUp == ASSUME Regular, Dated PROVE Spec => []AsReadAtOnce
  <1>1. ASSUME ScanInv, ReadingInv PROVE AsReadAtOnce
    <2> SUFFICES ASSUME Covered, tail = None
                 PROVE  Counted(record.state) = Counted(Forward(file))
      BY DEF AsReadAtOnce
    <2>1. Reaches(record.state, file, Len(file)) /\ Orderly(file, names) /\ names \in BOOLEAN
      BY <1>1, CoveredIs
    <2>2. PICK r : r = ForwardRun(file)[Len(file)]
      OBVIOUS
    <2>3. PICK s : s = record.state
      OBVIOUS
    <2>4. Len(file) \in 1 .. Len(file) /\ Like(s, r.state) /\ r.state.lastCumulative > 0
      BY <2>1, <2>2, <2>3 DEF Reaches
    <2>5. Known(file, names, Len(file))
      BY <2>1, <2>4, AlwaysKnown
    <2>6. r.state.thread # None
      BY <2>1, <2>2, <2>4, <2>5, KnownGood
    <2>7. r.state.lastCumulative # 0
      BY <2>4
    <2>8. Forward(file) = r.state
      BY <2>2, <2>6, <2>7, ForwardRunIs
    <2> QED
      BY <2>3, <2>4, <2>8 DEF Like, Counted
  <1> QED
    BY <1>1, AlwaysReading, PTL

RequestRun ==
    CHOOSE g : g = [n \in 0 .. Len(file) |->
                      IF n = 0 \/ file[n].meta THEN 0
                      ELSE IF ~file[n - 1].meta /\ file[n - 1].total = file[n].total
                           THEN g[n - 1]
                      ELSE g[n - 1] + file[n].last]

LEMMA RequestsIs == Requests = RequestRun[Len(file)]
  BY DEF Requests, RequestRun

\* What a reading from the beginning counts.
LEMMA CountsRequests ==
    ASSUME Regular, names = TRUE, Orderly(file, names), file # <<>>
    PROVE  ForwardRun(file)[Len(file)].state.tokens = Requests
  <1>0. PICK named \in BOOLEAN : named = TRUE /\ named = names
    OBVIOUS
  <1>1. Orderly(file, named) /\ file \in Seq(Line(named)) /\ file[1] \in MetaLines
    <2>1. Orderly(file, named)
      BY <1>0
    <2> QED
      BY <2>1 DEF Orderly
  <1>2. PICK N \in Nat : N = Len(file) /\ N >= 1
    BY <1>1
  <1>3. PICK f : f = ForwardRun(file)
    OBVIOUS
  <1>4. f[0].state.tokens = 0
    <2>1. 0 \in 0 .. N
      BY <1>2
    <2>2. f[0] = [state |-> Blank, request |-> None, saw |-> FALSE]
      BY <1>1, <1>2, <1>3, <2>1, ForwardRunType
    <2> QED
      BY <2>2 DEF Blank
  <1>5. ASSUME NEW n \in 1 .. N
        PROVE  f[n].state.tokens =
                 IF file[n].meta THEN 0
                 ELSE IF ~file[n - 1].meta /\ file[n - 1].total = file[n].total
                      THEN f[n - 1].state.tokens
                 ELSE f[n - 1].state.tokens + file[n].last
    <2>1. PICK k \in Nat : k = n - 1 /\ n = k + 1 /\ k + 1 <= N
      BY <1>2
    <2>2. PICK l : l = file[n]
      OBVIOUS
    <2>3. f[n] = ForwardLine(f[k], l) /\ l \in Line(named) /\ f[k] \in ForwardStates(named)
      BY <1>1, <1>2, <1>3, <2>1, <2>2, RunStep
    <2>4. PICK s : s = f[k].state
      OBVIOUS
    <2>5. s \in Sessions /\ s.tokens \in Nat
      BY <2>3, <2>4, Fields DEF ForwardStates, Open
    <2>6. CASE l.meta
      <3>1. l \in MetaLines
        BY <2>3, <2>6 DEF Line, CountLines
      <3>2. PICK r : r = StartSession(s, l)
        OBVIOUS
      <3>3. r.tokens = 0
        BY <2>5, <3>1, <3>2, StartType
      <3>4. f[n] = [state |-> r, request |-> None, saw |-> FALSE]
        BY <2>3, <2>4, <2>6, <3>2 DEF ForwardLine
      <3> QED
        BY <2>2, <2>6, <3>3, <3>4
    <2>7. CASE ~l.meta
      <3>1. l.total \in Nat /\ l.at \in Moments /\ l.last \in Nat /\ l.last # None
        BY <1>0, <2>3, <2>7, CountType, ScanAssumption
      <3>2. k \in 1 .. N
        <4>1. file[1].meta
          BY <1>1 DEF MetaLines
        <4>2. n # 1
          BY <2>2, <2>7, <4>1
        <4> QED
          BY <1>2, <2>1, <4>2
      <3>3. Known(file, named, k)
        BY <1>1, <1>2, <3>2, AlwaysKnown
      <3>4. s.thread # None
        BY <1>1, <1>2, <1>3, <2>4, <3>2, <3>3, KnownGood
      <3>5. f[k].request = IF file[k].meta THEN None ELSE file[k].total
        BY <1>0, <1>3, <3>3 DEF Known
      <3>6. PICK again \in BOOLEAN : again = (l.total = f[k].request)
        OBVIOUS
      <3>7. again = (~file[k].meta /\ file[k].total = l.total)
        BY <3>1, <3>5, <3>6, ScanAssumption
      <3>8. PICK r : r = CountRequest(s, l, again)
        OBVIOUS
      <3>9. PICK d : d = IF again THEN 0 ELSE l.last
        OBVIOUS
      <3>10. r.tokens = s.tokens + d
        BY <2>5, <3>1, <3>8, <3>9, RequestIs
      <3>11. f[n] = [state |-> r, request |-> l.total, saw |-> TRUE]
        BY <2>3, <2>4, <2>7, <3>1, <3>4, <3>6, <3>8 DEF ForwardLine
      <3>12. f[n].state.tokens = IF again THEN s.tokens ELSE s.tokens + l.last
        BY <2>5, <3>9, <3>10, <3>11
      <3> QED
        BY <2>1, <2>2, <2>4, <2>7, <3>7, <3>12
    <2> QED
      BY <2>6, <2>7
  <1>6. PICK h : h = [n \in 0 .. N |-> f[n].state.tokens]
    OBVIOUS
  <1>7. \A n \in 0 .. N : h[n] = f[n].state.tokens
    BY <1>6
  <1>8. h = [n \in 0 .. N |->
               IF n = 0 \/ file[n].meta THEN 0
               ELSE IF ~file[n - 1].meta /\ file[n - 1].total = file[n].total THEN h[n - 1]
               ELSE h[n - 1] + file[n].last]
    <2>1. ASSUME NEW n \in 0 .. N
          PROVE  h[n] = IF n = 0 \/ file[n].meta THEN 0
                        ELSE IF ~file[n - 1].meta /\ file[n - 1].total = file[n].total
                             THEN h[n - 1]
                        ELSE h[n - 1] + file[n].last
      <3>1. CASE n = 0
        BY <1>4, <1>7, <3>1
      <3>2. CASE n # 0
        <4>1. n \in 1 .. N /\ n - 1 \in 0 .. N
          BY <1>2, <3>2
        <4>2. h[n] = f[n].state.tokens /\ h[n - 1] = f[n - 1].state.tokens
          BY <1>7, <4>1
        <4> QED
          BY <1>5, <3>2, <4>1, <4>2
      <3> QED
        BY <3>1, <3>2
    <2> QED
      BY <1>6, <2>1
  <1>9. PICK g : g = RequestRun
    OBVIOUS
  <1>10. g = [n \in 0 .. N |->
                IF n = 0 \/ file[n].meta THEN 0
                ELSE IF ~file[n - 1].meta /\ file[n - 1].total = file[n].total THEN g[n - 1]
                ELSE g[n - 1] + file[n].last]
    BY <1>2, <1>8, <1>9 DEF RequestRun
  <1>11. \A n \in 0 .. N : g[n] =
                IF n = 0 \/ file[n].meta THEN 0
                ELSE IF ~file[n - 1].meta /\ file[n - 1].total = file[n].total THEN g[n - 1]
                ELSE g[n - 1] + file[n].last
    BY <1>10
  <1> DEFINE T == {n \in Nat : n <= N => g[n] = f[n].state.tokens}
  <1>12. 0 \in T
    BY <1>2, <1>4, <1>11
  <1>13. ASSUME NEW n \in Nat, n \in T PROVE n + 1 \in T
    <2> SUFFICES ASSUME n + 1 <= N PROVE g[n + 1] = f[n + 1].state.tokens
      OBVIOUS
    <2>1. n + 1 \in 0 .. N /\ n + 1 \in 1 .. N /\ (n + 1) - 1 = n /\ n + 1 # 0
      BY <1>2
    <2>2. g[n] = f[n].state.tokens
      BY <1>13, <2>1
    <2>3. PICK m \in 1 .. N : m = n + 1
      BY <2>1
    <2>4. m - 1 = n /\ m \in 0 .. N /\ m # 0
      BY <2>1, <2>3
    <2> QED
      BY <1>5, <1>11, <2>2, <2>3, <2>4
  <1>14. Nat \subseteq T
    <2> HIDE DEF T
    <2> QED
      BY <1>12, <1>13, Inductive
  <1> QED
    BY <1>2, <1>3, <1>9, <1>14, RequestsIs

\* Every request is counted once, however the file is read (meaningfulRequestTokens).
THEOREM RequestsCountOnce == ASSUME Regular PROVE Spec => []EveryRequestOnce
  <1>1. ASSUME ScanInv, ReadingInv PROVE EveryRequestOnce
    <2> SUFFICES ASSUME Covered, tail = None, names PROVE record.state.tokens = Requests
      BY DEF EveryRequestOnce
    <2>1. Reaches(record.state, file, Len(file)) /\ Orderly(file, names) /\ names = TRUE
      BY <1>1, CoveredIs
    <2>2. file # <<>>
      <3>1. Len(file) \in 1 .. Len(file)
        BY <2>1 DEF Reaches
      <3> QED
        BY <3>1
    <2>3. record.state.tokens = ForwardRun(file)[Len(file)].state.tokens
      BY <2>1 DEF Reaches, Like
    <2> QED
      BY <2>1, <2>2, <2>3, CountsRequests
  <1> QED
    BY <1>1, AlwaysReading, PTL
=============================================================================
