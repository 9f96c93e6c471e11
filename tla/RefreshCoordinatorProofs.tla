----------------------- MODULE RefreshCoordinatorProofs -----------------------
(***************************************************************************)
(* Proofs about QuotaStore and RefreshCoordinator for any accounts,        *)
(* callers, loops, commands and bounds: what the store keeps by itself and *)
(* under the coordinator, that one refresh runs at a time, that the        *)
(* rotation reaches every account, and that an automatic switch leaves the *)
(* account it was made for.                                                *)
(***************************************************************************)
EXTENDS RefreshCoordinator, FiniteSetTheorems, WellFoundedInduction, TLAPS

-----------------------------------------------------------------------------
(* Type correctness *)

LEMMA StateType ==
    ASSUME StoreTypeOK, NEW a \in Accounts
    PROVE  Known(a) \in States
  BY DEF StoreTypeOK, Known, States, emptyState

LEMMA ReconciledType ==
    ASSUME StoreTypeOK
    PROVE  Reconciled \in [Accounts -> States \cup {None}]
  <1> SUFFICES ASSUME NEW a \in Accounts
               PROVE  Reconciled[a] \in States \cup {None}
    BY DEF Reconciled
  <1> QED
    BY StateType DEF StoreTypeOK, Reconciled, States

LEMMA StoreTypeInit == ASSUME StoreInit PROVE StoreTypeOK
  BY DEF StoreInit, StoreTypeOK

\* What a call of refreshQuota makes of the generations and the states.
Asked(targets) == targets \cap ready
Raised(targets) ==
    [a \in Accounts |-> generations[a] + (IF a \in Removed \cup Asked(targets) THEN 1 ELSE 0)]
Begun(a, targets) ==
    [(IF Reconciled[a] = None THEN emptyState ELSE Reconciled[a]) EXCEPT
        !.loading = TRUE, !.relogin = FALSE, !.attempt = Raised(targets)[a]]
Request(c, a, targets) ==
    [call |-> c, of |-> a, gen |-> Raised(targets)[a], asked |-> FALSE, cached |-> 0]

LEMMA RaisedType ==
    ASSUME StoreTypeOK, NEW targets \in SUBSET Accounts
    PROVE  /\ Raised(targets) \in [Accounts -> Nat]
           /\ \A a \in Accounts :
                 /\ Raised(targets)[a] = generations[a]
                       + (IF a \in Removed \cup Asked(targets) THEN 1 ELSE 0)
                 /\ generations[a] \in Nat
  <1> SUFFICES ASSUME NEW a \in Accounts
               PROVE  generations[a] \in Nat
                      /\ generations[a] + (IF a \in Removed \cup Asked(targets) THEN 1 ELSE 0) \in Nat
    BY DEF Raised
  <1>1. generations[a] \in Nat
    BY DEF StoreTypeOK
  <1> QED
    BY <1>1

LEMMA RefreshEffect ==
    ASSUME StoreTypeOK, NEW c \in Callers, NEW targets \in SUBSET Accounts,
           RefreshQuota(c, targets)
    PROVE  /\ ~disposed
           /\ generations' = Raised(targets)
           /\ states' = [a \in Accounts |-> IF a \notin Asked(targets) THEN Reconciled[a]
                                            ELSE Begun(a, targets)]
           /\ queries' = queries \cup {Request(c, a, targets) : a \in Asked(targets)}
           /\ UNCHANGED <<ready, clock, cache, disposed>>
  BY Zenon DEF RefreshQuota, Raised, Asked, Begun, Request

LEMMA BegunType ==
    ASSUME StoreTypeOK, NEW a \in Accounts, NEW targets \in SUBSET Accounts
    PROVE  /\ Begun(a, targets) \in States
           /\ Begun(a, targets).loading /\ ~Begun(a, targets).relogin
           /\ Begun(a, targets).attempt = Raised(targets)[a]
  <1>1. (IF Reconciled[a] = None THEN emptyState ELSE Reconciled[a]) \in States
    BY ReconciledType DEF emptyState, States
  <1>2. Raised(targets)[a] \in Nat
    BY RaisedType
  <1> QED
    BY <1>1, <1>2 DEF Begun, States

LEMMA RefreshType ==
    ASSUME StoreTypeOK, NEW c \in Callers, NEW targets \in SUBSET Accounts,
           RefreshQuota(c, targets)
    PROVE  StoreTypeOK'
  <1>1. generations' \in [Accounts -> Nat]
    BY RefreshEffect, RaisedType
  <1>2. states' \in [Accounts -> States \cup {None}]
    BY RefreshEffect, ReconciledType, BegunType
  <1>3. queries' \subseteq Queries
    <2> SUFFICES ASSUME NEW a \in Asked(targets)
                 PROVE  Request(c, a, targets) \in Queries
      BY RefreshEffect DEF StoreTypeOK
    <2> QED
      BY RaisedType DEF Request, Queries, Asked
  <1> QED
    BY <1>1, <1>2, <1>3, RefreshEffect DEF StoreTypeOK

\* What an answer leaves in the store: the state of its account is replaced if it
\* answers the last request.
LEMMA AnswerEffect ==
    ASSUME StoreTypeOK, NEW q \in queries, Answer(q)
    PROVE  /\ q \in Queries
           /\ clock' \in Nat /\ cache' \in [Accounts -> Nat]
           /\ queries' = queries \ {q}
           /\ UNCHANGED <<ready, generations, disposed>>
           /\ \E s \in States : /\ s.attempt = q.gen /\ ~s.loading
                               /\ Apply(q, s)
  <1>1. q \in Queries /\ Known(q.of) \in States /\ clock \in Nat
        /\ cache \in [Accounts -> Nat]
    BY StateType DEF StoreTypeOK, Queries
  <1>2. q.of \in Accounts /\ q.gen \in Nat /\ q.cached \in Nat /\ cache[q.of] \in Nat
    BY <1>1 DEF Queries
  <1>3. CASE AnswerFromNetwork(q)
    <2>1. PICK relogin \in BOOLEAN :
             Apply(q, [info |-> clock + 1, at |-> clock + 1, loading |-> FALSE,
                       relogin |-> relogin, attempt |-> q.gen])
      BY <1>3 DEF AnswerFromNetwork
    <2>2. [info |-> clock + 1, at |-> clock + 1, loading |-> FALSE,
           relogin |-> relogin, attempt |-> q.gen] \in States
      BY <1>1, <1>2 DEF States
    <2>3. clock' \in Nat /\ cache' \in [Accounts -> Nat]
      BY <1>1, <1>3 DEF AnswerFromNetwork
    <2> QED
      BY <1>1, <2>1, <2>2, <2>3 DEF Answer
  <1>4. CASE AnswerFromCache(q)
    <2>1. PICK info \in {q.cached, cache[q.of]} \ {0}, relogin \in BOOLEAN :
             Apply(q, [info |-> info, at |-> cache[q.of], loading |-> FALSE,
                       relogin |-> relogin, attempt |-> q.gen])
             /\ UNCHANGED <<clock, cache>>
      BY <1>4 DEF AnswerFromCache
    <2>2. [info |-> info, at |-> cache[q.of], loading |-> FALSE,
           relogin |-> relogin, attempt |-> q.gen] \in States
      BY <1>2 DEF States
    <2> QED
      BY <1>1, <2>1, <2>2 DEF Answer
  <1>5. CASE AnswerWithError(q)
    <2>1. PICK relogin \in BOOLEAN :
             Apply(q, [Known(q.of) EXCEPT !.loading = FALSE, !.relogin = relogin,
                                          !.attempt = q.gen])
             /\ UNCHANGED <<clock, cache>>
      BY <1>5 DEF AnswerWithError
    <2> DEFINE s == [Known(q.of) EXCEPT !.loading = FALSE, !.relogin = relogin,
                                        !.attempt = q.gen]
    <2>2. s \in States /\ s.attempt = q.gen /\ ~s.loading
      BY <1>1, <1>2 DEF States
    <2>3. Apply(q, s)
      BY <2>1
    <2> QED
      BY <1>1, <2>1, <2>2, <2>3 DEF Answer
  <1> QED
    BY <1>3, <1>4, <1>5 DEF Answer

LEMMA AnswerType ==
    ASSUME StoreTypeOK, NEW q \in queries, Answer(q)
    PROVE  StoreTypeOK'
  <1>1. PICK s \in States : Apply(q, s)
    BY AnswerEffect
  <1>2. states' \in [Accounts -> States \cup {None}]
    BY <1>1, AnswerEffect DEF Apply, StoreTypeOK, Queries
  <1> QED
    BY <1>2, AnswerEffect DEF StoreTypeOK

\* Asking marks one request.
LEMMA AskEffect ==
    ASSUME StoreTypeOK, NEW q \in queries, Ask(q)
    PROVE  \E p \in Queries :
              /\ p.call = q.call /\ p.of = q.of /\ p.gen = q.gen /\ p.asked
              /\ ~q.asked
              /\ queries' = (queries \ {q}) \cup {p}
              /\ UNCHANGED <<ready, clock, cache, states, generations, disposed>>
  <1> DEFINE p == [q EXCEPT !.asked = TRUE, !.cached = cache[q.of]]
  <1>1. q \in Queries /\ cache[q.of] \in Nat
    BY DEF StoreTypeOK, Queries
  <1>2. p \in Queries /\ p.call = q.call /\ p.of = q.of /\ p.gen = q.gen /\ p.asked
    BY <1>1 DEF Queries
  <1> QED
    BY <1>2 DEF Ask

\* The mark of a re-login.
LEMMA MarkEffect ==
    ASSUME StoreTypeOK, NEW a \in Accounts, MarkReloginRequired(a)
    PROVE  /\ ~disposed
           /\ generations' = [generations EXCEPT ![a] = @ + 1]
           /\ \E s \in States : /\ ~s.loading /\ s.relogin
                               /\ s.attempt = Known(a).attempt
                               /\ states' = [states EXCEPT ![a] = s]
           /\ UNCHANGED <<ready, clock, cache, queries, disposed>>
  <1> DEFINE s == [Known(a) EXCEPT !.loading = FALSE, !.relogin = TRUE]
  <1>1. s \in States /\ ~s.loading /\ s.relogin /\ s.attempt = Known(a).attempt
    BY StateType DEF States
  <1>2. states' = [states EXCEPT ![a] = s]
    BY DEF MarkReloginRequired
  <1> QED
    BY <1>1, <1>2 DEF MarkReloginRequired

LEMMA StoreTypeStep ==
    ASSUME StoreTypeOK, [StoreNext]_storeVars
    PROVE  StoreTypeOK'
  <1>1. CASE ReconcileAccounts
    BY <1>1, ReconciledType DEF ReconcileAccounts, StoreTypeOK
  <1>2. CASE Dispose
    BY <1>2 DEF Dispose, StoreTypeOK
  <1>3. ASSUME NEW q \in queries, Ask(q) PROVE StoreTypeOK'
    BY <1>3, AskEffect DEF StoreTypeOK
  <1>4. ASSUME NEW q \in queries, Answer(q) PROVE StoreTypeOK'
    BY <1>4, AnswerType
  <1>5. ASSUME NEW a \in Accounts, OtherWindow(a) PROVE StoreTypeOK'
    BY <1>5 DEF OtherWindow, StoreTypeOK
  <1>6. ASSUME NEW a \in Accounts, AccountsChange(a) PROVE StoreTypeOK'
    BY <1>6 DEF AccountsChange, StoreTypeOK
  <1>7. ASSUME NEW a \in Accounts, MarkReloginRequired(a) PROVE StoreTypeOK'
    BY <1>7, MarkEffect DEF StoreTypeOK
  <1>8. ASSUME NEW c \in Callers, NEW targets \in SUBSET Accounts,
               RefreshQuota(c, targets)
        PROVE  StoreTypeOK'
    BY <1>8, RefreshType
  <1>9. CASE UNCHANGED storeVars
    BY <1>9 DEF storeVars, StoreTypeOK
  <1> QED
    BY <1>1, <1>2, <1>3, <1>4, <1>5, <1>6, <1>7, <1>8, <1>9
       DEF StoreNext, StoreEvents

\* The store keeps its types.
THEOREM StoreTypeCorrect == StoreSpec => []StoreTypeOK
  <1> QED
    BY StoreTypeInit, StoreTypeStep, PTL DEF StoreSpec

-----------------------------------------------------------------------------
(* Generations *)

\* No request is newer than the generation of its account, and the one that is as
\* new has a state to answer into; a state is never newer than that generation.
GenerationInv ==
    /\ \A q \in queries : q.gen > 0 /\ (disposed \/ q.gen <= generations[q.of])
    /\ \A p, q \in queries : p.of = q.of /\ p.gen = q.gen => p = q
    /\ \A q \in queries : IsCurrent(q) => /\ states[q.of] # None
                                          /\ states[q.of].relogin
                                                => q.gen > states[q.of].attempt
    /\ \A a \in Accounts : states[a] # None => states[a].attempt <= generations[a]
    /\ disposed => \A a \in Accounts : states[a] = None /\ generations[a] = 0

StoreInv == StoreTypeOK /\ GenerationInv /\ LoadingIsPending

LEMMA InvInit == ASSUME StoreInit PROVE StoreInv
  BY StoreTypeInit DEF StoreInit, StoreInv, GenerationInv, LoadingIsPending, Known, emptyState

\* Reconciling keeps, hydrates or removes a state.
LEMMA ReconciledKeeps ==
    ASSUME StoreInv, NEW a \in Accounts
    PROVE  /\ a \notin Removed /\ states[a] # None => Reconciled[a] # None
           /\ a \in Removed => Reconciled[a] = None
           /\ a \notin ready => Reconciled[a] = None
           /\ Reconciled[a] # None => Reconciled[a] \in States
           /\ Reconciled[a] # None =>
                 /\ Reconciled[a].attempt <= generations[a]
                 /\ Reconciled[a].loading => states[a] # None /\ states[a].loading
                 /\ Reconciled[a].relogin => states[a] = Reconciled[a]
                 /\ states[a] # None => Reconciled[a].attempt = states[a].attempt
                 /\ states[a] # None /\ states[a].relogin /\ ~Reconciled[a].relogin
                       => Hydrates(a)
  <1>1. CASE a \notin ready
    BY <1>1 DEF Reconciled, Removed
  <1>2. CASE a \in ready /\ Hydrates(a)
    <2>1. Reconciled[a] = [Known(a) EXCEPT !.info = cache[a], !.at = cache[a],
                                           !.relogin = FALSE]
      BY <1>2 DEF Reconciled
    <2>2. Known(a) \in States /\ cache[a] \in Nat
      BY StateType DEF StoreInv, StoreTypeOK
    <2>3. Known(a).attempt <= generations[a]
      BY DEF StoreInv, GenerationInv, Known, emptyState, StoreTypeOK
    <2>4. ~Known(a).loading
      BY <1>2 DEF Hydrates
    <2>5. Reconciled[a] \in States
      BY <2>1, <2>2 DEF States
    <2>6. Reconciled[a] # None /\ ~Reconciled[a].relogin
          /\ Reconciled[a].attempt = Known(a).attempt /\ ~Reconciled[a].loading
      BY <2>1, <2>2, <2>4, <2>5, NullAssumption DEF States
    <2> QED
      BY <1>2, <2>3, <2>5, <2>6 DEF Known, Removed
  <1>3. CASE a \in ready /\ ~Hydrates(a)
    <2>1. Reconciled[a] = states[a]
      BY <1>3 DEF Reconciled
    <2> QED
      BY <1>3, <2>1 DEF Removed, StoreInv, StoreTypeOK, GenerationInv
  <1> QED
    BY <1>1, <1>2, <1>3, ReconciledType DEF StoreInv

LEMMA InvReconcile == ASSUME StoreInv, ReconcileAccounts PROVE StoreInv'
  <1> USE DEF StoreInv, GenerationInv
  <1>1. StoreTypeOK'
    BY StoreTypeStep DEF StoreNext, StoreEvents
  <1>2. /\ ~disposed /\ ~disposed' /\ queries' = queries
        /\ \A a \in Accounts :
              /\ states'[a] = Reconciled[a]
              /\ generations[a] \in Nat
              /\ generations'[a] = generations[a] + (IF a \in Removed THEN 1 ELSE 0)
    BY DEF ReconcileAccounts, Reconciled, StoreTypeOK
  <1>3. \A q \in queries : q.of \in Accounts /\ q.gen \in Nat
    BY DEF StoreTypeOK, Queries
  <1>4. \A q \in queries' : q.gen > 0 /\ (disposed' \/ q.gen <= generations'[q.of])
    BY <1>2, <1>3
  <1>5. ASSUME NEW q \in queries', IsCurrent(q)'
        PROVE  /\ q.of \notin Removed /\ IsCurrent(q)
               /\ states'[q.of] # None
               /\ states'[q.of].relogin => q.gen > states'[q.of].attempt
    <2>1. q.of \notin Removed /\ IsCurrent(q)
      BY <1>2, <1>3, <1>5 DEF IsCurrent
    <2> QED
      BY <1>2, <1>3, <2>1, ReconciledKeeps
  <1>6. \A a \in Accounts : states'[a] # None => states'[a].attempt <= generations'[a]
    <2> SUFFICES ASSUME NEW a \in Accounts, states'[a] # None
                 PROVE  states'[a].attempt <= generations'[a]
      OBVIOUS
    <2>1. a \notin Removed
      BY <1>2, ReconciledKeeps
    <2> QED
      BY <1>2, <2>1, ReconciledKeeps
  <1>7. LoadingIsPending'
    <2> SUFFICES ASSUME NEW a \in Accounts, Known(a)'.loading
                 PROVE  \E q \in queries' : q.of = a /\ IsCurrent(q)'
      BY DEF LoadingIsPending
    <2>1. states'[a] # None /\ states'[a].loading
      BY DEF Known, emptyState
    <2>2. a \notin Removed /\ states[a] # None /\ states[a].loading
      BY <1>2, <2>1, ReconciledKeeps
    <2>3. PICK q \in queries : q.of = a /\ IsCurrent(q)
      BY <2>2 DEF LoadingIsPending, Known
    <2> QED
      BY <1>2, <2>2, <2>3 DEF IsCurrent
  <1> QED
    BY <1>1, <1>2, <1>4, <1>5, <1>6, <1>7

LEMMA InvRefresh ==
    ASSUME StoreInv, NEW c \in Callers, NEW targets \in SUBSET Accounts,
           RefreshQuota(c, targets)
    PROVE  StoreInv'
  <1> USE DEF StoreInv, GenerationInv
  <1>1. StoreTypeOK'
    BY RefreshType
  <1>2. /\ ~disposed /\ ~disposed'
        /\ queries' = queries \cup {Request(c, a, targets) : a \in Asked(targets)}
        /\ \A a \in Accounts :
              /\ generations[a] \in Nat
              /\ generations'[a] = Raised(targets)[a]
              /\ generations'[a] = generations[a]
                    + (IF a \in Removed \cup Asked(targets) THEN 1 ELSE 0)
              /\ states'[a] = IF a \notin Asked(targets) THEN Reconciled[a]
                              ELSE Begun(a, targets)
    BY RefreshEffect, RaisedType
  <1>3. \A q \in queries : q.of \in Accounts /\ q.gen \in Nat
    BY DEF StoreTypeOK, Queries
  <1>4. \A a \in Asked(targets) :
           LET r == Request(c, a, targets)
           IN  /\ a \in Accounts
               /\ r.of = a /\ r.gen = generations[a] + 1 /\ generations'[a] = r.gen
               /\ states'[a] \in States /\ states'[a].loading /\ ~states'[a].relogin
               /\ states'[a].attempt = r.gen
    BY <1>2, BegunType DEF Request, Asked
  <1>5. \A q \in queries' : q.gen > 0 /\ (disposed' \/ q.gen <= generations'[q.of])
    <2> SUFFICES ASSUME NEW q \in queries'
                 PROVE  q.gen > 0 /\ q.gen <= generations'[q.of]
      OBVIOUS
    <2>1. CASE q \in queries
      BY <1>2, <1>3, <2>1
    <2>2. CASE q \notin queries
      BY <1>2, <1>4, <2>2
    <2> QED
      BY <2>1, <2>2
  <1>6. \A p, q \in queries' : p.of = q.of /\ p.gen = q.gen => p = q
    <2> SUFFICES ASSUME NEW p \in queries', NEW q \in queries',
                        p.of = q.of, p.gen = q.gen
                 PROVE  p = q
      OBVIOUS
    <2>1. \A r \in queries : r.gen <= generations[r.of]
      BY <1>2
    <2>2. \A r \in queries' \ queries : \E a \in Asked(targets) : r = Request(c, a, targets)
      BY <1>2
    <2>3. \A r \in queries' \ queries : r.of \in Accounts /\ r.gen = generations[r.of] + 1
      BY <1>4, <2>2
    <2>4. CASE p \in queries /\ q \in queries
      BY <2>4
    <2>5. CASE p \notin queries /\ q \notin queries
      BY <1>4, <2>2, <2>5
    <2>6. CASE (p \in queries) # (q \in queries)
      BY <1>2, <1>3, <2>1, <2>3, <2>6
    <2> QED
      BY <2>4, <2>5, <2>6
  <1>7. ASSUME NEW q \in queries', IsCurrent(q)'
        PROVE  states'[q.of] # None /\ (states'[q.of].relogin => q.gen > states'[q.of].attempt)
    <2>1. CASE q.of \in Asked(targets)
      BY <1>4, <2>1, NullAssumption
    <2>2. CASE q.of \notin Asked(targets)
      <3>1. q \in queries
        BY <1>2, <1>4, <2>2
      <3>2. q.of \notin Removed /\ IsCurrent(q)
        BY <1>2, <1>3, <1>7, <2>2, <3>1 DEF IsCurrent
      <3> QED
        BY <1>2, <1>3, <2>2, <3>1, <3>2, ReconciledKeeps
    <2> QED
      BY <2>1, <2>2
  <1>8. \A a \in Accounts : states'[a] # None => states'[a].attempt <= generations'[a]
    <2> SUFFICES ASSUME NEW a \in Accounts, states'[a] # None
                 PROVE  states'[a].attempt <= generations'[a]
      OBVIOUS
    <2>1. CASE a \in Asked(targets)
      BY <1>2, <1>4, <2>1
    <2>2. CASE a \notin Asked(targets)
      <3>1. a \notin Removed
        BY <1>2, <2>2, ReconciledKeeps
      <3> QED
        BY <1>2, <2>2, <3>1, ReconciledKeeps
    <2> QED
      BY <2>1, <2>2
  <1>9. LoadingIsPending'
    <2> SUFFICES ASSUME NEW a \in Accounts, Known(a)'.loading
                 PROVE  \E q \in queries' : q.of = a /\ IsCurrent(q)'
      BY DEF LoadingIsPending
    <2>1. states'[a] # None /\ states'[a].loading
      BY DEF Known, emptyState
    <2>2. CASE a \in Asked(targets)
      <3>1. Request(c, a, targets) \in queries'
        BY <1>2, <2>2
      <3> QED
        BY <1>4, <2>2, <3>1 DEF IsCurrent
    <2>3. CASE a \notin Asked(targets)
      <3>1. a \notin Removed /\ states[a] # None /\ states[a].loading
        BY <1>2, <2>1, <2>3, ReconciledKeeps
      <3>2. PICK q \in queries : q.of = a /\ IsCurrent(q)
        BY <3>1 DEF LoadingIsPending, Known
      <3> QED
        BY <1>2, <2>3, <3>1, <3>2 DEF IsCurrent
    <2> QED
      BY <2>2, <2>3
  <1> QED
    BY <1>1, <1>2, <1>5, <1>6, <1>7, <1>8, <1>9

LEMMA InvAnswer == ASSUME StoreInv, NEW q \in queries, Answer(q) PROVE StoreInv'
  <1> USE DEF StoreInv, GenerationInv
  <1>1. StoreTypeOK'
    BY AnswerType
  <1>2. /\ queries' = queries \ {q} /\ generations' = generations /\ disposed' = disposed
        /\ q \in Queries /\ q.of \in Accounts
    BY AnswerEffect DEF Queries
  <1>3. \A p \in queries' : IsCurrent(p)' <=> IsCurrent(p)
    BY <1>2 DEF IsCurrent
  <1>4. PICK s \in States : s.attempt = q.gen /\ ~s.loading /\ Apply(q, s)
    BY AnswerEffect
  <1>5. CASE ~IsCurrent(q)
    <2>1. states' = states
      BY <1>4, <1>5 DEF Apply
    <2>2. LoadingIsPending'
      <3> SUFFICES ASSUME NEW a \in Accounts, Known(a)'.loading
                   PROVE  \E p \in queries' : p.of = a /\ IsCurrent(p)'
        BY DEF LoadingIsPending
      <3>1. PICK p \in queries : p.of = a /\ IsCurrent(p)
        BY <2>1 DEF LoadingIsPending, Known
      <3> QED
        BY <1>2, <1>3, <1>5, <3>1
    <2> QED
      BY <1>1, <1>2, <1>3, <2>1, <2>2
  <1>6. CASE IsCurrent(q)
    <2>1. /\ states'[q.of] = s
          /\ \A a \in Accounts \ {q.of} : states'[a] = states[a]
      BY <1>2, <1>4, <1>6 DEF Apply, StoreTypeOK
    <2>2. \A p \in queries' : IsCurrent(p) => p.of # q.of
      BY <1>2, <1>6 DEF IsCurrent
    <2>3. \A p \in queries : p.of \in Accounts
      BY DEF StoreTypeOK, Queries
    <2>4. ~disposed
      BY <1>2, <1>6 DEF IsCurrent
    <2>5. s.attempt <= generations[q.of]
      BY <1>2, <1>4, <2>4
    <2>6. LoadingIsPending'
      <3> SUFFICES ASSUME NEW a \in Accounts, Known(a)'.loading
                   PROVE  \E p \in queries' : p.of = a /\ IsCurrent(p)'
        BY DEF LoadingIsPending
      <3>1. a # q.of
        BY <1>4, <2>1 DEF Known, emptyState
      <3>2. Known(a).loading
        BY <2>1, <3>1 DEF Known
      <3>3. PICK p \in queries : p.of = a /\ IsCurrent(p)
        BY <3>2 DEF LoadingIsPending
      <3> QED
        BY <1>2, <1>3, <3>1, <3>3
    <2>7. \A p \in queries' : IsCurrent(p)' =>
              /\ states'[p.of] # None
              /\ states'[p.of].relogin => p.gen > states'[p.of].attempt
      BY <1>2, <1>3, <2>1, <2>2, <2>3
    <2>8. \A a \in Accounts : states'[a] # None => states'[a].attempt <= generations'[a]
      BY <1>2, <2>1, <2>5
    <2> QED
      BY <1>1, <1>2, <2>4, <2>6, <2>7, <2>8
  <1> QED
    BY <1>5, <1>6

LEMMA InvAsk == ASSUME StoreInv, NEW q \in queries, Ask(q) PROVE StoreInv'
  <1> USE DEF StoreInv, GenerationInv
  <1>1. StoreTypeOK'
    BY StoreTypeStep DEF StoreNext, StoreEvents
  <1>2. PICK p \in Queries :
           /\ p.call = q.call /\ p.of = q.of /\ p.gen = q.gen /\ p.asked
           /\ queries' = (queries \ {q}) \cup {p}
           /\ UNCHANGED <<ready, clock, cache, states, generations, disposed>>
    BY AskEffect
  <1>3. IsCurrent(p) <=> IsCurrent(q)
    BY <1>2 DEF IsCurrent
  <1>4. \A r \in queries' : IsCurrent(r)' <=> IsCurrent(r)
    BY <1>2 DEF IsCurrent
  <1>5. LoadingIsPending'
    <2> SUFFICES ASSUME NEW a \in Accounts, Known(a)'.loading
                 PROVE  \E r \in queries' : r.of = a /\ IsCurrent(r)'
      BY DEF LoadingIsPending
    <2>1. PICK r \in queries : r.of = a /\ IsCurrent(r)
      BY <1>2 DEF LoadingIsPending, Known
    <2> QED
      BY <1>2, <1>3, <1>4, <2>1
  <1> QED
    BY <1>1, <1>2, <1>3, <1>4, <1>5

LEMMA InvMark ==
    ASSUME StoreInv, NEW a \in Accounts, MarkReloginRequired(a) PROVE StoreInv'
  <1> USE DEF StoreInv, GenerationInv
  <1>1. StoreTypeOK'
    BY StoreTypeStep, MarkEffect DEF StoreTypeOK
  <1>2. PICK s \in States : /\ ~s.loading /\ s.relogin /\ s.attempt = Known(a).attempt
                            /\ states' = [states EXCEPT ![a] = s]
    BY MarkEffect
  <1>3. /\ ~disposed /\ ~disposed' /\ queries' = queries
        /\ generations[a] \in Nat /\ generations'[a] = generations[a] + 1
        /\ states'[a] = s
        /\ \A b \in Accounts \ {a} : states'[b] = states[b] /\ generations'[b] = generations[b]
    BY <1>2, MarkEffect DEF StoreTypeOK
  <1>4. \A q \in queries : q.of \in Accounts /\ q.gen \in Nat
    BY DEF StoreTypeOK, Queries
  <1>5. \A q \in queries : IsCurrent(q)' => IsCurrent(q) /\ q.of # a
    BY <1>3, <1>4 DEF IsCurrent
  <1>6. \A q \in queries : IsCurrent(q) /\ q.of # a => IsCurrent(q)'
    BY <1>3, <1>4 DEF IsCurrent
  <1>7. Known(a).attempt <= generations[a]
    BY <1>3 DEF Known, emptyState
  <1>8. LoadingIsPending'
    <2> SUFFICES ASSUME NEW b \in Accounts, Known(b)'.loading
                 PROVE  \E q \in queries' : q.of = b /\ IsCurrent(q)'
      BY DEF LoadingIsPending
    <2>1. b # a
      BY <1>2, <1>3 DEF Known, emptyState
    <2>2. Known(b).loading
      BY <1>3, <2>1 DEF Known
    <2>3. PICK q \in queries : q.of = b /\ IsCurrent(q)
      BY <2>2 DEF LoadingIsPending
    <2> QED
      BY <1>3, <1>6, <2>1, <2>3
  <1>9. \A q \in queries' : q.gen > 0 /\ (disposed' \/ q.gen <= generations'[q.of])
    BY <1>3, <1>4
  <1>10. \A b \in Accounts : states'[b] # None => states'[b].attempt <= generations'[b]
    <2> SUFFICES ASSUME NEW b \in Accounts, states'[b] # None
                 PROVE  states'[b].attempt <= generations'[b]
      OBVIOUS
    <2>1. CASE b = a
      <3>1. s.attempt \in Nat /\ s.attempt <= generations[a]
        BY <1>2, <1>7 DEF States
      <3> QED BY <1>3, <2>1, <3>1
    <2>2. CASE b # a
      BY <1>3, <2>2
    <2> QED BY <2>1, <2>2
  <1>11. \A q \in queries' : IsCurrent(q)' =>
            /\ states'[q.of] # None
            /\ states'[q.of].relogin => q.gen > states'[q.of].attempt
    BY <1>3, <1>4, <1>5
  <1> QED
    BY <1>1, <1>3, <1>8, <1>9, <1>10, <1>11

LEMMA InvStep == ASSUME StoreInv, [StoreNext]_storeVars PROVE StoreInv'
  <1> USE DEF StoreInv, GenerationInv, LoadingIsPending, IsCurrent, Known
  <1>1. StoreTypeOK'
    BY StoreTypeStep
  <1>2. CASE Dispose
    <2>1. \A q \in queries : q.of \in Accounts
      BY DEF StoreTypeOK, Queries
    <2> QED
      BY <1>1, <1>2, <2>1 DEF Dispose, emptyState
  <1>3. ASSUME NEW a \in Accounts, OtherWindow(a) \/ AccountsChange(a) PROVE StoreInv'
    BY <1>1, <1>3 DEF OtherWindow, AccountsChange
  <1>4. CASE UNCHANGED storeVars
    BY <1>1, <1>4 DEF storeVars
  <1> QED
    BY <1>2, <1>3, <1>4, InvReconcile, InvRefresh, InvAnswer, InvAsk, InvMark
       DEF StoreNext, StoreEvents

LEMMA Invariant == StoreSpec => []StoreInv
  <1> QED
    BY InvInit, InvStep, PTL DEF StoreSpec

\* Whatever overlaps, an account that is shown as loading has a request under way
\* whose answer will be taken.
THEOREM StoreNoneSpins == StoreSpec => []LoadingIsPending
  <1>1. StoreInv => LoadingIsPending
    BY DEF StoreInv
  <1> QED
    BY <1>1, Invariant, PTL

-----------------------------------------------------------------------------
(* What a step may not do *)

\* The two properties, for one account and one step.
Supersedes(a) ==
    /\ states[a] # None /\ states'[a] # None => states'[a].attempt >= states[a].attempt
    /\ states[a] = None /\ (\E q \in queries \ queries' : q.asked /\ q.of = a)
          => states'[a] = None

KeepsMark(a) ==
    Known(a).relogin /\ states'[a] # None /\ ~states'[a].relogin
        => states'[a].attempt > Known(a).attempt \/ Hydrates(a)

LEMMA ReconcileKeeps ==
    ASSUME StoreInv, ReconcileAccounts, NEW a \in Accounts
    PROVE  Supersedes(a) /\ KeepsMark(a)
  <1>1. queries' = queries /\ states'[a] = Reconciled[a]
    BY DEF ReconcileAccounts, Reconciled
  <1>2. states[a] \in States \cup {None} /\ Reconciled[a] \in States \cup {None}
    BY ReconciledType DEF StoreInv, StoreTypeOK
  <1> QED
    BY <1>1, <1>2, ReconciledKeeps DEF Supersedes, KeepsMark, Known, emptyState, States

LEMMA RefreshKeeps ==
    ASSUME StoreInv, NEW c \in Callers, NEW targets \in SUBSET Accounts,
           RefreshQuota(c, targets), NEW a \in Accounts
    PROVE  Supersedes(a) /\ KeepsMark(a)
  <1> USE DEF StoreInv
  <1>1. /\ queries \subseteq queries'
        /\ states'[a] = IF a \notin Asked(targets) THEN Reconciled[a] ELSE Begun(a, targets)
    BY RefreshEffect
  <1>2. states[a] \in States \cup {None} /\ Reconciled[a] \in States \cup {None}
    BY ReconciledType DEF StoreTypeOK
  <1>3. CASE a \notin Asked(targets)
    BY <1>1, <1>2, <1>3, ReconciledKeeps DEF Supersedes, KeepsMark, Known, emptyState, States
  <1>4. CASE a \in Asked(targets)
    <2>1. states'[a].attempt = generations[a] + 1 /\ generations[a] \in Nat
      BY <1>1, <1>4, BegunType, RaisedType
    <2>2. states[a] # None => states[a].attempt <= generations[a] /\ states[a].attempt \in Nat
      BY <1>2 DEF GenerationInv, States
    <2> QED
      BY <1>1, <2>1, <2>2 DEF Supersedes, KeepsMark, Known, emptyState
  <1> QED
    BY <1>3, <1>4

LEMMA AnswerKeeps ==
    ASSUME StoreInv, NEW q \in queries, Answer(q), NEW a \in Accounts
    PROVE  Supersedes(a) /\ KeepsMark(a)
  <1> USE DEF StoreInv
  <1>1. queries' = queries \ {q} /\ q \in Queries
    BY AnswerEffect
  <1>2. PICK s \in States : s.attempt = q.gen /\ ~s.loading /\ Apply(q, s)
    BY AnswerEffect
  <1>3. states[a] \in States \cup {None} /\ generations[a] \in Nat
    BY DEF StoreTypeOK
  <1>4. CASE ~IsCurrent(q) \/ q.of # a
    <2>1. states'[a] = states[a]
      BY <1>1, <1>2, <1>4 DEF Apply, StoreTypeOK, Queries
    <2> QED
      BY <1>3, <2>1 DEF Supersedes, KeepsMark, Known, emptyState, States
  <1>5. CASE IsCurrent(q) /\ q.of = a
    <2>1. states'[a] = s
      BY <1>1, <1>2, <1>5 DEF Apply, StoreTypeOK, Queries
    <2>2. states[a] # None /\ states[a].attempt <= q.gen
          /\ (states[a].relogin => q.gen > states[a].attempt)
      BY <1>5 DEF GenerationInv, IsCurrent
    <2> QED
      BY <1>2, <1>3, <2>1, <2>2 DEF Supersedes, KeepsMark, Known, States
  <1> QED
    BY <1>4, <1>5

LEMMA MarkKeeps ==
    ASSUME StoreInv, NEW b \in Accounts, MarkReloginRequired(b), NEW a \in Accounts
    PROVE  Supersedes(a) /\ KeepsMark(a)
  <1> USE DEF StoreInv
  <1>1. PICK s \in States : /\ s.relogin /\ s.attempt = Known(b).attempt
                            /\ states' = [states EXCEPT ![b] = s]
    BY MarkEffect
  <1>2. queries' = queries /\ states[a] \in States \cup {None}
    BY MarkEffect DEF StoreTypeOK
  <1>3. states'[a] = IF a = b THEN s ELSE states[a]
    BY <1>1 DEF StoreTypeOK
  <1> QED
    BY <1>1, <1>2, <1>3 DEF Supersedes, KeepsMark, Known, emptyState, States

LEMMA StepKeeps ==
    ASSUME StoreInv, [StoreNext]_storeVars, NEW a \in Accounts
    PROVE  Supersedes(a) /\ KeepsMark(a)
  <1>1. states[a] \in States \cup {None}
    BY DEF StoreInv, StoreTypeOK
  <1>2. CASE Dispose
    BY <1>2 DEF Dispose, Supersedes, KeepsMark
  <1>3. ASSUME NEW q \in queries, Ask(q) PROVE Supersedes(a) /\ KeepsMark(a)
    <2>1. states' = states /\ ~q.asked /\ queries \ queries' \subseteq {q}
      BY <1>3, AskEffect DEF StoreInv
    <2> QED
      BY <1>1, <2>1 DEF Supersedes, KeepsMark, Known, emptyState, States
  <1>4. CASE UNCHANGED <<states, queries>>
    BY <1>1, <1>4 DEF Supersedes, KeepsMark, Known, emptyState, States
  <1>5. ASSUME NEW b \in Accounts, OtherWindow(b) \/ AccountsChange(b)
        PROVE  UNCHANGED <<states, queries>>
    BY <1>5 DEF OtherWindow, AccountsChange
  <1> QED
    BY <1>2, <1>3, <1>4, <1>5, ReconcileKeeps, RefreshKeeps, AnswerKeeps, MarkKeeps
       DEF StoreNext, StoreEvents, storeVars

\* The answer to an older request never replaces that to a newer one, and none
\* revives an account that was removed meanwhile.
THEOREM StoreLateAnswers == StoreSpec => LateAnswerDropped
  <1>1. StoreInv /\ [StoreNext]_storeVars =>
           [\A a \in Accounts :
              /\ states[a] # None /\ states'[a] # None
                    => states'[a].attempt >= states[a].attempt
              /\ states[a] = None /\ (\E q \in queries \ queries' : q.asked /\ q.of = a)
                    => states'[a] = None]_storeVars
    BY StepKeeps DEF Supersedes
  <1> QED
    BY <1>1, Invariant, PTL DEF StoreSpec, LateAnswerDropped

\* The mark of a re-login is taken away by a later request or newer numbers only.
THEOREM StoreMarkStays == StoreSpec => ReloginMarkStays
  <1>1. StoreInv /\ [StoreNext]_storeVars =>
           [\A a \in Accounts :
              Known(a).relogin /\ states'[a] # None /\ ~states'[a].relogin
                => \/ states'[a].attempt > Known(a).attempt
                   \/ Hydrates(a)]_storeVars
    BY StepKeeps DEF KeepsMark
  <1> QED
    BY <1>1, Invariant, PTL DEF StoreSpec, ReloginMarkStays

-----------------------------------------------------------------------------
(* The store under the coordinator *)

\* What the coordinator and the commands do to the store.
StoreOperation ==
    \/ StoreNext
    \/ \E a \in Accounts : MarkReloginRequired(a)
    \/ \E c \in Callers, targets \in SUBSET Accounts : RefreshQuota(c, targets)

\* Accounts that are not saved make no difference to a refresh.
LEMMA RefreshOfReady ==
    ASSUME StoreTypeOK, NEW c, NEW targets, RefreshQuota(c, targets)
    PROVE  RefreshQuota(c, targets \cap Accounts)
  <1>1. targets \cap ready = (targets \cap Accounts) \cap ready
    BY DEF StoreTypeOK
  <1> QED
    BY <1>1, Zenon DEF RefreshQuota

LEMMA RefreshIsOperation ==
    ASSUME StoreTypeOK, NEW c \in Callers, NEW targets, RefreshQuota(c, targets)
    PROVE  StoreOperation
  <1>1. targets \cap Accounts \in SUBSET Accounts
    OBVIOUS
  <1> QED
    BY <1>1, RefreshOfReady DEF StoreOperation

LEMMA MarkIsOperation ==
    ASSUME StoreTypeOK, NEW a, MarkReloginRequired(a)
    PROVE  StoreOperation \/ UNCHANGED storeVars
  <1>1. CASE a \in Accounts
    BY <1>1 DEF StoreOperation
  <1>2. CASE a \notin Accounts
    <2>1. generations' = generations /\ states' = states
      BY <1>2 DEF MarkReloginRequired, StoreTypeOK
    <2> QED
      BY <2>1 DEF MarkReloginRequired, storeVars
  <1> QED
    BY <1>1, <1>2

LEMMA OperationType ==
    ASSUME StoreTypeOK, [StoreOperation]_storeVars
    PROVE  StoreTypeOK'
  <1>1. ASSUME NEW a \in Accounts, MarkReloginRequired(a) PROVE StoreTypeOK'
    BY <1>1, MarkEffect DEF StoreTypeOK
  <1> QED
    BY <1>1, StoreTypeStep, RefreshType DEF StoreOperation

LEMMA OperationInv ==
    ASSUME StoreInv, [StoreOperation]_storeVars
    PROVE  StoreInv'
  BY InvStep, InvMark, InvRefresh DEF StoreOperation

LEMMA OperationKeeps ==
    ASSUME StoreInv, [StoreOperation]_storeVars, NEW a \in Accounts
    PROVE  Supersedes(a) /\ KeepsMark(a)
  BY StepKeeps, MarkKeeps, RefreshKeeps DEF StoreOperation

\* Every step of the coordinator is an operation of the store or leaves it alone.
LEMMA StepIsOperation ==
    ASSUME StoreTypeOK, [Next]_vars
    PROVE  [StoreOperation]_storeVars
  <1> USE CoordinatorAssumption
  <1>1. ASSUME ReconcileAccounts PROVE StoreOperation
    BY <1>1 DEF StoreOperation, StoreNext, StoreEvents
  <1>2. ASSUME NEW f \in Flushers, Loop(f) PROVE [StoreOperation]_storeVars
    <2>1. CASE Stop(f) \/ Wait(f) \/ StartUsage(f) \/ StartThrows(f)
      BY <2>1 DEF Stop, Wait, StartUsage, StartThrows
    <2>2. CASE StartQuota(f)
      BY <2>2, RefreshIsOperation DEF StartQuota, Query
    <2> QED
      BY <1>2, <2>1, <2>2 DEF Loop
  <1>3. ASSUME NEW f \in Flushers, TokenAnswer(f) PROVE [StoreOperation]_storeVars
    BY <1>3, RefreshIsOperation, MarkIsOperation DEF TokenAnswer, Query
  <1>4. ASSUME NEW f \in Flushers, QuotaDone(f) \/ QuotaThrows(f) \/ UsageDone(f)
        PROVE  [StoreOperation]_storeVars
    BY <1>1, <1>4 DEF QuotaDone, QuotaThrows, UsageDone
  <1>5. CASE AutoOwnQuota \/ AutoDecide \/ AutoSwitch
    BY <1>1, <1>5 DEF AutoOwnQuota, AutoDecide, AutoSwitch
  <1>6. ASSUME NEW q \in queries, Ask(q) \/ Answer(q) PROVE StoreOperation
    BY <1>6 DEF StoreOperation, StoreNext, StoreEvents
  <1>7. ASSUME NEW a \in Accounts, OtherWindow(a) \/ AccountsChange(a)
        PROVE  StoreOperation
    BY <1>7 DEF StoreOperation, StoreNext, StoreEvents
  <1>8. ASSUME Tick PROVE UNCHANGED storeVars
    BY <1>8 DEF Tick
  <1>9. CASE Activate \/ RefreshAll \/ SwitchToProvider
    BY <1>1, <1>9 DEF Activate, RefreshAll, SwitchToProvider
  <1>10. ASSUME NEW a \in Accounts, SwitchTo(a) \/ CommandMarks(a) \/ EntryChanges(a)
         PROVE  [StoreOperation]_storeVars
    BY <1>1, <1>7, <1>10, MarkIsOperation DEF SwitchTo, CommandMarks, EntryChanges
  <1>11. ASSUME NEW f \in Flushers, RefreshDashboard(f) PROVE StoreOperation
    BY <1>1, <1>11 DEF RefreshDashboard
  <1>12. ASSUME NEW c \in Commands, NEW targets \in SUBSET Accounts \ {{}},
                CommandRefresh(c, targets)
         PROVE  StoreOperation
    BY <1>12, RefreshIsOperation DEF CommandRefresh
  <1>13. CASE UNCHANGED vars
    BY <1>13 DEF vars
  <1> QED
    BY <1>2, <1>3, <1>4, <1>5, <1>6, <1>7, <1>8, <1>9, <1>10, <1>11, <1>12, <1>13
       DEF Next, Progress

LEMMA StoreInvariant == Spec => []StoreInv
  <1>1. Init => StoreInv
    BY InvInit DEF Init
  <1>2. StoreInv /\ [Next]_vars => StoreInv'
    BY StepIsOperation, OperationInv DEF StoreInv
  <1> QED
    BY <1>1, <1>2, PTL DEF Spec

\* Whoever refreshes and whatever overlaps, an account that is shown as loading has
\* a request under way whose answer will be taken.
THEOREM NoneSpins == Spec => []LoadingIsPending
  <1>1. StoreInv => LoadingIsPending
    BY DEF StoreInv
  <1> QED
    BY <1>1, StoreInvariant, PTL

\* Beside commands, rotations and removals too, an older answer never replaces a
\* newer one and none revives a removed account.
THEOREM LateAnswersDropped == Spec => LateAnswerDropped
  <1>1. StoreInv /\ [Next]_vars =>
           [\A a \in Accounts :
              /\ states[a] # None /\ states'[a] # None
                    => states'[a].attempt >= states[a].attempt
              /\ states[a] = None /\ (\E q \in queries \ queries' : q.asked /\ q.of = a)
                    => states'[a] = None]_storeVars
    BY StepIsOperation, OperationKeeps DEF Supersedes, StoreInv
  <1> QED
    BY <1>1, StoreInvariant, PTL DEF Spec, LateAnswerDropped

\* What a token refresh found out stays until a later request or newer numbers.
THEOREM MarksStay == Spec => ReloginMarkStays
  <1>1. StoreInv /\ [Next]_vars =>
           [\A a \in Accounts :
              Known(a).relogin /\ states'[a] # None /\ ~states'[a].relogin
                => \/ states'[a].attempt > Known(a).attempt
                   \/ Hydrates(a)]_storeVars
    BY StepIsOperation, OperationKeeps DEF KeepsMark, StoreInv
  <1> QED
    BY <1>1, StoreInvariant, PTL DEF Spec, ReloginMarkStays

-----------------------------------------------------------------------------
(* One refresh at a time *)

Stages == {"idle", "loop", "waiting", "token", "query", "usage"}

LoopInv == pc \in [Flushers -> Stages] /\ OneRefreshRuns

LEMMA LoopInit == ASSUME Init PROVE LoopInv
  BY CoordinatorAssumption, StoreAssumption DEF Init, LoopInv, OneRefreshRuns, Stages

LEMMA LoopStep == ASSUME LoopInv, [Next]_vars PROVE LoopInv'
  <1> USE CoordinatorAssumption, StoreAssumption DEF LoopInv, OneRefreshRuns, Stages
  <1>1. None \notin Flushers
    OBVIOUS
  <1>2. CASE UNCHANGED <<pc, running>>
    BY <1>2
  <1>3. ASSUME NEW f \in Flushers, Loop(f) PROVE LoopInv'
    <2>1. pc[f] \in {"idle", "loop"}
      BY <1>3 DEF Loop
    <2>2. CASE Stop(f) \/ Wait(f) \/ StartThrows(f)
      BY <2>1, <2>2 DEF Stop, Wait, StartThrows
    <2>3. CASE StartUsage(f)
      BY <1>1, <2>1, <2>3 DEF StartUsage
    <2>4. CASE StartQuota(f)
      <3>1. running = None /\ running' = f
            /\ (pc' = [pc EXCEPT ![f] = "token"] \/ pc' = [pc EXCEPT ![f] = "query"])
        BY <2>4 DEF StartQuota, Query
      <3> QED
        BY <1>1, <2>1, <3>1
    <2> QED
      BY <1>3, <2>2, <2>3, <2>4 DEF Loop
  <1>4. ASSUME NEW f \in Flushers, TokenAnswer(f) PROVE LoopInv'
    BY <1>4 DEF TokenAnswer, Query
  <1>5. ASSUME NEW f \in Flushers, pc[f] \in {"token", "query", "usage"},
               NEW next \in {"loop", "idle"}, Ends(f, next)
        PROVE  LoopInv'
    BY <1>1, <1>5 DEF Ends
  <1>6. ASSUME NEW f \in Flushers, QuotaDone(f) \/ QuotaThrows(f) \/ UsageDone(f)
        PROVE  LoopInv'
    BY <1>5, <1>6 DEF QuotaDone, QuotaThrows, UsageDone, Finish
  <1>7. ASSUME NEW f \in Flushers, RefreshDashboard(f) PROVE LoopInv'
    BY <1>7 DEF RefreshDashboard, Untouched
  <1>8. CASE UNCHANGED vars
    BY <1>2, <1>8 DEF vars, coordinatorVars
  <1>9. ASSUME AutoOwnQuota \/ AutoDecide \/ AutoSwitch PROVE UNCHANGED <<pc, running>>
    BY <1>9 DEF AutoOwnQuota, AutoDecide, AutoSwitch, Untouched
  <1>10. ASSUME Tick \/ Activate \/ RefreshAll \/ SwitchToProvider
         PROVE  UNCHANGED <<pc, running>>
    BY <1>10 DEF Tick, Activate, RefreshAll, SwitchToProvider, Untouched
  <1>11. ASSUME NEW a \in Accounts, SwitchTo(a) \/ CommandMarks(a) \/ EntryChanges(a)
         PROVE  UNCHANGED <<pc, running>>
    BY <1>11 DEF SwitchTo, CommandMarks, EntryChanges, Untouched
  <1>12. ASSUME NEW c, NEW targets, CommandRefresh(c, targets)
         PROVE  UNCHANGED <<pc, running>>
    BY <1>12 DEF CommandRefresh, Untouched
  <1> QED
    BY <1>2, <1>3, <1>4, <1>6, <1>7, <1>8, <1>9, <1>10, <1>11, <1>12
       DEF Next, Progress, Untouched, coordinatorVars

\* However many loops the timers and the commands start, one refresh runs.
THEOREM OneAtATime == Spec => []OneRefreshRuns
  <1>1. LoopInv => OneRefreshRuns
    BY DEF LoopInv
  <1> QED
    BY <1>1, LoopInit, LoopStep, PTL DEF Spec

-----------------------------------------------------------------------------
(* The automatic switch *)

Autos == [at : {"idle", "own", "candidates", "switch"}, from : Accounts \cup {None},
          to : Accounts \cup {None}, late : BOOLEAN, done : Nat]

\* Once the switch is decided, the exhausted account is selected or the user has
\* chosen since.
AutoInv ==
    /\ auto \in Autos
    /\ auto.at = "switch" => selection = auto.from \/ auto.late

LEMMA AutoInit == ASSUME Init PROVE AutoInv
  BY DEF Init, AutoInv, Autos, NoAuto

LEMMA AutoStep == ASSUME StoreInv, AutoInv, [Next]_vars PROVE AutoInv'
  <1> USE DEF AutoInv
  <1>1. CASE UNCHANGED <<auto, selection>>
    BY <1>1
  <1>2. ASSUME auto' = [auto EXCEPT !.late = @ \/ auto.at = "switch"] PROVE AutoInv'
    BY <1>2 DEF Autos
  <1>3. ASSUME NEW done \in Nat, AutoEnds(done) PROVE AutoInv'
    BY <1>3 DEF AutoEnds, NoAuto, Autos
  <1>4. auto.done \in Nat /\ auto.done + 1 \in Nat
    BY DEF Autos
  <1>5. CASE AutoOwnQuota
    <2>1. CASE auto' = [auto EXCEPT !.at = "candidates"]
      BY <2>1 DEF Autos
    <2> QED
      BY <1>3, <1>4, <1>5, <2>1 DEF AutoOwnQuota
  <1>6. CASE AutoDecide
    <2>1. ASSUME NEW a \in Accounts, selection = auto.from, selection' = selection,
                 auto' = [auto EXCEPT !.at = "switch", !.to = a]
          PROVE  AutoInv'
      BY <2>1 DEF Autos
    <2> QED
      BY <1>3, <1>4, <1>6, <2>1 DEF AutoDecide
  <1>7. CASE AutoSwitch
    BY <1>3, <1>4, <1>7 DEF AutoSwitch
  <1>8. ASSUME NEW f \in Flushers, QuotaDone(f) PROVE AutoInv'
    <2>1. ASSUME NEW a \in Accounts, auto' = [auto EXCEPT !.at = "own", !.from = a]
          PROVE  AutoInv'
      BY <2>1 DEF Autos
    <2>2. selection' = selection
      BY <1>8 DEF QuotaDone
    <2>3. \/ auto' = auto
          \/ \E a : job[f].exhausted = a /\ a # None
               /\ auto' = [auto EXCEPT !.at = "own", !.from = a] /\ a \in ready
      BY <1>8 DEF QuotaDone, RequestAutoSwitch
    <2>4. ready \subseteq Accounts
      BY DEF StoreInv, StoreTypeOK
    <2> QED
      BY <2>1, <2>2, <2>3, <2>4, <1>1
  <1>9. ASSUME NEW f \in Flushers,
               Loop(f) \/ TokenAnswer(f) \/ QuotaThrows(f) \/ UsageDone(f)
        PROVE  UNCHANGED <<auto, selection>>
    BY <1>9 DEF Loop, TokenAnswer, QuotaThrows, UsageDone
  <1>10. ASSUME NEW a \in Accounts, SwitchTo(a) \/ EntryChanges(a) PROVE AutoInv'
    BY <1>2, <1>10 DEF SwitchTo, EntryChanges
  <1>11. ASSUME SwitchToProvider PROVE AutoInv'
    BY <1>2, <1>11 DEF SwitchToProvider
  <1>12. ASSUME Tick \/ Activate \/ RefreshAll PROVE UNCHANGED <<auto, selection>>
    BY <1>12 DEF Tick, Activate, RefreshAll
  <1>13. ASSUME NEW f, RefreshDashboard(f) PROVE UNCHANGED <<auto, selection>>
    BY <1>13 DEF RefreshDashboard
  <1>14. ASSUME NEW c, NEW targets, CommandRefresh(c, targets)
         PROVE  UNCHANGED <<auto, selection>>
    BY <1>14 DEF CommandRefresh
  <1>15. ASSUME NEW a \in Accounts, CommandMarks(a) PROVE UNCHANGED <<auto, selection>>
    BY <1>15 DEF CommandMarks
  <1>16. CASE UNCHANGED vars
    BY <1>1, <1>16 DEF vars, coordinatorVars
  <1> QED
    BY <1>1, <1>5, <1>6, <1>7, <1>8, <1>9, <1>10, <1>11, <1>12, <1>13, <1>14, <1>15,
       <1>16 DEF Next, Progress, coordinatorVars

\* An automatic switch leaves the exhausted account, unless the user's choice came
\* after the decision.
THEOREM LeavesExhausted == Spec => AutoSwitchLeavesExhausted
  <1>1. AutoInv => [auto.at = "switch" /\ auto'.at = "idle" /\ selection' # selection
                      => selection = auto.from \/ auto.late]_vars
    BY DEF AutoInv
  <1> QED
    BY <1>1, AutoInit, AutoStep, StoreInvariant, PTL DEF Spec, AutoSwitchLeavesExhausted

-----------------------------------------------------------------------------
(* Type correctness of the coordinator *)

LEMMA Least == ASSUME NEW T \in SUBSET Nat, T # {} PROVE \E m \in T : \A k \in T : m <= k
  <1>1. PICK m \in T : \A k \in T : <<k, m>> \notin OpToRel(<, Nat)
    BY NatLessThanWellFounded, WFMin
  <1>2. \A k \in T : ~(k < m)
    BY <1>1 DEF OpToRel
  <1> QED
    BY <1>2

LEMMA FirstPlace ==
    ASSUME NEW places \in SUBSET Places, places # {}
    PROVE  \E i \in places : AtFirst(places) = Order[i] /\ \A k \in places : i <= k
  <1>1. places \in SUBSET Nat
    BY CoordinatorAssumption DEF Places
  <1>2. \E i \in places : \A k \in places : i <= k
    BY <1>1, Least
  <1> QED
    BY <1>2 DEF AtFirst

LEMMA TurnType == Turn \in ready \cup {None}
  <1>1. ASSUME NEW a PROVE NextAfter(a) \in ready \cup {None}
    <2> DEFINE later == {i \in Places : \E k \in Places : Order[k] = a /\ k < i}
    <2>1. \A places \in SUBSET Places : places # {} => AtFirst(places) \in ready
      BY FirstPlace DEF Places
    <2>2. later \in SUBSET Places
      OBVIOUS
    <2> QED
      BY <2>1, <2>2 DEF NextAfter
  <1> QED
    BY <1>1 DEF Turn

CoordinatorTypes ==
    /\ selection \in Accounts \cup {None}
    /\ pending \in Pending
    /\ running \in Flushers \cup {None}
    /\ job \in [Flushers -> Jobs]
    /\ cursor \in Accounts \cup {None}
    /\ owed \subseteq ready
    /\ turns \in [Accounts -> Nat]

LEMMA TypesTogether ==
    ASSUME StoreTypeOK, CoordinatorTypes, LoopInv, AutoInv PROVE TypeOK
  BY DEF TypeOK, CoordinatorTypes, LoopInv, Stages, AutoInv, Autos

LEMMA TypesInit == ASSUME Init PROVE CoordinatorTypes
  BY DEF Init, CoordinatorTypes, Pending, Jobs, NoJob

LEMMA PendingTypes ==
    ASSUME NEW p \in Pending, NEW timer \in BOOLEAN, NEW ids \in SUBSET Accounts
    PROVE  /\ WithUsage(p) \in Pending /\ Full(p) \in Pending
           /\ CurrentOrNext(p, timer) \in Pending /\ Explicit(p, ids) \in Pending
  BY DEF Pending, WithUsage, Full, CurrentOrNext, Explicit

\* The accounts change in one action only.
LEMMA ReadyStays ==
    ASSUME [Next]_vars, \A a \in Accounts : ~EntryChanges(a)
    PROVE  ready' = ready
  <1>1. ASSUME NEW c, NEW targets, RefreshQuota(c, targets) PROVE ready' = ready
    BY <1>1 DEF RefreshQuota
  <1>2. ASSUME NEW a, MarkReloginRequired(a) PROVE ready' = ready
    BY <1>2 DEF MarkReloginRequired
  <1>3. ASSUME ReconcileAccounts PROVE ready' = ready
    BY <1>3 DEF ReconcileAccounts
  <1>4. ASSUME UNCHANGED storeVars PROVE ready' = ready
    BY <1>4 DEF storeVars
  <1>5. ASSUME NEW f \in Flushers, Loop(f) PROVE ready' = ready
    BY <1>1, <1>4, <1>5 DEF Loop, Stop, Wait, StartUsage, StartQuota, StartThrows, Query
  <1>6. ASSUME NEW f \in Flushers,
               TokenAnswer(f) \/ QuotaDone(f) \/ QuotaThrows(f) \/ UsageDone(f)
        PROVE  ready' = ready
    BY <1>1, <1>2, <1>3, <1>4, <1>6
       DEF TokenAnswer, QuotaDone, QuotaThrows, UsageDone, Query
  <1>7. ASSUME AutoOwnQuota \/ AutoDecide \/ AutoSwitch PROVE ready' = ready
    BY <1>3, <1>4, <1>7 DEF AutoOwnQuota, AutoDecide, AutoSwitch
  <1>8. ASSUME NEW q, Ask(q) \/ Answer(q) PROVE ready' = ready
    BY <1>8 DEF Ask, Answer
  <1>9. ASSUME Tick \/ Activate \/ RefreshAll \/ SwitchToProvider PROVE ready' = ready
    BY <1>3, <1>4, <1>9 DEF Tick, Activate, RefreshAll, SwitchToProvider
  <1>10. ASSUME NEW a, SwitchTo(a) \/ CommandMarks(a) \/ OtherWindow(a) PROVE ready' = ready
    BY <1>2, <1>3, <1>10 DEF SwitchTo, CommandMarks, OtherWindow
  <1>11. ASSUME NEW f, RefreshDashboard(f) PROVE ready' = ready
    BY <1>3, <1>11 DEF RefreshDashboard
  <1>12. ASSUME NEW c, NEW targets, CommandRefresh(c, targets) PROVE ready' = ready
    BY <1>1, <1>12 DEF CommandRefresh
  <1>13. CASE UNCHANGED vars
    BY <1>4, <1>13 DEF vars
  <1> QED
    BY <1>5, <1>6, <1>7, <1>8, <1>9, <1>10, <1>11, <1>12, <1>13 DEF Next, Progress

LEMMA ScheduledType ==
    ASSUME CoordinatorTypes, NEW p \in Pending, Schedule(p), Untouched, ready' = ready,
           selection' \in Accounts \cup {None}, owed' \subseteq ready
    PROVE  CoordinatorTypes'
  BY DEF CoordinatorTypes, Schedule, Untouched

LEMMA QueryType ==
    ASSUME CoordinatorTypes, NEW f \in Flushers, NEW targets \in SUBSET Accounts, NEW timer,
           Query(f, targets, timer)
    PROVE  job' \in [Flushers -> Jobs] /\ owed' \subseteq ready
  BY DEF Query, CoordinatorTypes, Jobs, NoJob

LEMMA FinishType ==
    ASSUME CoordinatorTypes, NEW f \in Flushers, NEW next, Ends(f, next)
    PROVE  job' \in [Flushers -> Jobs] /\ running' = None
  BY DEF Ends, CoordinatorTypes, Jobs, NoJob

LEMMA LoopTypes ==
    ASSUME StoreTypeOK, CoordinatorTypes, NEW f \in Flushers, Loop(f), ready' = ready
    PROVE  CoordinatorTypes'
  <1>1. selection' = selection
    BY DEF Loop
  <1>2. CASE Stop(f) \/ Wait(f)
    BY <1>1, <1>2 DEF Stop, Wait, CoordinatorTypes
  <1>3. CASE StartUsage(f)
    BY <1>1, <1>3 DEF StartUsage, CoordinatorTypes, Pending
  <1>4. CASE StartQuota(f)
    <2>1. pending' \in Pending /\ running' = f
      BY <1>4 DEF StartQuota, Drain, CoordinatorTypes, Pending
    <2>2. Turn \in Accounts \cup {None} /\ Targets \subseteq Accounts
      <3>1. Turn \in Accounts \cup {None}
        BY TurnType DEF StoreTypeOK
      <3> QED
        BY <3>1 DEF Targets, StoreTypeOK, CoordinatorTypes, Pending
    <2>3. CASE Query(f, Targets, pending.timer)
               /\ ((cursor' = selection /\ turns' = [a \in Accounts |-> 0])
                    \/ UNCHANGED <<cursor, turns>>)
      <3>1. job' \in [Flushers -> Jobs] /\ owed' \subseteq ready
        BY <2>2, <2>3, QueryType
      <3>2. cursor' \in Accounts \cup {None} /\ turns' \in [Accounts -> Nat]
        BY <2>3 DEF CoordinatorTypes
      <3> QED
        BY <1>1, <2>1, <3>1, <3>2 DEF CoordinatorTypes
    <2>4. CASE /\ cursor' = Turn /\ owed' = owed
               /\ turns' = [a \in Accounts |-> IF a = Turn THEN 0 ELSE turns[a] + 1]
               /\ job' = [job EXCEPT ![f] = [targets |-> Targets, turn |-> Turn,
                                             timer |-> TRUE, exhausted |-> None]]
      <3> HIDE DEF Turn, Targets
      <3>1. turns' \in [Accounts -> Nat] /\ job' \in [Flushers -> Jobs]
        BY <2>2, <2>4 DEF CoordinatorTypes, Jobs
      <3> QED
        BY <1>1, <2>1, <2>2, <2>4, <3>1 DEF CoordinatorTypes
    <2> QED
      BY <1>4, <2>3, <2>4 DEF StartQuota
  <1>5. CASE StartThrows(f)
    BY <1>1, <1>5 DEF StartThrows, Drain, CoordinatorTypes, Pending
  <1> QED
    BY <1>2, <1>3, <1>4, <1>5 DEF Loop

LEMMA TypesStep ==
    ASSUME StoreTypeOK, CoordinatorTypes, LoopInv, AutoInv, [Next]_vars
    PROVE  CoordinatorTypes'
  <1> DEFINE kept == <<selection, pending, running, job, cursor, owed, turns>>
  <1>1. CASE \A a \in Accounts : ~EntryChanges(a)
    <2>1. ready' = ready
      BY <1>1, ReadyStays
    <2>2. ASSUME UNCHANGED kept PROVE CoordinatorTypes'
      BY <2>1, <2>2 DEF CoordinatorTypes
    <2>3. ready \subseteq Accounts /\ pending \in Pending /\ selection \in Accounts \cup {None}
          /\ owed \subseteq ready
      BY DEF StoreTypeOK, CoordinatorTypes
    <2>4. CASE UNCHANGED coordinatorVars
      BY <2>2, <2>4 DEF coordinatorVars
    <2>5. ASSUME NEW f \in Flushers, Loop(f) PROVE CoordinatorTypes'
      BY <2>1, <2>5, LoopTypes
    <2>6. ASSUME NEW f \in Flushers, TokenAnswer(f) PROVE CoordinatorTypes'
      <3>1. UNCHANGED <<selection, pending, running, cursor, turns>>
        BY <2>6 DEF TokenAnswer
      <3>2. job' \in [Flushers -> Jobs] /\ owed' \subseteq ready
        <4>1. CASE job' = [job EXCEPT ![f] = NoJob] /\ UNCHANGED owed
          BY <4>1 DEF CoordinatorTypes, NoJob, Jobs
        <4>2. job[f].targets \in SUBSET Accounts
          BY DEF CoordinatorTypes, Jobs
        <4> QED
          BY <2>6, <4>1, <4>2, QueryType DEF TokenAnswer
      <3> QED
        BY <2>1, <3>1, <3>2 DEF CoordinatorTypes
    <2>7. ASSUME NEW f \in Flushers, QuotaDone(f) \/ QuotaThrows(f) \/ UsageDone(f)
          PROVE  CoordinatorTypes'
      <3>1. /\ UNCHANGED <<selection, pending, cursor, owed, turns>>
            /\ Ends(f, "loop") \/ Ends(f, "idle")
        BY <2>7 DEF QuotaDone, QuotaThrows, UsageDone, Finish
      <3> QED
        BY <2>1, <3>1, FinishType DEF CoordinatorTypes
    <2>8. CASE AutoOwnQuota \/ AutoDecide
      BY <2>2, <2>8 DEF AutoOwnQuota, AutoDecide
    <2>9. CASE AutoSwitch
      <3>1. CASE UNCHANGED <<selection, pending, owed>>
        BY <2>2, <2>9, <3>1 DEF AutoSwitch, Untouched
      <3>2. CASE /\ auto.to \in ready /\ selection' = auto.to /\ owed' = owed \cup {auto.to}
                 /\ Schedule(Explicit(WithUsage(pending), {auto.to}))
        <4>1. Explicit(WithUsage(pending), {auto.to}) \in Pending
          BY <2>3, <3>2, PendingTypes
        <4> QED
          BY <2>1, <2>3, <2>9, <3>2, <4>1, ScheduledType DEF AutoSwitch
      <3> QED
        BY <2>9, <3>1, <3>2 DEF AutoSwitch
    <2>10. CASE Tick
      <3>1. PICK p \in {pending, WithUsage(pending)} : Schedule(CurrentOrNext(p, TRUE))
        BY <2>10 DEF Tick
      <3>2. CurrentOrNext(p, TRUE) \in Pending
        BY <2>3, PendingTypes
      <3> QED
        BY <2>1, <2>3, <2>10, <3>1, <3>2, ScheduledType DEF Tick
    <2>11. CASE Activate \/ SwitchToProvider
      <3>1. CurrentOrNext(WithUsage(pending), FALSE) \in Pending
        BY <2>3, PendingTypes
      <3> QED
        BY <2>1, <2>3, <2>11, <3>1, ScheduledType DEF Activate, SwitchToProvider
    <2>12. CASE RefreshAll \/ \E f \in Flushers : RefreshDashboard(f)
      <3>1. Full(WithUsage(pending)) \in Pending
        BY <2>3, PendingTypes
      <3>2. /\ Schedule(Full(WithUsage(pending))) /\ Untouched /\ owed' = ready
            /\ UNCHANGED selection
        BY <2>12 DEF RefreshAll, RefreshDashboard
      <3> QED
        BY <2>1, <2>3, <3>1, <3>2, ScheduledType
    <2>13. ASSUME NEW a \in Accounts, SwitchTo(a) PROVE CoordinatorTypes'
      <3>1. Explicit(WithUsage(pending), {a}) \in Pending
        BY <2>3, PendingTypes
      <3> QED
        BY <2>1, <2>3, <2>13, <3>1, ScheduledType DEF SwitchTo
    <2>14. ASSUME NEW a \in Accounts, CommandMarks(a) PROVE CoordinatorTypes'
      BY <2>2, <2>14 DEF CommandMarks, Untouched
    <2>15. ASSUME NEW c, NEW targets, CommandRefresh(c, targets) PROVE CoordinatorTypes'
      BY <2>1, <2>3, <2>15 DEF CommandRefresh, Untouched, CoordinatorTypes
    <2>16. ASSUME UNCHANGED <<selection, pending, owed>>, Untouched PROVE CoordinatorTypes'
      BY <2>2, <2>16 DEF Untouched
    <2> QED
      BY <1>1, <2>4, <2>5, <2>6, <2>7, <2>8, <2>9, <2>10, <2>11, <2>12, <2>13, <2>14, <2>15,
         <2>16 DEF Next, Progress, vars
  <1>2. ASSUME NEW a \in Accounts, EntryChanges(a) PROVE CoordinatorTypes'
    <2>1. UNCHANGED <<pending, running, job, cursor>> /\ turns' = [b \in Accounts |-> 0]
          /\ selection' \in {selection, None} /\ owed' = owed \ {a}
          /\ ready' \in {ready \ {a}, ready \cup {a}}
      BY <1>2 DEF EntryChanges, AccountsChange
    <2> QED
      BY <2>1 DEF CoordinatorTypes
  <1> QED
    BY <1>1, <1>2

LEMMA LoopsHold == Spec => []LoopInv
  BY LoopInit, LoopStep, PTL DEF Spec

LEMMA AutosHold == Spec => []AutoInv
  BY AutoInit, AutoStep, StoreInvariant, PTL DEF Spec

LEMMA TypesHold == Spec => []CoordinatorTypes
  <1>1. StoreInv /\ CoordinatorTypes /\ LoopInv /\ AutoInv /\ [Next]_vars => CoordinatorTypes'
    BY TypesStep DEF StoreInv
  <1> QED
    BY <1>1, TypesInit, StoreInvariant, LoopsHold, AutosHold, PTL DEF Spec

\* Requests, loops, the rotation and the automatic switch keep their types, and what
\* somebody asked to refresh is a saved account.
THEOREM TypeCorrect == Spec => []TypeOK
  <1>1. StoreInv /\ CoordinatorTypes /\ LoopInv /\ AutoInv => TypeOK
    BY TypesTogether DEF StoreInv
  <1> QED
    BY <1>1, StoreInvariant, TypesHold, LoopsHold, AutosHold, PTL

-----------------------------------------------------------------------------
(* The rotation *)

\* The place of an account, and the ready accounts the rotation meets on its way from
\* the place of one account to that of another, the other included.
At(a) == CHOOSE i \in 1 .. Len(Order) : Order[i] = a
Passed(a, c) ==
    {b \in ready : \/ At(a) < At(b) /\ (At(b) <= At(c) \/ At(c) < At(a))
                   \/ At(b) <= At(c) /\ At(c) < At(a)}

RotationInv ==
    \/ \A a \in Accounts : turns[a] = 0
    \/ /\ cursor \in ready
       /\ \A a \in ready : turns[a] <= Cardinality(Passed(a, cursor))

LEMMA PlaceOf == \A a \in Accounts : At(a) \in 1 .. Len(Order) /\ Order[At(a)] = a
  BY CoordinatorAssumption DEF At

LEMMA OnePlace == \A i \in 1 .. Len(Order) : Order[i] \in Accounts /\ At(Order[i]) = i
  <1>1. \A i \in 1 .. Len(Order) : Order[i] \in Accounts
    BY CoordinatorAssumption
  <1> QED
    BY <1>1, PlaceOf, CoordinatorAssumption

LEMMA AccountsFinite == IsFiniteSet(Accounts)
  <1> DEFINE place == [a \in Accounts |-> At(a)]
  <1>1. place \in [Accounts -> 1 .. Len(Order)]
    BY PlaceOf
  <1>2. \A a, b \in Accounts : place[a] = place[b] => a = b
    BY PlaceOf
  <1>3. place \in Injection(Accounts, 1 .. Len(Order))
    BY <1>1, <1>2 DEF Injection, IsInjective
  <1>4. IsFiniteSet(1 .. Len(Order))
    BY FS_Interval, CoordinatorAssumption
  <1> QED
    BY <1>3, <1>4, FS_Injection

LEMMA PassedCount ==
    ASSUME StoreTypeOK, NEW a \in ready, NEW c \in ready
    PROVE  /\ IsFiniteSet(Passed(a, c))
           /\ Cardinality(Passed(a, c)) \in Nat
           /\ Cardinality(Passed(a, c)) < Cardinality(ready)
  <1>1. IsFiniteSet(ready)
    BY AccountsFinite, FS_Subset DEF StoreTypeOK
  <1>2. Passed(a, c) \in SUBSET (ready \ {a})
    <2>1. At(a) \in Nat /\ At(c) \in Nat
      BY PlaceOf DEF StoreTypeOK
    <2> QED
      BY <2>1 DEF Passed
  <1>3. IsFiniteSet(ready \ {a}) /\ Cardinality(ready \ {a}) = Cardinality(ready) - 1
    BY <1>1, FS_RemoveElement
  <1>4. IsFiniteSet(Passed(a, c)) /\ Cardinality(Passed(a, c)) <= Cardinality(ready \ {a})
    BY <1>2, <1>3, FS_Subset
  <1>5. Cardinality(ready) \in Nat /\ Cardinality(Passed(a, c)) \in Nat
    BY <1>1, <1>4, FS_CardinalityType
  <1> QED
    BY <1>3, <1>4, <1>5

\* The turn goes to the next place, or to the first one after the last.
LEMMA NextPlace ==
    ASSUME StoreTypeOK, NEW c \in Accounts \cup {None}, NEW t, t = NextAfter(c), t # None
    PROVE  /\ t \in ready
           /\ \A b \in ready : c \in ready =>
                 \/ At(c) < At(t) /\ (At(b) <= At(c) \/ At(t) <= At(b))
                 \/ At(b) <= At(c) /\ At(t) <= At(b)
  <1> DEFINE later == {i \in Places : \E k \in Places : Order[k] = c /\ k < i}
  <1>1. \A i \in Places : i \in 1 .. Len(Order) /\ Order[i] \in ready
    BY DEF Places
  <1>2. \A b \in ready : At(b) \in Places /\ Order[At(b)] = b
    BY PlaceOf DEF Places, StoreTypeOK
  <1>3. Places # {}
    BY DEF NextAfter
  <1>4. later \in SUBSET Places
    OBVIOUS
  <1>5. Len(Order) \in Nat
    BY CoordinatorAssumption
  <1>6. CASE later = {}
    <2>1. t = AtFirst(Places)
      BY <1>3, <1>6 DEF NextAfter
    <2>2. PICK i \in Places : t = Order[i] /\ \A k \in Places : i <= k
      BY <2>1, <1>3, FirstPlace
    <2>3. At(t) = i
      BY <2>2, <1>1, OnePlace
    <2>4. c \in ready => \A b \in ready : ~(At(c) < At(b))
      BY <1>2, <1>6
    <2>5. \A b \in ready : At(t) <= At(b)
      BY <2>2, <2>3, <1>2
    <2>6. \A b \in ready : At(b) \in 1 .. Len(Order)
      BY <1>1, <1>2
    <2>7. t \in ready
      BY <1>1, <2>2
    <2> QED
      BY <2>4, <2>5, <2>6, <2>7, <1>5
  <1>7. CASE later # {}
    <2>1. t = AtFirst(later)
      BY <1>3, <1>7 DEF NextAfter
    <2>2. PICK i \in later : t = Order[i] /\ \A k \in later : i <= k
      BY <2>1, <1>4, <1>7, FirstPlace
    <2>3. At(t) = i /\ t \in ready
      BY <2>2, <1>1, OnePlace
    <2>4. c \in ready => \A b \in ready : At(c) < At(b) => At(b) \in later
      BY <1>2
    <2>5. At(c) < At(t)
      <3>1. PICK k \in Places : Order[k] = c /\ k < i
        BY <2>2
      <3>2. At(c) = k
        BY <3>1, <1>1, OnePlace
      <3> QED
        BY <3>1, <3>2, <2>3
    <2>6. \A b \in ready : At(b) \in 1 .. Len(Order)
      BY <1>1, <1>2
    <2>7. c \in ready => \A b \in ready : At(c) < At(b) => At(t) <= At(b)
      BY <2>2, <2>3, <2>4
    <2> QED
      BY <2>3, <2>5, <2>6, <2>7, <1>5
  <1> QED
    BY <1>6, <1>7

\* One more account is passed with every turn, until the account has its own.
LEMMA OneMorePassed ==
    ASSUME StoreTypeOK, NEW c \in ready, NEW t, t = NextAfter(c), t # None,
           NEW a \in ready, a # t
    PROVE  Cardinality(Passed(a, c)) + 1 <= Cardinality(Passed(a, t))
  <1>1. t \in ready
    BY NextPlace DEF StoreTypeOK
  <1>2. \/ At(c) < At(t) /\ (At(a) <= At(c) \/ At(t) <= At(a))
        \/ At(a) <= At(c) /\ At(t) <= At(a)
    BY NextPlace DEF StoreTypeOK
  <1>3. \A b \in ready : At(b) \in Nat
    BY PlaceOf DEF StoreTypeOK
  <1>4. At(a) # At(t)
    BY <1>1, PlaceOf DEF StoreTypeOK
  <1>5. \A b \in ready : b # t => At(b) # At(t)
    BY <1>1, PlaceOf DEF StoreTypeOK
  <1>6. t \notin Passed(a, c)
    BY <1>1, <1>2, <1>3, <1>4 DEF Passed
  <1>7. t \in Passed(a, t)
    BY <1>1, <1>3, <1>4 DEF Passed
  <1>8. Passed(a, c) \subseteq Passed(a, t)
    BY <1>1, <1>2, <1>3, <1>4 DEF Passed
  <1>9. IsFiniteSet(Passed(a, c)) /\ IsFiniteSet(Passed(a, t))
    BY <1>1, PassedCount
  <1>10. Cardinality(Passed(a, c) \cup {t}) = Cardinality(Passed(a, c)) + 1
    BY <1>6, <1>9, FS_AddElement
  <1>11. Passed(a, c) \cup {t} \in SUBSET Passed(a, t)
    BY <1>7, <1>8
  <1> QED
    BY <1>9, <1>10, <1>11, FS_Subset

LEMMA SomePassed ==
    ASSUME StoreTypeOK, NEW t \in ready, NEW a \in ready, a # t
    PROVE  1 <= Cardinality(Passed(a, t))
  <1>1. \A b \in ready : At(b) \in Nat
    BY PlaceOf DEF StoreTypeOK
  <1>2. At(a) # At(t)
    BY PlaceOf DEF StoreTypeOK
  <1>3. t \in Passed(a, t)
    BY <1>1, <1>2 DEF Passed
  <1>4. IsFiniteSet(Passed(a, t)) /\ Cardinality(Passed(a, t)) \in Nat
    BY PassedCount
  <1>5. Cardinality(Passed(a, t)) # 0
    BY <1>3, <1>4, FS_EmptySet
  <1> QED
    BY <1>4, <1>5

\* The rotation gives a turn in one step, starts over in others, and stands still in all
\* that remain.
GivesTurn == /\ Turn # None /\ cursor' = Turn
             /\ turns' = [a \in Accounts |-> IF a = Turn THEN 0 ELSE turns[a] + 1]
StartsOver == turns' = [a \in Accounts |-> 0]

LEMMA RotationSteps ==
    ASSUME [Next]_vars
    PROVE  \/ StartsOver
           \/ ready' = ready /\ (UNCHANGED <<cursor, turns>> \/ GivesTurn)
  <1>1. CASE \E a \in Accounts : EntryChanges(a)
    BY <1>1 DEF EntryChanges, StartsOver
  <1>2. CASE \A a \in Accounts : ~EntryChanges(a)
    <2>1. ready' = ready
      BY <1>2, ReadyStays
    <2>2. ASSUME NEW f \in Flushers, Loop(f)
          PROVE  StartsOver \/ UNCHANGED <<cursor, turns>> \/ GivesTurn
      BY <2>2 DEF Loop, Stop, Wait, StartUsage, StartQuota, StartThrows, StartsOver, GivesTurn
    <2>3. \/ \E f \in Flushers : Loop(f)
          \/ UNCHANGED <<cursor, turns>>
      <3>1. ASSUME NEW f \in Flushers,
                   TokenAnswer(f) \/ QuotaDone(f) \/ QuotaThrows(f) \/ UsageDone(f)
            PROVE  UNCHANGED <<cursor, turns>>
        BY <3>1 DEF TokenAnswer, QuotaDone, QuotaThrows, UsageDone
      <3>2. ASSUME AutoOwnQuota \/ AutoDecide \/ AutoSwitch
            PROVE  UNCHANGED <<cursor, turns>>
        BY <3>2 DEF AutoOwnQuota, AutoDecide, AutoSwitch, Untouched
      <3>3. ASSUME UNCHANGED coordinatorVars PROVE UNCHANGED <<cursor, turns>>
        BY <3>3 DEF coordinatorVars
      <3>4. ASSUME Tick \/ Activate \/ RefreshAll \/ SwitchToProvider
            PROVE  UNCHANGED <<cursor, turns>>
        BY <3>4 DEF Tick, Activate, RefreshAll, SwitchToProvider, Untouched
      <3>5. ASSUME NEW a, SwitchTo(a) \/ CommandMarks(a) PROVE UNCHANGED <<cursor, turns>>
        BY <3>5 DEF SwitchTo, CommandMarks, Untouched
      <3>6. ASSUME NEW f, RefreshDashboard(f) PROVE UNCHANGED <<cursor, turns>>
        BY <3>6 DEF RefreshDashboard, Untouched
      <3>7. ASSUME NEW c, NEW targets, CommandRefresh(c, targets)
            PROVE  UNCHANGED <<cursor, turns>>
        BY <3>7 DEF CommandRefresh, Untouched
      <3>8. ASSUME Untouched PROVE UNCHANGED <<cursor, turns>>
        BY <3>8 DEF Untouched
      <3> QED
        BY <1>2, <3>1, <3>2, <3>3, <3>4, <3>5, <3>6, <3>7, <3>8 DEF Next, Progress, vars
    <2> QED
      BY <2>1, <2>2, <2>3
  <1> QED
    BY <1>1, <1>2

LEMMA TurnKeepsRotation ==
    ASSUME StoreTypeOK, CoordinatorTypes, RotationInv, ready' = ready, GivesTurn
    PROVE  RotationInv'
  <1> PICK t : t = Turn
    OBVIOUS
  <1> PICK c \in Accounts \cup {None} : c = IF cursor = None THEN selection ELSE cursor
    BY DEF CoordinatorTypes
  <1>1. t = NextAfter(c) /\ t # None /\ cursor' = t
        /\ turns' = [a \in Accounts |-> IF a = t THEN 0 ELSE turns[a] + 1]
    BY DEF GivesTurn, Turn
  <1>2. t \in ready /\ ready \subseteq Accounts
    BY <1>1, NextPlace DEF StoreTypeOK
  <1>3. \A a \in Accounts : turns[a] \in Nat
    BY DEF CoordinatorTypes
  <1>4. ASSUME NEW a \in ready PROVE turns'[a] <= Cardinality(Passed(a, t))
    <2>1. CASE a = t
      <3>1. Cardinality(Passed(a, t)) \in Nat
        BY <1>2, PassedCount
      <3> QED
        BY <1>1, <1>2, <2>1, <3>1
    <2>2. CASE a # t
      <3>1. turns'[a] = turns[a] + 1
        BY <1>1, <1>2, <2>2
      <3>2. CASE \A b \in Accounts : turns[b] = 0
        <4>1. 1 <= Cardinality(Passed(a, t))
          BY <1>2, <2>2, SomePassed
        <4> QED
          BY <1>2, <3>1, <3>2, <4>1
      <3>3. CASE cursor \in ready /\ turns[a] <= Cardinality(Passed(a, cursor))
        <4>1. cursor # None
          BY <1>2, <3>3, StoreAssumption
        <4>2. c = cursor
          BY <4>1
        <4>3. Cardinality(Passed(a, c)) + 1 <= Cardinality(Passed(a, t))
          BY <1>1, <2>2, <3>3, <4>2, OneMorePassed
        <4>4. Cardinality(Passed(a, c)) \in Nat /\ Cardinality(Passed(a, t)) \in Nat
          BY <1>2, <3>3, <4>2, PassedCount
        <4> QED
          BY <1>2, <1>3, <3>1, <3>3, <4>2, <4>3, <4>4
      <3> QED
        BY <3>2, <3>3 DEF RotationInv
    <2> QED
      BY <2>1, <2>2
  <1>5. \A a : Passed(a, cursor)' = Passed(a, t)
    BY <1>1 DEF Passed
  <1> QED
    BY <1>1, <1>2, <1>4, <1>5 DEF RotationInv

LEMMA RotationStep ==
    ASSUME StoreTypeOK, CoordinatorTypes, RotationInv, [Next]_vars
    PROVE  RotationInv'
  <1>1. CASE StartsOver
    BY <1>1 DEF StartsOver, RotationInv
  <1>2. CASE ready' = ready /\ UNCHANGED <<cursor, turns>>
    BY <1>2 DEF RotationInv, Passed
  <1>3. CASE ready' = ready /\ GivesTurn
    BY <1>3, TurnKeepsRotation
  <1> QED
    BY <1>1, <1>2, <1>3, RotationSteps

LEMMA RotationReaches ==
    ASSUME StoreTypeOK, CoordinatorTypes, RotationInv PROVE RotationReachesAll
  <1> SUFFICES ASSUME NEW a \in ready PROVE turns[a] < Cardinality(ready)
    BY DEF RotationReachesAll
  <1>1. IsFiniteSet(ready) /\ a \in Accounts /\ turns[a] \in Nat
    BY AccountsFinite, FS_Subset DEF StoreTypeOK, CoordinatorTypes
  <1>2. Cardinality(ready) \in Nat /\ Cardinality(ready) # 0
    BY <1>1, FS_CardinalityType, FS_EmptySet
  <1>3. CASE \A b \in Accounts : turns[b] = 0
    BY <1>1, <1>2, <1>3
  <1>4. CASE cursor \in ready /\ turns[a] <= Cardinality(Passed(a, cursor))
    BY <1>1, <1>2, <1>4, PassedCount
  <1> QED
    BY <1>3, <1>4 DEF RotationInv

\* While the accounts stay and nobody moves the cursor, every account has its turn in
\* each round of timer ticks, whatever is asked for in between.
THEOREM EveryAccountHasItsTurn == Spec => []RotationReachesAll
  <1>1. Init => RotationInv
    BY DEF Init, RotationInv
  <1>2. StoreInv /\ CoordinatorTypes /\ RotationInv /\ [Next]_vars => RotationInv'
    BY RotationStep DEF StoreInv
  <1>3. StoreInv /\ CoordinatorTypes /\ RotationInv => RotationReachesAll
    BY RotationReaches DEF StoreInv
  <1> QED
    BY <1>1, <1>2, <1>3, StoreInvariant, TypesHold, PTL DEF Spec
=============================================================================
