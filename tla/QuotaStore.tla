----------------------------- MODULE QuotaStore -----------------------------
(***************************************************************************)
(* The quota every view of a window shows (quotaStore.ts) and the queries  *)
(* that fill it, each through the cache that all windows share             *)
(* (queryQuotaWithCache in quotaCache.ts, as the store sees it).           *)
(*                                                                         *)
(* A call of refreshQuota asks for several accounts at once; calls         *)
(* overlap, accounts are removed meanwhile, and a token refresh may find   *)
(* that an account needs a new login.  The generation of an account tells  *)
(* which answers still count.                                              *)
(***************************************************************************)
EXTENDS Naturals, FiniteSets

CONSTANTS
    Accounts,     \* identifiers of saved accounts
    Callers,      \* whoever calls refreshQuota, one call at a time each
    None,         \* no state, no account
    Concurrency,  \* how many accounts one call asks for at a time
    MaxClock,     \* bound on answers with new numbers, from any window
    MaxGen        \* bound on the generations of one account

ASSUME StoreAssumption ==
    /\ None \notin Accounts \cup Callers
    /\ Concurrency \in Nat \ {0}
    /\ MaxClock \in Nat /\ MaxGen \in Nat

VARIABLES
    ready,        \* the accounts whose saved entry can be used
    clock,        \* advances with every answer that brings new numbers
    cache,        \* per account: age of the cached numbers, or 0
    states,       \* per account: what is shown, or None
    generations,  \* per account: the number of the last request
    queries,      \* requests under way
    disposed

storeVars == <<ready, clock, cache, states, generations, queries, disposed>>

States == [info : Nat,      \* when the numbers were measured, or 0
           at : Nat,        \* what queriedAt says of that
           loading : BOOLEAN,
           relogin : BOOLEAN,
           attempt : Nat]   \* refreshAttemptedAt, as the request's generation

ASSUME NullAssumption == None \notin States

Queries == [call : Callers, of : Accounts, gen : Nat,
            asked : BOOLEAN,  \* the worker has begun with this account
            cached : Nat]     \* the cached numbers it found then

emptyState == [info |-> 0, at |-> 0, loading |-> FALSE, relogin |-> FALSE,
               attempt |-> 0]

Known(a) == IF states[a] = None THEN emptyState ELSE states[a]

IsCurrent(q) == generations[q.of] = q.gen

Calling(c) == \E q \in queries : q.call = c

StoreInit ==
    /\ ready \in SUBSET Accounts
    /\ clock = 0
    /\ cache = [a \in Accounts |-> 0]
    /\ states = [a \in Accounts |-> None]
    /\ generations = [a \in Accounts |-> 0]
    /\ queries = {}
    /\ disposed = FALSE

-----------------------------------------------------------------------------

\* Newer numbers in the cache replace what is shown, unless a request runs.
Hydrates(a) ==
    /\ cache[a] # 0
    /\ ~Known(a).loading
    /\ Known(a).info # 0 => Known(a).at < cache[a]

Reconciled ==
    [a \in Accounts |->
        IF a \notin ready THEN None
        ELSE IF Hydrates(a)
        THEN [Known(a) EXCEPT !.info = cache[a], !.at = cache[a], !.relogin = FALSE]
        ELSE states[a]]

Removed == {a \in Accounts \ ready : states[a] # None}

ReconcileAccounts ==
    /\ ~disposed
    /\ states' = Reconciled
    /\ generations' = [a \in Accounts |->
                          generations[a] + (IF a \in Removed THEN 1 ELSE 0)]
    /\ UNCHANGED <<ready, clock, cache, queries, disposed>>

\* A call that names the accounts `targets`: those that are ready are asked for.
RefreshQuota(c, targets) ==
    LET asked == targets \cap ready
        nextGen == [a \in Accounts |->
                       generations[a] + (IF a \in Removed \cup asked THEN 1 ELSE 0)]
        loading(s, a) == [s EXCEPT !.loading = TRUE, !.relogin = FALSE,
                                   !.attempt = nextGen[a]]
        next == [a \in Accounts |->
                    IF a \notin asked THEN Reconciled[a]
                    ELSE loading(IF Reconciled[a] = None THEN emptyState
                                 ELSE Reconciled[a], a)]
    IN  /\ ~disposed
        /\ generations' = nextGen
        /\ states' = next
        /\ queries' = queries \cup
                {[call |-> c, of |-> a, gen |-> nextGen[a], asked |-> FALSE,
                  cached |-> 0] : a \in asked}
        /\ UNCHANGED <<ready, clock, cache, disposed>>

\* Seeded fault: the mark leaves the account loading.
MarkStillLoading(a) ==
    /\ ~disposed
    /\ generations' = [generations EXCEPT ![a] = @ + 1]
    /\ states' = [states EXCEPT ![a] = [Known(a) EXCEPT !.relogin = TRUE]]
    /\ UNCHANGED <<ready, clock, cache, queries, disposed>>

\* Seeded fault: requests begun before the mark still count.
MarkNoGeneration(a) ==
    /\ ~disposed
    /\ states' = [states EXCEPT ![a] =
                     [Known(a) EXCEPT !.loading = FALSE, !.relogin = TRUE]]
    /\ UNCHANGED <<ready, clock, cache, generations, queries, disposed>>

MarkReloginRequired(a) ==
    /\ ~disposed
    /\ generations' = [generations EXCEPT ![a] = @ + 1]
    /\ states' = [states EXCEPT ![a] =
                     [Known(a) EXCEPT !.loading = FALSE, !.relogin = TRUE]]
    /\ UNCHANGED <<ready, clock, cache, queries, disposed>>

-----------------------------------------------------------------------------
(* One account of a call: the worker asks, and an answer comes back later. *)

Ask(q) ==
    /\ ~q.asked
    /\ Cardinality({p \in queries : p.call = q.call /\ p.asked}) < Concurrency
    /\ queries' = (queries \ {q})
            \cup {[q EXCEPT !.asked = TRUE, !.cached = cache[q.of]]}
    /\ UNCHANGED <<ready, clock, cache, states, generations, disposed>>

\* Seeded fault: every answer is taken.
ApplyAny(q, state) == states' = [states EXCEPT ![q.of] = state]

\* An answer that is not the newest request's is dropped.
Apply(q, state) ==
    states' = IF IsCurrent(q) THEN [states EXCEPT ![q.of] = state] ELSE states

\* New numbers, which other windows find in the cache if it can be written.
AnswerFromNetwork(q) ==
    /\ clock < MaxClock
    /\ clock' = clock + 1
    /\ cache' \in {cache, [cache EXCEPT ![q.of] = clock + 1]}
    /\ \E relogin \in BOOLEAN :
          Apply(q, [info |-> clock + 1, at |-> clock + 1, loading |-> FALSE,
                    relogin |-> relogin, attempt |-> q.gen])

\* Numbers from the cache: fresh ones, those of a busy window, or a fallback
\* after a failure, which was read before the request was made.
AnswerFromCache(q) ==
    \E info \in {q.cached, cache[q.of]} \ {0}, relogin \in BOOLEAN :
        /\ q.cached # 0 => info = q.cached
        /\ Apply(q, [info |-> info, at |-> cache[q.of], loading |-> FALSE,
                     relogin |-> relogin, attempt |-> q.gen])
        /\ UNCHANGED <<clock, cache>>

\* No numbers at all: what was shown stays, with the error beside it.
AnswerWithError(q) ==
    \E relogin \in BOOLEAN :
        /\ Apply(q, [Known(q.of) EXCEPT !.loading = FALSE, !.relogin = relogin,
                                        !.attempt = q.gen])
        /\ UNCHANGED <<clock, cache>>

Answer(q) ==
    /\ q.asked
    /\ queries' = queries \ {q}
    /\ AnswerFromNetwork(q) \/ AnswerFromCache(q) \/ AnswerWithError(q)
    /\ UNCHANGED <<ready, generations, disposed>>

Dispose ==
    /\ ~disposed
    /\ disposed' = TRUE
    /\ states' = [a \in Accounts |-> None]
    /\ generations' = [a \in Accounts |-> 0]
    /\ UNCHANGED <<ready, clock, cache, queries>>

-----------------------------------------------------------------------------
(* The surroundings. *)

\* An account is saved, removed, locked or unlocked.
AccountsChange(a) ==
    /\ generations[a] < MaxGen
    /\ ready' = IF a \in ready THEN ready \ {a} ELSE ready \cup {a}
    /\ UNCHANGED <<clock, cache, states, generations, queries, disposed>>

\* Another window caches an answer of its own.
OtherWindow(a) ==
    /\ clock < MaxClock
    /\ clock' = clock + 1
    /\ cache' = [cache EXCEPT ![a] = clock + 1]
    /\ UNCHANGED <<ready, states, generations, queries, disposed>>

StoreEvents ==
    \/ ReconcileAccounts
    \/ Dispose
    \/ \E q \in queries : Ask(q) \/ Answer(q)
    \/ \E a \in Accounts : OtherWindow(a)

MayRefresh(targets) == \A a \in targets : generations[a] < MaxGen

StoreNext ==
    \/ StoreEvents
    \/ \E a \in Accounts :
          \/ AccountsChange(a)
          \/ MayRefresh({a}) /\ MarkReloginRequired(a)
    \/ \E c \in Callers, targets \in SUBSET Accounts :
          ~Calling(c) /\ MayRefresh(targets) /\ RefreshQuota(c, targets)

StoreSpec == StoreInit /\ [][StoreNext]_storeVars

-----------------------------------------------------------------------------

\* Every account has a state or none, and every request a known account.
StoreTypeOK ==
    /\ ready \subseteq Accounts
    /\ clock \in Nat
    /\ cache \in [Accounts -> Nat]
    /\ states \in [Accounts -> States \cup {None}]
    /\ generations \in [Accounts -> Nat]
    /\ queries \subseteq Queries
    /\ disposed \in BOOLEAN

\* No account spins for ever: one that is shown as loading has a request under
\* way whose answer will be accepted (refreshQuota, isCurrent).
LoadingIsPending ==
    \A a \in Accounts :
        Known(a).loading => \E q \in queries : q.of = a /\ IsCurrent(q)

\* The answer of an older request never replaces that of a newer one, and no
\* answer revives an account that was removed meanwhile (isCurrent).
LateAnswerDropped ==
    [][\A a \in Accounts :
          /\ states[a] # None /\ states'[a] # None
                => states'[a].attempt >= states[a].attempt
          /\ states[a] = None /\ (\E q \in queries \ queries' : q.asked /\ q.of = a)
                => states'[a] = None]_storeVars

\* What a token refresh found out is forgotten only for a later request or for
\* newer numbers: no request begun before takes the mark away
\* (markReloginRequired bumps the generation).
ReloginMarkStays ==
    [][\A a \in Accounts :
          Known(a).relogin /\ states'[a] # None /\ ~states'[a].relogin
            => \/ states'[a].attempt > Known(a).attempt
               \/ Hydrates(a)]_storeVars
=============================================================================
