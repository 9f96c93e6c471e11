------------------------- MODULE RefreshCoordinator -------------------------
(***************************************************************************)
(* Who refreshes the quota, and when: the requests the coordinator of a    *)
(* window collects (refreshCoordinator.ts), the loops that serve them one  *)
(* at a time, the rotation that maintains one account per timer tick, and  *)
(* the automatic switch away from an exhausted account (commands.ts), over *)
(* the quota store and beside the commands that use the store directly.    *)
(*                                                                         *)
(* A step runs from one await to the next.  createSavedEntriesSnapshot     *)
(* reads the present accounts and selection.                               *)
(***************************************************************************)
EXTENDS QuotaStore, Sequences

CONSTANTS
    Flushers,     \* calls of flushScheduledRefresh: timers and commands
    Commands,     \* commands that refresh quota themselves
    Order,        \* the accounts by source and name
    MaxEvents,    \* bound on timer ticks and user actions
    MaxSwitches   \* bound on automatic switches

ASSUME CoordinatorAssumption ==
    /\ Callers = Flushers \cup Commands
    /\ Flushers \cap Commands = {}
    /\ Order \in Seq(Accounts)
    /\ \A a \in Accounts : \E i \in 1 .. Len(Order) : Order[i] = a
    /\ \A i, k \in 1 .. Len(Order) : Order[i] = Order[k] => i = k

VARIABLES
    selection,    \* the selected account, or None
    pending,      \* the requests collected
    scheduled,    \* the flush timer is armed
    running,      \* the loop whose refresh runs, or None
    pc, job,      \* per loop: where it is, and the refresh it runs
    cursor,       \* lastAutoRefreshAccountId
    auto,         \* the automatic switch under way
    events,       \* how many events there have been
    owed,         \* accounts somebody asked to refresh and nobody has yet
    turns         \* per account: rotations since it had its turn

coordinatorVars == <<selection, pending, scheduled, running, pc, job, cursor,
                     auto, events, owed, turns>>
vars == <<storeVars, coordinatorVars>>

Pending == [full : BOOLEAN, auto : BOOLEAN, targets : SUBSET Accounts,
            timer : BOOLEAN,   \* the last reason was the timer
            usage : BOOLEAN]
Jobs == [targets : SUBSET Accounts, turn : Accounts \cup {None},
         timer : BOOLEAN, exhausted : Accounts \cup {None}]
NoJob == [targets |-> {}, turn |-> None, timer |-> FALSE, exhausted |-> None]
NoAuto == [at |-> "idle", from |-> None, to |-> None, late |-> FALSE, done |-> 0]

Init ==
    /\ StoreInit
    /\ selection \in Accounts \cup {None}
    /\ pending = [full |-> FALSE, auto |-> FALSE, targets |-> {},
                  timer |-> FALSE, usage |-> FALSE]
    /\ scheduled = FALSE
    /\ running = None
    /\ pc = [f \in Flushers |-> "idle"]
    /\ job = [f \in Flushers |-> NoJob]
    /\ cursor = None
    /\ auto = NoAuto
    /\ events = 0
    /\ owed = {}
    /\ turns = [a \in Accounts |-> 0]

-----------------------------------------------------------------------------
(* Collecting requests: enqueueQuotaRefresh. *)

Full(p) == [p EXCEPT !.full = TRUE, !.auto = FALSE, !.targets = {},
                     !.timer = FALSE]

\* Seeded fault: a timer tick takes the place of what was collected.
OnlyCurrentOrNext(p, timer) ==
    [p EXCEPT !.auto = ~p.full, !.targets = {}, !.timer = timer]

CurrentOrNext(p, timer) == [p EXCEPT !.auto = @ \/ ~p.full, !.timer = timer]

Explicit(p, ids) ==
    IF p.full THEN [p EXCEPT !.timer = FALSE]
    ELSE [p EXCEPT !.auto = FALSE, !.targets = @ \cup ids, !.timer = FALSE]

WithUsage(p) == [p EXCEPT !.usage = TRUE]

HasPendingQuota(p) == p.full \/ p.auto \/ p.targets # {}

\* ensureScheduled: a refresh that runs looks again when it ends.
Schedule(p) ==
    /\ pending' = p
    /\ scheduled' = (scheduled \/ running = None)

Event == events < MaxEvents /\ events' = events + 1

Untouched == UNCHANGED <<running, job, cursor, turns>>

\* The interval timer; usage is not indexed more than once a minute.
Tick ==
    /\ Event /\ Untouched
    /\ \E usage \in {pending, WithUsage(pending)} :
          Schedule(CurrentOrNext(usage, TRUE))
    /\ UNCHANGED <<storeVars, selection, pc, auto, owed>>

\* Activation and changed settings: the current selection is refreshed.
Activate ==
    /\ Event /\ Untouched
    /\ ReconcileAccounts
    /\ Schedule(CurrentOrNext(WithUsage(pending), FALSE))
    /\ UNCHANGED <<selection, pc, auto, owed>>

\* What the commands do when they have changed the saved entries (refreshAll).
RefreshAll ==
    /\ Event /\ Untouched
    /\ ReconcileAccounts
    /\ Schedule(Full(WithUsage(pending)))
    /\ owed' = ready
    /\ UNCHANGED <<selection, pc, auto>>

\* The user selects an account; activateSavedAccount refreshes views and quota.
SwitchTo(a) ==
    /\ Event /\ Untouched
    /\ a \in ready /\ selection # a
    /\ selection' = a
    /\ auto' = [auto EXCEPT !.late = @ \/ auto.at = "switch"]
    /\ ReconcileAccounts
    /\ Schedule(Explicit(WithUsage(pending), {a}))
    /\ owed' = owed \cup {a}
    /\ UNCHANGED pc

\* A provider is selected, and only the views are drawn again: the request is for
\* the current account, and a selected provider has none.
SwitchToProvider ==
    /\ Event /\ Untouched
    /\ selection' = None
    /\ auto' = [auto EXCEPT !.late = @ \/ auto.at = "switch"]
    /\ ReconcileAccounts
    /\ Schedule(CurrentOrNext(WithUsage(pending), FALSE))
    /\ UNCHANGED <<pc, owed>>

\* The dashboard asks for everything and waits for it.
RefreshDashboard(f) ==
    /\ Event /\ Untouched
    /\ pc[f] = "idle"
    /\ ReconcileAccounts
    /\ Schedule(Full(WithUsage(pending)))
    /\ owed' = ready
    /\ pc' = [pc EXCEPT ![f] = "loop"]
    /\ UNCHANGED <<selection, auto>>

\* refreshQuota and refreshTokenAndQuota ask the store directly.
CommandRefresh(c, targets) ==
    /\ Event /\ Untouched
    /\ ~Calling(c)
    /\ RefreshQuota(c, targets)
    /\ owed' = owed \ targets
    /\ UNCHANGED <<selection, pending, scheduled, pc, auto>>

\* A token refresh by a command finds that a login is needed.
CommandMarks(a) ==
    /\ Event /\ Untouched
    /\ a \in ready
    /\ MarkReloginRequired(a)
    /\ UNCHANGED <<selection, pending, scheduled, pc, auto, owed>>

\* Saved entries change under the window.
EntryChanges(a) ==
    /\ Event
    /\ AccountsChange(a)
    /\ owed' = owed \ {a}
    /\ turns' = [b \in Accounts |-> 0]
    /\ selection' = IF selection = a THEN None ELSE selection
    /\ auto' = [auto EXCEPT !.late = @ \/ auto.at = "switch"]
    /\ UNCHANGED <<pending, scheduled, running, pc, job, cursor>>

-----------------------------------------------------------------------------
(* flushScheduledRefresh. *)

\* Only the call without a caller (void) may find nothing to do.
Stop(f) ==
    /\ running = None /\ ~HasPendingQuota(pending) /\ ~pending.usage
    /\ pc' = [pc EXCEPT ![f] = "idle"]
    /\ UNCHANGED <<storeVars, pending, running, job, cursor, owed, turns>>

Wait(f) ==
    /\ running # None
    /\ pc' = [pc EXCEPT ![f] = "waiting"]
    /\ UNCHANGED <<storeVars, pending, running, job, cursor, owed, turns>>

\* The places of the ready accounts.
Places == {i \in 1 .. Len(Order) : Order[i] \in ready}

AtFirst(places) == Order[CHOOSE i \in places : \A k \in places : i <= k]

\* Seeded fault: the first account has every turn.
AlwaysFirst(a) == IF Places = {} THEN None ELSE AtFirst(Places)

\* getNextAutoRefreshTarget: the next one, and after the last, or when `a` is not
\* there, the first.
NextAfter(a) ==
    LET later == {i \in Places : \E k \in Places : Order[k] = a /\ k < i}
    IN  IF Places = {} THEN None
        ELSE IF later = {} THEN AtFirst(Places)
        ELSE AtFirst(later)

Turn == NextAfter(IF cursor = None THEN selection ELSE cursor)

IsTurn == /\ ~pending.full /\ pending.targets = {}
          /\ pending.auto /\ pending.timer

\* The accounts a refresh is for; the automatic switch watches the current one.
Targets ==
    IF pending.full THEN ready
    ELSE IF pending.targets # {} THEN pending.targets
    ELSE (IF IsTurn THEN {Turn, selection} ELSE {selection}) \ {None}

\* From the drained requests, or from the token refresh, to the queries.
Query(f, targets, timer) ==
    /\ RefreshQuota(f, targets)
    /\ pc' = [pc EXCEPT ![f] = "query"]
    /\ job' = [job EXCEPT ![f] =
                 [NoJob EXCEPT !.targets = targets, !.exhausted =
                     IF selection \in targets \cap ready THEN selection ELSE None]]
    /\ owed' = owed \ targets

\* A refresh of the current account moves the cursor, unless the timer made it.
MovesCursor(targets, timer) == ~timer /\ selection # None /\ selection \in targets

\* clearPendingQuotaRefresh.
Drain == pending' = [pending EXCEPT !.full = FALSE, !.auto = FALSE, !.targets = {}]

StartQuota(f) ==
    /\ running = None /\ HasPendingQuota(pending)
    /\ running' = f
    /\ Drain
    /\ \/ /\ IsTurn /\ Turn # None
          /\ cursor' = Turn
          /\ turns' = [a \in Accounts |-> IF a = Turn THEN 0 ELSE turns[a] + 1]
          /\ pc' = [pc EXCEPT ![f] = "token"]
          /\ job' = [job EXCEPT ![f] = [targets |-> Targets, turn |-> Turn,
                                        timer |-> TRUE, exhausted |-> None]]
          /\ UNCHANGED <<storeVars, owed>>
       \/ /\ ~(IsTurn /\ Turn # None)
          /\ Query(f, Targets, pending.timer)
          /\ IF MovesCursor(Targets, pending.timer)
             THEN cursor' = selection /\ turns' = [a \in Accounts |-> 0]
             ELSE UNCHANGED <<cursor, turns>>

\* The queue is drained and the saved entries cannot be read: the loop ends in the
\* error, and nobody has what was drained.
StartThrows(f) ==
    /\ running = None /\ HasPendingQuota(pending)
    /\ Drain
    /\ scheduled' = pending.usage
    /\ pc' = [pc EXCEPT ![f] = "idle"]
    /\ owed' = owed \ Targets
    /\ UNCHANGED <<storeVars, running, job, cursor, turns>>

\* Seeded fault: the running refresh is not looked at.
StartUsageBeside(f) ==
    /\ ~HasPendingQuota(pending) /\ pending.usage
    /\ running' = f
    /\ pending' = [pending EXCEPT !.usage = FALSE]
    /\ pc' = [pc EXCEPT ![f] = "usage"]
    /\ UNCHANGED <<storeVars, job, cursor, owed, turns>>

StartUsage(f) ==
    /\ running = None /\ ~HasPendingQuota(pending) /\ pending.usage
    /\ running' = f
    /\ pending' = [pending EXCEPT !.usage = FALSE]
    /\ pc' = [pc EXCEPT ![f] = "usage"]
    /\ UNCHANGED <<storeVars, job, cursor, owed, turns>>

\* One pass: of a loop that goes on, or of one that the timer starts.
Loop(f) ==
    /\ pc[f] = "loop" \/ (pc[f] = "idle" /\ scheduled)
    /\ \/ scheduled' = FALSE /\ (Stop(f) \/ Wait(f) \/ StartQuota(f) \/ StartUsage(f))
       \/ StartThrows(f)
    /\ UNCHANGED <<selection, auto, events>>

\* maybeRefreshExpiringToken: refreshed, not due or failed; or a login is due.
TokenAnswer(f) ==
    /\ pc[f] = "token"
    /\ \/ Query(f, job[f].targets, TRUE)
       \/ /\ MarkReloginRequired(job[f].turn)
          /\ pc' = [pc EXCEPT ![f] = "query"]
          /\ job' = [job EXCEPT ![f] = NoJob]
          /\ UNCHANGED owed
    /\ UNCHANGED <<selection, pending, scheduled, running, cursor, auto, events,
                   turns>>

\* The refresh of f ends, and f and the loops that wait for it go to `next`.
Ends(f, next) ==
    /\ running' = None
    /\ scheduled' = (HasPendingQuota(pending) \/ pending.usage)
    /\ pc' = [g \in Flushers |->
                 IF g = f \/ pc[g] = "waiting" THEN next ELSE pc[g]]
    /\ job' = [job EXCEPT ![f] = NoJob]

Finish(f) == Ends(f, "loop")

\* The entries cannot be read after the token refresh, or, for nobody to query, the
\* status bar fails: every loop that waits ends in the error too.
QuotaThrows(f) ==
    /\ \/ pc[f] = "token"
       \/ pc[f] = "query" /\ job[f].targets = {}
    /\ Ends(f, "idle")
    /\ UNCHANGED <<storeVars, selection, pending, cursor, auto, events, owed,
                   turns>>

AutoEnds(done) == auto' = [NoAuto EXCEPT !.done = done]

\* maybeAutoSwitchExhaustedAccount, unless one is under way or it cools down.
RequestAutoSwitch(a) ==
    \/ UNCHANGED auto
    \/ /\ a # None /\ auto.at = "idle"
       /\ selection = a /\ a \in ready
       /\ auto' = [auto EXCEPT !.at = "own", !.from = a]

QuotaDone(f) ==
    /\ pc[f] = "query" /\ ~Calling(f)
    /\ RequestAutoSwitch(job[f].exhausted)
    /\ Finish(f)
    /\ UNCHANGED <<storeVars, selection, pending, cursor, events, owed, turns>>

\* The index is up to date: the views are drawn again.
UsageDone(f) ==
    /\ pc[f] = "usage"
    /\ ReconcileAccounts
    /\ Finish(f)
    /\ UNCHANGED <<selection, pending, cursor, auto, events, owed, turns>>

-----------------------------------------------------------------------------
(* maybeAutoSwitchExhaustedAccount. *)

\* The account's own quota is asked for again, then that of the others.
AutoOwnQuota ==
    /\ auto.at = "own"
    /\ AutoEnds(auto.done) \/ auto' = [auto EXCEPT !.at = "candidates"]
    /\ UNCHANGED <<storeVars, selection, pending, scheduled, running, pc, job,
                   cursor, events, owed, turns>>

\* Seeded fault: the selection is not read again.
AutoDecideBlindly ==
    /\ auto.at = "candidates"
    /\ \/ AutoEnds(auto.done)
       \/ /\ auto.done < MaxSwitches
          /\ \E a \in Accounts \ {auto.from} :
                auto' = [auto EXCEPT !.at = "switch", !.to = a]
    /\ UNCHANGED <<storeVars, selection, pending, scheduled, running, pc, job,
                   cursor, events, owed, turns>>

\* The best candidate is chosen if the exhausted account is still selected.
AutoDecide ==
    /\ auto.at = "candidates"
    /\ \/ AutoEnds(auto.done)
       \/ /\ auto.done < MaxSwitches
          /\ selection = auto.from
          /\ \E a \in Accounts \ {auto.from} :
                auto' = [auto EXCEPT !.at = "switch", !.to = a]
    /\ UNCHANGED <<storeVars, selection, pending, scheduled, running, pc, job,
                   cursor, events, owed, turns>>

\* Seeded fault: the chosen account may have been removed.
AutoSwitchToAny ==
    /\ auto.at = "switch"
    /\ AutoEnds(auto.done + 1)
    /\ auto.to # selection
    /\ selection' = auto.to
    /\ ReconcileAccounts
    /\ Schedule(Explicit(WithUsage(pending), {auto.to}))
    /\ owed' = owed \cup {auto.to}
    /\ Untouched
    /\ UNCHANGED <<pc, events>>

\* useSavedAccountEntry, which first writes the outgoing credentials back.
AutoSwitch ==
    /\ auto.at = "switch"
    /\ AutoEnds(auto.done + 1)
    /\ \/ UNCHANGED <<storeVars, selection, pending, scheduled, owed>>
       \/ /\ auto.to \in ready /\ auto.to # selection
          /\ selection' = auto.to
          /\ ReconcileAccounts
          /\ Schedule(Explicit(WithUsage(pending), {auto.to}))
          /\ owed' = owed \cup {auto.to}
    /\ Untouched
    /\ UNCHANGED <<pc, events>>

-----------------------------------------------------------------------------

Progress ==
    \/ \E q \in queries : (Ask(q) \/ Answer(q)) /\ UNCHANGED coordinatorVars
    \/ \E f \in Flushers :
          \/ Loop(f) \/ TokenAnswer(f)
          \/ QuotaDone(f) \/ QuotaThrows(f) \/ UsageDone(f)
    \/ AutoOwnQuota \/ AutoDecide \/ AutoSwitch

Next ==
    \/ Progress
    \/ \E a \in Accounts : OtherWindow(a) /\ Event
                           /\ UNCHANGED <<selection, pending, scheduled, pc, auto, owed>>
                           /\ Untouched
    \/ Tick \/ Activate \/ RefreshAll \/ SwitchToProvider
    \/ \E a \in Accounts : SwitchTo(a) \/ CommandMarks(a) \/ EntryChanges(a)
    \/ \E f \in Flushers : RefreshDashboard(f)
    \/ \E c \in Commands, targets \in SUBSET Accounts \ {{}} :
          CommandRefresh(c, targets)

\* Timers fire, loops go on, and every request ends in an answer or an error.
Fairness == WF_vars(Progress)

Spec == Init /\ [][Next]_vars /\ Fairness

-----------------------------------------------------------------------------

TypeOK ==
    /\ StoreTypeOK
    /\ selection \in Accounts \cup {None}
    /\ pending \in Pending
    /\ running \in Flushers \cup {None}
    /\ pc \in [Flushers -> {"idle", "loop", "waiting", "token", "query", "usage"}]
    /\ job \in [Flushers -> Jobs]
    /\ cursor \in Accounts \cup {None}
    /\ auto \in [at : {"idle", "own", "candidates", "switch"},
                 from : Accounts \cup {None}, to : Accounts \cup {None},
                 late : BOOLEAN, done : Nat]
    /\ owed \subseteq ready
    /\ turns \in [Accounts -> Nat]

\* No two refreshes of the coordinator run at once, and the one that runs is
\* the one the others wait for (runningRefresh).
OneRefreshRuns ==
    \A f \in Flushers : pc[f] \in {"token", "query", "usage"} <=> running = f

\* As long as the accounts stay and nobody moves the cursor, every account has
\* its turn in each round of timer ticks (getNextAutoRefreshTarget).
RotationReachesAll == \A a \in ready : turns[a] < Cardinality(ready)

\* An automatic switch leaves the exhausted account, and no other: the user's
\* own choice stands if it was made before the decision.  One made while the
\* outgoing credentials are written back is overridden.
AutoSwitchLeavesExhausted ==
    [][auto.at = "switch" /\ auto'.at = "idle" /\ selection' # selection
         => selection = auto.from \/ auto.late]_vars

\* What somebody asked for by name, or by asking for everything, is refreshed
\* unless it goes away or the refresh that took it up throws: no later request
\* replaces it and no loop drops it (enqueueQuotaRefresh, flushScheduledRefresh).
OwedIsServed == \A a \in Accounts : a \in owed ~> a \notin owed
=============================================================================
