---------------------------- MODULE AtomicSwitch ----------------------------
(***************************************************************************)
(* What a live switch promises: the selection, the credentials in          *)
(* auth.json and the OpenAI base URL change together, in one step, to the  *)
(* saved entry that was chosen, or not at all; and the credentials that    *)
(* leave auth.json are in the saved store when they do.                    *)
(***************************************************************************)
EXTENDS Naturals

CONSTANTS
    Accounts,     \* saved ChatGPT accounts
    Providers,    \* saved API providers
    UserUrl,      \* openai_base_url as the user configured it, or its absence
    Nobody        \* no provider, no saved entry

VARIABLES
    mode,         \* [via, provider]: how requests are routed
    auth,         \* credentials in auth.json: [of, ver]
    url,          \* effective openai_base_url
    saved,        \* per entry: its saved credentials, or Nobody
    latest        \* per entry: the newest version of its credentials

vars == <<mode, auth, url, saved, latest>>

Entries == Accounts \cup Providers
AccountMode == [via |-> "account", provider |-> Nobody]
Modes == {AccountMode} \cup [via : {"shared", "separate"}, provider : Providers]

UrlIn(m) == IF m.via = "shared" THEN m.provider ELSE UserUrl

\* The outgoing credentials are saved, unless their entry was deleted.
OutgoingSaved == saved[auth.of] \in {auth, Nobody}

Init ==
    /\ mode \in Modes
    /\ latest = [e \in Entries |-> 1]
    /\ \E known \in SUBSET Entries :
         saved = [e \in Entries |->
                    IF e \in known THEN [of |-> e, ver |-> 1] ELSE Nobody]
    /\ \E e \in Entries :
        /\ mode # AccountMode => e = mode.provider
        /\ auth = [of |-> e, ver |-> 1]
    /\ url = UrlIn(mode)

Route(m) == mode' = m /\ url' = UrlIn(m)

\* The credentials in auth.json are written back to their saved entry.
Save ==
    /\ saved[auth.of] # Nobody
    /\ saved' = [saved EXCEPT ![auth.of] = auth]
    /\ UNCHANGED <<mode, auth, url, latest>>

SelectAccount(a) ==
    /\ saved[a] # Nobody
    /\ OutgoingSaved
    /\ auth' = saved[a]
    /\ Route(AccountMode)
    /\ UNCHANGED <<saved, latest>>

SelectProvider(p, via) ==
    /\ saved[p] # Nobody
    /\ OutgoingSaved
    /\ auth' = saved[p]
    /\ Route([via |-> via, provider |-> p])
    /\ UNCHANGED <<saved, latest>>

\* Account mode without naming an account keeps auth.json.
LeaveProvider ==
    /\ Route(AccountMode)
    /\ UNCHANGED <<auth, saved, latest>>

\* Codex refreshes the tokens of an account, or the user replaces the key of
\* the active provider, in auth.json.
Rotate ==
    /\ latest' = [latest EXCEPT ![auth.of] = @ + 1]
    /\ auth' = [auth EXCEPT !.ver = latest[auth.of] + 1]
    /\ UNCHANGED <<mode, url, saved>>

DeleteProvider(p) ==
    /\ mode.provider # p
    /\ saved' = [saved EXCEPT ![p] = Nobody]
    /\ UNCHANGED <<mode, auth, url, latest>>

Next ==
    \/ Save \/ LeaveProvider \/ Rotate
    \/ \E a \in Accounts : SelectAccount(a)
    \/ \E p \in Providers : DeleteProvider(p)
    \/ \E p \in Providers, via \in {"shared", "separate"} : SelectProvider(p, via)

Spec == Init /\ [][Next]_vars
=============================================================================
