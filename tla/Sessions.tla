------------------------------ MODULE Sessions ------------------------------
(***************************************************************************)
(* The tokens of one user in one browser: login, refresh and logout of the *)
(* backend (routers/auth.py, core/security.py, dependencies/auth.py) and   *)
(* the browser's side of them (lib/api.ts, contexts/AuthContext.tsx).  A   *)
(* grant is the pair of an access and a refresh token issued together.     *)
(* The backend keeps no list of grants, only a denylist in Redis, which it *)
(* does without when a call fails.                                         *)
(*                                                                         *)
(* The tabs of a browser share the token store.  A tab has one request     *)
(* under way that may lead to a refresh: its other requests wait for the   *)
(* same refresh (refreshPromise).                                          *)
(***************************************************************************)
EXTENDS Integers

CONSTANTS
    Tab,        \* tabs of the browser
    MaxGrants,  \* bound: grants ever issued
    MaxMisses     \* bound: failed Redis calls

ASSUME SessionsAssumption == MaxGrants \in Nat /\ MaxMisses \in Nat

Grant == 1 .. MaxGrants
Nobody == 0  \* in place of a grant: no tokens

VARIABLES
    issued,   \* grants issued so far
    denied,   \* the denylist: pairs of a kind of token and a grant
    expired,  \* grants whose access token has expired
    active,   \* User.is_active
    store,    \* the grant whose tokens the browser stores, or Nobody
    tab,      \* [Tab -> where its request is, the grant whose access token it
              \* carries or has been issued, and the grant it is refreshing]
    leaving,  \* the logout under way: where it is, and its grant
    spent,    \* history: [Grant -> refreshes it was exchanged in]
    crossed,  \* history: a refresh had company, or a grant left the store by
              \* a login over it or by the refusal of a blocked user
    dropped,  \* history: grants whose exchange the browser never heard of
    misses    \* history: failed Redis calls

sessionVars == <<issued, denied, expired, active, store, tab, leaving,
                 spent, crossed, dropped, misses>>
server == <<issued, denied, expired, active, spent>>
history == <<crossed, dropped>>

Idle == [at |-> "idle", token |-> Nobody, grant |-> Nobody]
Refreshing == {"check", "load", "rotate", "answer", "refused"}

SessionsInit ==
    /\ issued = 0
    /\ denied = {}
    /\ expired = {}
    /\ active = TRUE
    /\ store = Nobody
    /\ tab = [t \in Tab |-> Idle]
    /\ leaving = [at |-> "idle", grant |-> Nobody]
    /\ spent = [g \in Grant |-> 0]
    /\ crossed = FALSE
    /\ dropped = {}
    /\ misses = 0

-----------------------------------------------------------------------------
At(t, place) == tab[t].at = place
TabGoes(t, place) == tab' = [tab EXCEPT ![t].at = place]

\* A call to Redis fails, as far as the bound lets it.
Fails == misses < MaxMisses /\ misses' = misses + 1
Works == UNCHANGED misses

\* is_token_blacklisted: a denylist that cannot be asked denies nothing.
Passes(kind, g) == (Works /\ <<kind, g>> \notin denied) \/ Fails
Refused(kind, g) == Works /\ <<kind, g>> \in denied

\* blacklist_token: a denylist that cannot be written goes without the token.
Deny(kind, g) ==
    \/ Works /\ denied' = denied \cup {<<kind, g>>}
    \/ Fails /\ UNCHANGED denied

Issue == issued < MaxGrants /\ issued' = issued + 1

\* The login form, whatever tokens are in the store.
Login(t) ==
    /\ At(t, "idle")
    /\ active
    /\ Issue
    /\ store' = issued'
    /\ crossed' = (crossed \/ store # Nobody \/ \E u \in Tab : tab[u].at \in Refreshing)
    /\ UNCHANGED <<denied, expired, active, tab, leaving, spent, dropped, misses>>

\* apiFetch sends a request with the access token of the moment.
Send(t) ==
    /\ At(t, "idle")
    /\ store # Nobody
    /\ tab' = [tab EXCEPT ![t] = [at |-> "authorise", token |-> store, grant |-> Nobody]]
    /\ UNCHANGED <<server, store, leaving, history, misses>>

\* get_current_user for the request, or for its one repetition: 401 for a token
\* that has expired or is denied, else an answer or the 403 of a blocked user.
Authorise(t) ==
    LET a == tab[t].token IN
    /\ tab[t].at \in {"authorise", "retry"}
    /\ \/ a \in expired /\ Works /\ TabGoes(t, IF At(t, "retry") THEN "refused" ELSE "401")
       \/ a \notin expired /\ Refused("access", a)
              /\ TabGoes(t, IF At(t, "retry") THEN "refused" ELSE "401")
       \/ a \notin expired /\ Passes("access", a) /\ tab' = [tab EXCEPT ![t] = Idle]
    /\ UNCHANGED <<server, store, leaving, history>>

Alone(t) ==
    /\ store = tab[t].token
    /\ leaving.at = "idle"
    /\ \A u \in Tab \ {t} : tab[u].at \notin Refreshing

\* refreshAccessToken takes the refresh token of the moment.
BeginRefresh(t) ==
    /\ At(t, "401")
    /\ IF store = Nobody
       THEN TabGoes(t, "refused") /\ UNCHANGED crossed
       ELSE /\ tab' = [tab EXCEPT ![t] = [at |-> "check", token |-> Nobody, grant |-> store]]
            /\ crossed' = (crossed \/ ~Alone(t))
    /\ UNCHANGED <<server, store, leaving, dropped, misses>>

\* refresh looks at the denylist,
Check(t) ==
    LET g == tab[t].grant IN
    /\ At(t, "check")
    /\ \/ Passes("refresh", g) /\ TabGoes(t, "load")
       \/ Refused("refresh", g) /\ TabGoes(t, "refused")
    /\ UNCHANGED <<server, store, leaving, history>>

\* loads the user,
Load(t) ==
    /\ At(t, "load")
    /\ TabGoes(t, IF active THEN "rotate" ELSE "refused")
    /\ UNCHANGED <<server, store, leaving, history, misses>>

\* Faulty: the old refresh token stays good.
RotateKeepsOld(t) ==
    /\ At(t, "rotate")
    /\ Issue
    /\ Works
    /\ spent' = [spent EXCEPT ![tab[t].grant] = @ + 1]
    /\ tab' = [tab EXCEPT ![t] = [at |-> "answer", token |-> issued', grant |-> @.grant]]
    /\ UNCHANGED <<denied, expired, active, store, leaving, history>>
\* denies the old refresh token and issues a new grant.
Rotate(t) ==
    /\ At(t, "rotate")
    /\ Issue
    /\ Deny("refresh", tab[t].grant)
    /\ spent' = [spent EXCEPT ![tab[t].grant] = @ + 1]
    /\ tab' = [tab EXCEPT ![t] = [at |-> "answer", token |-> issued', grant |-> @.grant]]
    /\ UNCHANGED <<expired, active, store, leaving, history>>

\* Faulty: the page keeps the refresh token it has.
AnswerAccessOnly(t) ==
    /\ At(t, "answer")
    /\ tab' = [tab EXCEPT ![t] = [at |-> "retry", token |-> @.token, grant |-> Nobody]]
    /\ UNCHANGED <<server, store, leaving, history, misses>>
\* The answer is stored, whoever is logged in or out by now, and the request
\* repeated.
Answer(t) ==
    /\ At(t, "answer")
    /\ store' = tab[t].token
    /\ tab' = [tab EXCEPT ![t] = [at |-> "retry", token |-> @.token, grant |-> Nobody]]
    /\ UNCHANGED <<server, leaving, history, misses>>

\* The answer never arrives: the network failed, or the tab was closed or
\* reloaded after the refresh was sent.
Drop(t) ==
    /\ At(t, "answer")
    /\ dropped' = dropped \cup {tab[t].grant}
    /\ tab' = [tab EXCEPT ![t] = Idle]
    /\ UNCHANGED <<server, store, leaving, crossed, misses>>

\* The request fails with 401.  When it asked who the user is, the store is
\* cleared, whatever it holds by now.
GiveUp(t) ==
    /\ At(t, "refused")
    /\ store' \in {store, Nobody}
    /\ crossed' = (crossed \/ (store' # store /\ <<"refresh", store>> \notin denied))
    /\ tab' = [tab EXCEPT ![t] = Idle]
    /\ UNCHANGED <<server, leaving, dropped, misses>>

\* The logout button clears the store and sends both tokens.
Logout ==
    /\ leaving.at = "idle"
    /\ store # Nobody
    /\ leaving' = [at |-> "refresh", grant |-> store]
    /\ store' = Nobody
    /\ crossed' = (crossed \/ \E t \in Tab : tab[t].at \in Refreshing)
    /\ UNCHANGED <<server, tab, dropped, misses>>

\* logout denies the refresh token,
DenyRefresh ==
    /\ leaving.at = "refresh"
    /\ Deny("refresh", leaving.grant)
    /\ leaving' = [leaving EXCEPT !.at = "access"]
    /\ UNCHANGED <<issued, expired, active, store, tab, spent, history>>

\* and the access token, unless that has expired.
DenyAccess ==
    /\ leaving.at = "access"
    /\ IF leaving.grant \in expired THEN Works /\ UNCHANGED denied
                                    ELSE Deny("access", leaving.grant)
    /\ leaving' = [at |-> "idle", grant |-> Nobody]
    /\ UNCHANGED <<issued, expired, active, store, tab, spent, history>>

\* An access token reaches its end.
AccessExpires(g) ==
    /\ g <= issued
    /\ g \notin expired
    /\ expired' = expired \cup {g}
    /\ UNCHANGED <<issued, denied, active, store, tab, leaving, spent, history, misses>>

\* An administrator blocks or unblocks the user.
SetActive ==
    /\ active' = ~active
    /\ UNCHANGED <<issued, denied, expired, store, tab, leaving, spent, history, misses>>

SessionsNext ==
    \/ \E t \in Tab :
           \/ Login(t) \/ Send(t) \/ Authorise(t) \/ BeginRefresh(t) \/ Check(t) \/ Load(t)
           \/ Rotate(t) \/ Answer(t) \/ Drop(t) \/ GiveUp(t)
    \/ Logout \/ DenyRefresh \/ DenyAccess
    \/ \E g \in Grant : AccessExpires(g)
    \/ SetActive

SessionsSpec == SessionsInit /\ [][SessionsNext]_sessionVars

-----------------------------------------------------------------------------
\* A refresh token is good for one refresh: "revoke the presented refresh token
\* and issue a new one, so an old (potentially leaked) refresh can't be reused".
RefreshOnce == \A g \in Grant : spent[g] <= 1

\* The browser is never left with a refresh token that will be refused, be it
\* that tabs refresh together, that a logout comes in between or that Redis
\* fails: the answer with its successor is still to come, or was lost.
StoreIsLive ==
    <<"refresh", store>> \in denied =>
        store \in dropped \/ \E t \in Tab : At(t, "answer") /\ tab[t].grant = store

\* When nothing is under way, the tokens in the store are the only ones that
\* are good, and after a logout none is: unless a refresh had company, a grant was
\* replaced by a login or forgotten when its user was blocked, an answer was lost
\* or Redis failed.
OneLiveGrant ==
    /\ ~crossed
    /\ misses = 0
    /\ dropped = {}
    /\ leaving.at = "idle"
    /\ \A t \in Tab : tab[t].at \notin Refreshing
    => \A g \in 1 .. issued \ {store} :
           /\ <<"refresh", g>> \in denied
           /\ g \in expired \/ <<"access", g>> \in denied
=============================================================================
