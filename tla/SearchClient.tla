----------------------------- MODULE SearchClient -----------------------------
(***************************************************************************)
(* The read path of the aglake backend: searches share one AuthState (a    *)
(* session slot behind an RwLock whose writer logs in while holding it)    *)
(* and one semaphore of max_concurrent_searches permits.  A session dies   *)
(* when it expires, when the daemon restarts, and a daemon that needed no  *)
(* credentials may gain a user catalog; `send_authenticated` logs in again *)
(* and resends exactly once.                                               *)
(***************************************************************************)
EXTENDS Integers, FiniteSets

CONSTANTS
    Searches,               \* concurrent searches
    ConcurrencySettings,    \* values of storage.aglake.max_concurrent_searches, 0 included
    MaxInvalidations,       \* bound: sessions the daemon forgets
    MaxLoginFailures,       \* bound: logins that fail
    None                    \* no token

ASSUME SearchAssumption ==
    /\ ConcurrencySettings \subseteq Nat
    /\ MaxInvalidations \in Nat
    /\ MaxLoginFailures \in Nat
    /\ None \notin Nat /\ None \notin Searches /\ None \notin {"rows", "401", "error"}

VARIABLES
    source,     \* TokenSource: "none", "fixed" or "login"
    session,    \* the slot: [kind, token]
    lock,       \* the search that holds the write lock, or None
    freeSearches, \* free permits
    spc,        \* where each search is
    replace,    \* how a search waiting for the lock may reuse the slot
    presented,  \* the token a search last presented
    res,        \* what the search returned
    begun,      \* invalidations seen when the search began
    catalog,    \* the daemon has a user catalog
    live,       \* sessions the daemon honours
    minted,     \* tokens handed out so far
    logins,     \* logins the daemon answered
    loginFailures,
    invalidations

svars == <<source, session, lock, freeSearches, spc, replace, presented, res, begun,
           catalog, live, minted, logins, loginFailures, invalidations>>

daemon == <<catalog, live, minted, logins, loginFailures, invalidations>>

(* The configured token, the first login's and one per forgotten session.   *)
Tokens == 0..(MaxInvalidations + 1)

Unknown == [kind |-> "unknown", token |-> None]
NotRequired == [kind |-> "notRequired", token |-> None]
Active(t) == [kind |-> "active", token |-> t]

(* Deviation: the configured value is taken as it is.                         *)
PermitsOf_raw(n) == n

(* A zero-permit semaphore is a deadlock on the first read, hence max(1).  *)
PermitsOf(n) == IF n = 0 THEN 1 ELSE n

(* Token 0 is the one an operator wrote into the config.                   *)
SearchInit ==
    /\ source \in {"none", "fixed", "login"}
    /\ session = Unknown
    /\ lock = None
    /\ freeSearches \in {PermitsOf(n) : n \in ConcurrencySettings}
    /\ spc = [r \in Searches |-> "idle"]
    /\ replace = [r \in Searches |-> "never"]
    /\ presented = [r \in Searches |-> None]
    /\ res = [r \in Searches |-> None]
    /\ begun = [r \in Searches |-> 0]
    /\ catalog \in BOOLEAN
    /\ live = {0}
    /\ minted = 1
    /\ logins = 0
    /\ loginFailures = 0
    /\ invalidations = 0

-----------------------------------------------------------------------------
(* Session::is_settled and Replace::can_reuse.                             *)
is_settled == session.kind # "unknown"

(* Deviation: a refresh takes whatever is cached.                             *)
can_reuse_always(r) == TRUE

can_reuse(r) == replace[r] = "never" \/ presented[r] # session.token

can_refresh == source = "login"

Go(r, to) == spc' = [spc EXCEPT ![r] = to]

(* SearchClient::search takes a permit for the whole round trip.           *)
AcquirePermit(r) ==
    /\ spc[r] = "idle"
    /\ freeSearches > 0
    /\ freeSearches' = freeSearches - 1
    /\ begun' = [begun EXCEPT ![r] = invalidations]
    /\ Go(r, "token")
    /\ UNCHANGED <<source, session, lock, replace, presented, res, daemon>>

(* AuthState::token: bare without a source; a settled slot is read under   *)
(* the read lock; otherwise acquire(Replace::Never).                       *)
ReadToken(r) ==
    /\ spc[r] = "token"
    /\ \/ source = "none" /\ Go(r, "send") /\ UNCHANGED <<presented, replace>>
       \/ /\ source # "none" /\ lock = None
          /\ IF is_settled
             THEN presented' = [presented EXCEPT ![r] = session.token] /\ Go(r, "send") /\ UNCHANGED replace
             ELSE replace' = [replace EXCEPT ![r] = "never"] /\ Go(r, "acquire") /\ UNCHANGED presented
    /\ UNCHANGED <<source, session, lock, freeSearches, res, begun, daemon>>

(* The request follows a first acquire; a resend follows a refresh.        *)
NextSend(r) == IF replace[r] = "never" THEN "send" ELSE "resend"

(* AuthState::acquire up to the login request, which is presented while the     *)
(* write lock is held.                                                     *)
acquire(r) ==
    /\ spc[r] = "acquire"
    /\ lock = None
    /\ \/ /\ is_settled /\ can_reuse(r)
          /\ presented' = [presented EXCEPT ![r] = session.token]
          /\ Go(r, NextSend(r))
          /\ UNCHANGED <<lock, session>>
       \/ /\ ~(is_settled /\ can_reuse(r))
          /\ source = "fixed"
          /\ session' = Active(0)
          /\ presented' = [presented EXCEPT ![r] = 0]
          /\ Go(r, NextSend(r))
          /\ UNCHANGED lock
       \/ /\ ~(is_settled /\ can_reuse(r))
          /\ source = "login"
          /\ lock' = r
          /\ Go(r, "login")
          /\ UNCHANGED <<session, presented>>
    /\ UNCHANGED <<source, freeSearches, replace, res, begun, daemon>>

(* AuthState::login answered: a session cookie, or auth_enabled = false.   *)
LoginAnswered(r) ==
    /\ spc[r] = "login"
    /\ logins' = logins + 1
    /\ IF catalog
       THEN /\ session' = Active(minted)
            /\ presented' = [presented EXCEPT ![r] = minted]
            /\ live' = live \cup {minted}
            /\ minted' = minted + 1
       ELSE /\ session' = NotRequired
            /\ presented' = [presented EXCEPT ![r] = None]
            /\ UNCHANGED <<live, minted>>
    /\ lock' = None
    /\ Go(r, NextSend(r))
    /\ UNCHANGED <<source, freeSearches, replace, res, begun, catalog, loginFailures, invalidations>>

(* The search returns and its permit is released.                          *)
Return(r, what) ==
    /\ res' = [res EXCEPT ![r] = what]
    /\ freeSearches' = freeSearches + 1
    /\ Go(r, "done")

(* A login that fails, or answers 200 with neither a cookie nor            *)
(* auth_enabled = false, fails the search; the slot is left as it was.     *)
LoginFailed(r) ==
    /\ spc[r] = "login"
    /\ loginFailures < MaxLoginFailures
    /\ loginFailures' = loginFailures + 1
    /\ lock' = None
    /\ Return(r, "error")
    /\ UNCHANGED <<source, session, replace, presented, begun, catalog, live, minted, logins, invalidations>>

Authorized(r) == ~catalog \/ presented[r] \in live

(* send_authenticated, first request: a 401 is refreshed when it can be.   *)
Request(r) ==
    /\ spc[r] = "send"
    /\ \/ Authorized(r) /\ Return(r, "rows") /\ UNCHANGED replace
       \/ ~Authorized(r) /\ ~can_refresh /\ Return(r, "401") /\ UNCHANGED replace
       \/ /\ ~Authorized(r) /\ can_refresh
          /\ replace' = [replace EXCEPT ![r] = "ifStillStale"]
          /\ Go(r, "acquire")
          /\ UNCHANGED <<res, freeSearches>>
    /\ UNCHANGED <<source, session, lock, presented, begun, daemon>>

(* The one retry: its answer is the search's answer.                       *)
Resend(r) ==
    /\ spc[r] = "resend"
    /\ Return(r, IF Authorized(r) THEN "rows" ELSE "401")
    /\ UNCHANGED <<source, session, lock, replace, presented, begun, daemon>>

(* The daemon forgets one session, restarts, or gains a user catalog.      *)
ForgetSession ==
    /\ \E r \in Searches : spc[r] # "done"
    /\ invalidations < MaxInvalidations
    /\ invalidations' = invalidations + 1
    /\ \/ \E t \in live : live' = live \ {t} /\ UNCHANGED catalog
       \/ live' = {} /\ UNCHANGED catalog
       \/ ~catalog /\ catalog' = TRUE /\ UNCHANGED live
    /\ UNCHANGED <<source, session, lock, freeSearches, spc, replace, presented, res, begun,
                   minted, logins, loginFailures>>

Search(r) ==
    \/ AcquirePermit(r) \/ ReadToken(r) \/ acquire(r) \/ LoginAnswered(r)
    \/ LoginFailed(r) \/ Request(r) \/ Resend(r)

SearchNext == (\E r \in Searches : Search(r)) \/ ForgetSession

SearchFairness == \A r \in Searches : WF_svars(Search(r))

-----------------------------------------------------------------------------
SearchTypeOK ==
    /\ session.token \in Tokens \cup {None}
    /\ lock \in Searches \cup {None}
    /\ freeSearches \in Nat
    /\ spc \in [Searches -> {"idle", "token", "acquire", "login", "send", "resend", "done"}]
    /\ presented \in [Searches -> Tokens \cup {None}]
    /\ res \in [Searches -> {"rows", "401", "error", None}]
    /\ live \subseteq Tokens

(* However many searches meet the same dead session at once, the daemon is *)
(* asked for one new session per session it forgot (AuthState::refresh).   *)
SingleFlight == logins <= 1 + invalidations

(* With a password configured, a search fails with 401 only if the daemon  *)
(* forgot a session while that very search was running: an old expiry, a   *)
(* restart or a catalog gained before it began is always recovered.        *)
UnauthorizedOnlyIfRaced ==
    \A r \in Searches :
        (source = "login" /\ res[r] = "401") => invalidations > begun[r]

(* Every search returns, whatever the permits, the lock and the daemon do  *)
(* (`max(1)`, client.rs 787-792).                                          *)
SearchesReturn == \A r \in Searches : <>(spc[r] = "done")
=============================================================================
