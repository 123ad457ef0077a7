---------------------------- MODULE StorageProofs ----------------------------
(***************************************************************************)
(* Proofs about the storage backends.  The aglake client: what concurrent  *)
(* searches promise while sessions die under them (AuthState,              *)
(* send_authenticated), and what a flush promises when requests and        *)
(* answers are lost (HecClient::send).  DuckDB: what the read pool         *)
(* promises while its connections are replaced (ReadPool), and what an     *)
(* upgrade promises wherever it is interrupted (schema.rs init).           *)
(***************************************************************************)
EXTENDS AgLakeClient, DuckDb, TLAPS, FiniteSetTheorems, WellFoundedInduction, SequenceTheorems

SearchStates == {"idle", "token", "acquire", "login", "send", "resend", "done"}

\* The session in the slot would be accepted by the daemon.
Valid == \/ session.kind = "active" /\ session.token \in live
         \/ session.kind = "notRequired" /\ ~catalog

\* A search that was refused and waits for the lock to refresh.
Refused(r) == spc[r] = "acquire" /\ replace[r] = "ifStillStale"

\* A search that has presented the token it carries.
Presenting(r) == spc[r] \in {"send", "resend"} \/ Refused(r)

\* Sessions and tokens: every token in use was handed out before.
SlotOK ==
    /\ source \in {"none", "fixed", "login"}
    /\ session \in [kind: {"unknown", "notRequired", "active"}, token: Nat \cup {None}]
    /\ session.kind = "active" => session.token \in 0..(minted - 1)
    /\ session.kind # "active" => session.token = None
    /\ lock \in Searches \cup {None}
    /\ freeSearches \in Nat
    /\ spc \in [Searches -> SearchStates]
    /\ replace \in [Searches -> {"never", "ifStillStale"}]
    /\ presented \in [Searches -> Nat \cup {None}]
    /\ \A r \in Searches : presented[r] \in Nat => presented[r] < minted
    /\ res \in [Searches -> {"rows", "401", "error", None}]
    /\ \A r \in Searches : res[r] = "401" => spc[r] = "done"
    /\ begun \in [Searches -> Nat]
    /\ \A r \in Searches : begun[r] =< invalidations
    /\ catalog \in BOOLEAN
    /\ live \subseteq 0..(minted - 1)
    /\ minted \in Nat \ {0} /\ logins \in Nat /\ minted =< logins + 1
    /\ source # "login" => logins = 0
    /\ invalidations \in 0..MaxInvalidations

\* One writer at a time, and it logs in because the slot is of no use.
OneWriter ==
    \A r \in Searches : spc[r] = "login" =>
        lock = r /\ source = "login" /\ ~Valid

\* What was refused stays refused.
RefusedIsDead ==
    \A r \in Searches : Refused(r) => catalog /\ presented[r] \notin live

\* A login is paid for by the invalidation that killed the session before it.
LoginsPaid ==
    /\ session.kind = "unknown" => logins = 0
    /\ session.kind # "unknown" /\ ~Valid => logins =< invalidations
    /\ Valid => logins =< 1 + invalidations

\* Without an invalidation since a search began, the slot is good unless it still
\* holds what that search presented; and its one resend is accepted.
UnracedIsFresh ==
    source = "login" =>
        \A r \in Searches : invalidations = begun[r] =>
            /\ Presenting(r) => Valid \/ presented[r] = session.token
            /\ spc[r] = "resend" => Authorized(r)

SearchInv ==
    /\ SlotOK /\ OneWriter /\ RefusedIsDead /\ LoginsPaid /\ UnracedIsFresh
    /\ UnauthorizedOnlyIfRaced

-----------------------------------------------------------------------------
(* The parts of the invariant depend on few of the variables.               *)

LEMMA SearchInitEstablishes == ASSUME SearchInit \/ SearchAtRest PROVE SearchInv
<1>1. /\ source \in {"none", "fixed", "login"} /\ session = Unknown /\ lock = None
      /\ presented = [r \in Searches |-> None] /\ res = [r \in Searches |-> None]
      /\ replace = [r \in Searches |-> "never"] /\ begun = [r \in Searches |-> 0]
      /\ catalog \in BOOLEAN /\ live = {0} /\ minted = 1 /\ logins = 0 /\ invalidations = 0
      /\ spc \in [Searches -> {"idle", "done"}]
  BY DEF SearchInit, SearchAtRest
<1>2. freeSearches \in Nat
  BY SearchAssumption DEF SearchInit, SearchAtRest, PermitsOf
<1>3. SlotOK
  BY <1>1, <1>2, SearchAssumption DEF SlotOK, SearchStates, Unknown
<1>4. OneWriter /\ RefusedIsDead /\ UnracedIsFresh
  BY <1>1 DEF OneWriter, RefusedIsDead, UnracedIsFresh, Refused, Presenting
<1>5. LoginsPaid
  BY <1>1 DEF LoginsPaid, Unknown
<1>6. UnauthorizedOnlyIfRaced
  BY <1>1, SearchAssumption DEF UnauthorizedOnlyIfRaced
<1> QED  BY <1>3, <1>4, <1>5, <1>6 DEF SearchInv

-----------------------------------------------------------------------------
(* One lemma per step of a search.                                          *)

\* A step of search r that leaves the slot and the daemon as they are.
LEMMA QuietKeeps ==
  ASSUME SearchInv, NEW r \in Searches, NEW to \in SearchStates \ {"login"},
         spc' = [spc EXCEPT ![r] = to],
         UNCHANGED <<source, session, lock, catalog, live, minted, logins, invalidations>>,
         SlotOK', UnauthorizedOnlyIfRaced',
         \A q \in Searches \ {r} : /\ replace'[q] = replace[q] /\ presented'[q] = presented[q]
                                   /\ begun'[q] = begun[q],
         Refused(r)' => catalog /\ presented'[r] \notin live,
         source = "login" /\ invalidations = begun'[r] =>
            /\ Presenting(r)' => Valid \/ presented'[r] = session.token
            /\ to = "resend" => Authorized(r)'
  PROVE  SearchInv'
<1>1. spc \in [Searches -> SearchStates] /\ spc'[r] = to
      /\ \A q \in Searches \ {r} : spc'[q] = spc[q]
  BY DEF SearchInv, SlotOK
<1>2. Valid' <=> Valid
  BY DEF Valid
<1>4. OneWriter'
  BY <1>1, <1>2 DEF SearchInv, OneWriter
<1>5. RefusedIsDead'
  BY <1>1 DEF SearchInv, RefusedIsDead, Refused
<1>6. LoginsPaid'
  BY <1>2 DEF SearchInv, LoginsPaid
<1>7. UnracedIsFresh'
  BY <1>1, <1>2 DEF SearchInv, UnracedIsFresh, Refused, Presenting, Authorized
<1> QED  BY <1>4, <1>5, <1>6, <1>7 DEF SearchInv

LEMMA AcquirePermitKeeps ==
  ASSUME SearchInv, NEW r \in Searches, AcquirePermit(r) PROVE SearchInv'
<1>1. spc' = [spc EXCEPT ![r] = "token"] /\ begun' = [begun EXCEPT ![r] = invalidations]
      /\ UNCHANGED <<source, session, lock, catalog, live, minted, logins, invalidations>>
      /\ UNCHANGED <<replace, presented, res>>
  BY DEF AcquirePermit, Go, daemon
<1>2. SlotOK'
  BY <1>1 DEF SearchInv, SlotOK, SearchStates, AcquirePermit
<1>3. spc'[r] = "token" /\ ~Refused(r)' /\ ~Presenting(r)'
  BY <1>1 DEF SearchInv, SlotOK, Refused, Presenting
<1>4. \A q \in Searches \ {r} : begun'[q] = begun[q]
  BY <1>1 DEF SearchInv, SlotOK
<1>5. UnauthorizedOnlyIfRaced'
  <2>1. res[r] # "401"
    BY DEF SearchInv, SlotOK, AcquirePermit
  <2> QED  BY <1>1, <1>4, <2>1 DEF SearchInv, UnauthorizedOnlyIfRaced
<1> QED  BY <1>1, <1>2, <1>3, <1>4, <1>5, QuietKeeps DEF SearchStates

LEMMA ReadTokenKeeps ==
  ASSUME SearchInv, NEW r \in Searches, ReadToken(r) PROVE SearchInv'
<1>1. UNCHANGED <<source, session, lock, catalog, live, minted, logins, invalidations>>
      /\ UNCHANGED <<freeSearches, res, begun>>
  BY DEF ReadToken, daemon
<1>2. spc \in [Searches -> SearchStates] /\ spc[r] # "done"
  BY DEF SearchInv, SlotOK, ReadToken
<1>3. CASE source = "none" /\ Go(r, "send") /\ UNCHANGED <<presented, replace>>
  <2>1. SlotOK'
    BY <1>1, <1>2, <1>3 DEF SearchInv, SlotOK, SearchStates, Go
  <2>2. ~Refused(r)' /\ UnauthorizedOnlyIfRaced'
    BY <1>1, <1>2, <1>3 DEF SearchInv, UnauthorizedOnlyIfRaced, Refused, Go
  <2> QED  BY <1>1, <1>3, <2>1, <2>2, QuietKeeps DEF SearchStates, Go
<1>4. CASE is_settled /\ presented' = [presented EXCEPT ![r] = session.token] /\ Go(r, "send")
           /\ UNCHANGED replace
  <2>1. presented'[r] = session.token /\ \A q \in Searches \ {r} : presented'[q] = presented[q]
    BY <1>4 DEF SearchInv, SlotOK
  <2>2. SlotOK'
    BY <1>1, <1>2, <1>4, <2>1, SearchAssumption DEF SearchInv, SlotOK, SearchStates, Go
  <2>3. ~Refused(r)' /\ UnauthorizedOnlyIfRaced'
    BY <1>1, <1>2, <1>4 DEF SearchInv, UnauthorizedOnlyIfRaced, Refused, Go
  <2> QED  BY <1>1, <1>4, <2>1, <2>2, <2>3, QuietKeeps DEF SearchStates, Go
<1>5. CASE replace' = [replace EXCEPT ![r] = "never"] /\ Go(r, "acquire") /\ UNCHANGED presented
  <2>1. \A q \in Searches \ {r} : replace'[q] = replace[q]
    BY <1>5 DEF SearchInv, SlotOK
  <2>2. SlotOK'
    BY <1>1, <1>2, <1>5 DEF SearchInv, SlotOK, SearchStates, Go
  <2>3. ~Refused(r)' /\ ~Presenting(r)' /\ UnauthorizedOnlyIfRaced'
    BY <1>1, <1>2, <1>5 DEF SearchInv, SlotOK, UnauthorizedOnlyIfRaced, Refused, Presenting, Go
  <2> QED  BY <1>1, <1>5, <2>1, <2>2, <2>3, QuietKeeps DEF SearchStates, Go
<1> QED  BY <1>3, <1>4, <1>5 DEF ReadToken

LEMMA ReuseKeeps ==
  ASSUME SearchInv, NEW r \in Searches, spc[r] = "acquire", is_settled, can_reuse(r),
         presented' = [presented EXCEPT ![r] = session.token], Go(r, NextSend(r)),
         UNCHANGED <<lock, session, source, freeSearches, replace, res, begun, daemon>>
  PROVE  SearchInv'
<1> DEFINE to == NextSend(r)
<1>1. to \in {"send", "resend"} /\ (to = "resend" <=> replace[r] # "never")
  BY DEF NextSend
<1>2. spc' = [spc EXCEPT ![r] = to]
  BY DEF Go
<1>3. UNCHANGED <<source, session, lock, catalog, live, minted, logins, invalidations>>
      /\ UNCHANGED <<freeSearches, replace, res, begun>>
  BY DEF daemon
<1> HIDE DEF to
<1>4. presented'[r] = session.token /\ (\A q \in Searches \ {r} : presented'[q] = presented[q])
      /\ spc'[r] = to /\ (\A q \in Searches \ {r} : spc'[q] = spc[q])
  BY <1>2 DEF SearchInv, SlotOK
<1>5. SlotOK'
  BY <1>1, <1>2, <1>3, <1>4, SearchAssumption DEF SearchInv, SlotOK, SearchStates
<1>6. UnauthorizedOnlyIfRaced'
  BY <1>3 DEF SearchInv, UnauthorizedOnlyIfRaced
<1>7. ~Refused(r)'
  BY <1>1, <1>4 DEF Refused
<1>8. ASSUME source = "login", invalidations = begun'[r], to = "resend" PROVE Authorized(r)'
  <2>1. replace[r] = "ifStillStale" /\ presented[r] # session.token
    BY <1>1, <1>8 DEF can_reuse, SearchInv, SlotOK
  <2>2. Presenting(r)
    BY <2>1 DEF Presenting, Refused
  <2>3. Valid
    BY <1>3, <1>8, <2>1, <2>2 DEF SearchInv, UnracedIsFresh
  <2> QED  BY <1>3, <1>4, <2>3 DEF Valid, Authorized
<1>9. to \in SearchStates \ {"login"}
  BY <1>1 DEF SearchStates
<1> QED  BY <1>2, <1>3, <1>4, <1>5, <1>6, <1>7, <1>8, <1>9, QuietKeeps

LEMMA FixedKeeps ==
  ASSUME SearchInv, NEW r \in Searches, spc[r] = "acquire", source = "fixed",
         session' = Active(0), presented' = [presented EXCEPT ![r] = 0], Go(r, NextSend(r)),
         UNCHANGED <<lock, source, freeSearches, replace, res, begun, daemon>>
  PROVE  SearchInv'
<1> DEFINE to == NextSend(r)
<1>1. to \in {"send", "resend"} /\ spc' = [spc EXCEPT ![r] = to]
  BY DEF NextSend, Go
<1>2. UNCHANGED <<source, lock, catalog, live, minted, logins, invalidations>>
      /\ UNCHANGED <<freeSearches, replace, res, begun>>
  BY DEF daemon
<1> HIDE DEF to
<1>3. (\A q \in Searches \ {r} : presented'[q] = presented[q])
      /\ spc'[r] = to /\ (\A q \in Searches \ {r} : spc'[q] = spc[q])
  BY <1>1 DEF SearchInv, SlotOK
<1>4. SlotOK'
  BY <1>1, <1>2, <1>3 DEF SearchInv, SlotOK, SearchStates, Active
<1>5. OneWriter' /\ RefusedIsDead'
  BY <1>1, <1>2, <1>3 DEF SearchInv, OneWriter, RefusedIsDead, Refused
<1>6. LoginsPaid'
  <2>1. logins = 0 /\ invalidations \in Nat
    BY DEF SearchInv, SlotOK
  <2> QED  BY <1>2, <2>1 DEF LoginsPaid
<1>7. UnracedIsFresh' /\ UnauthorizedOnlyIfRaced'
  BY <1>2 DEF SearchInv, UnracedIsFresh, UnauthorizedOnlyIfRaced
<1> QED  BY <1>4, <1>5, <1>6, <1>7 DEF SearchInv

\* A search takes the write lock to log in only when the slot is of no use: it is
\* empty, or holds the token that search was refused with.
LEMMA TakeLockKeeps ==
  ASSUME SearchInv, NEW r \in Searches, spc[r] = "acquire", lock = None,
         ~(is_settled /\ can_reuse(r)), source = "login", lock' = r, Go(r, "login"),
         UNCHANGED <<session, presented, source, freeSearches, replace, res, begun, daemon>>
  PROVE  SearchInv'
<1>1. UNCHANGED <<source, session, catalog, live, minted, logins, invalidations>>
      /\ UNCHANGED <<freeSearches, presented, replace, res, begun>>
  BY DEF daemon
<1>2. spc' = [spc EXCEPT ![r] = "login"] /\ spc'[r] = "login"
      /\ (\A q \in Searches \ {r} : spc'[q] = spc[q])
  BY DEF SearchInv, SlotOK, Go
<1>3. ~Valid
  <2>1. CASE session.kind = "unknown"
    BY <2>1 DEF Valid
  <2>2. CASE replace[r] # "never" /\ presented[r] = session.token
    <3>1. catalog /\ session.token \notin live
      BY <2>2 DEF SearchInv, SlotOK, RefusedIsDead, Refused
    <3> QED  BY <3>1 DEF Valid
  <2> QED  BY <2>1, <2>2 DEF is_settled, can_reuse
<1>4. Valid' <=> Valid
  BY <1>1 DEF Valid
<1>5. SlotOK'
  BY <1>1, <1>2 DEF SearchInv, SlotOK, SearchStates
<1>6. OneWriter'
  <2>1. \A q \in Searches : spc[q] # "login"
    BY SearchAssumption DEF SearchInv, OneWriter
  <2> QED  BY <1>1, <1>2, <1>3, <1>4, <2>1 DEF OneWriter
<1>7. RefusedIsDead' /\ LoginsPaid'
  BY <1>1, <1>2, <1>4 DEF SearchInv, RefusedIsDead, Refused, LoginsPaid
<1>8. UnracedIsFresh'
  BY <1>1, <1>2, <1>4 DEF SearchInv, UnracedIsFresh, Presenting, Refused, Authorized
<1>9. UnauthorizedOnlyIfRaced'
  BY <1>1 DEF SearchInv, UnauthorizedOnlyIfRaced
<1> QED  BY <1>5, <1>6, <1>7, <1>8, <1>9 DEF SearchInv

LEMMA AcquireKeeps ==
  ASSUME SearchInv, NEW r \in Searches, acquire(r) PROVE SearchInv'
<1>1. spc[r] = "acquire" /\ lock = None
      /\ UNCHANGED <<source, freeSearches, replace, res, begun, daemon>>
  BY DEF acquire
<1> QED  BY <1>1, ReuseKeeps, FixedKeeps, TakeLockKeeps DEF acquire

\* The login is the one the last invalidation pays for; what it hands out is new,
\* so no refused token comes back to life.
LEMMA LoginAnsweredKeeps ==
  ASSUME SearchInv, NEW r \in Searches, LoginAnswered(r) PROVE SearchInv'
<1> DEFINE to == NextSend(r)
<1>1. to \in {"send", "resend"} /\ spc' = [spc EXCEPT ![r] = to]
  BY DEF NextSend, LoginAnswered, Go
<1>2. /\ logins' = logins + 1 /\ lock' = None
      /\ UNCHANGED <<source, freeSearches, replace, res, begun, catalog, invalidations>>
  BY DEF LoginAnswered
<1>3. /\ spc[r] = "login" /\ lock = r /\ source = "login" /\ ~Valid
      /\ \A q \in Searches \ {r} : spc[q] # "login"
  BY DEF LoginAnswered, SearchInv, OneWriter
<1> HIDE DEF to
<1>4. /\ (\A q \in Searches \ {r} : presented'[q] = presented[q])
      /\ spc'[r] = to /\ (\A q \in Searches \ {r} : spc'[q] = spc[q])
  BY <1>1 DEF SearchInv, SlotOK, LoginAnswered
<1>5. \/ /\ catalog /\ session' = Active(minted) /\ presented'[r] = minted
         /\ live' = live \cup {minted} /\ minted' = minted + 1
      \/ /\ ~catalog /\ session' = NotRequired /\ presented'[r] = None
         /\ UNCHANGED <<live, minted>>
  BY DEF SearchInv, SlotOK, LoginAnswered
<1>6. presented' \in [Searches -> Nat \cup {None}]
  BY DEF SearchInv, SlotOK, LoginAnswered
<1>7. Valid' /\ Authorized(r)'
  BY <1>2, <1>5 DEF Valid, Active, NotRequired, Authorized
<1>8. SlotOK'
  <2>1. /\ source' \in {"none", "fixed", "login"} /\ lock' \in Searches \cup {None}
        /\ freeSearches' \in Nat /\ replace' \in [Searches -> {"never", "ifStillStale"}]
        /\ res' \in [Searches -> {"rows", "401", "error", None}] /\ begun' \in [Searches -> Nat]
        /\ (\A q \in Searches : begun'[q] =< invalidations') /\ catalog' \in BOOLEAN
        /\ invalidations' \in 0..MaxInvalidations /\ source' = "login"
    BY <1>2, <1>3 DEF SearchInv, SlotOK
  <2>2. /\ spc' \in [Searches -> SearchStates]
        /\ \A q \in Searches : res'[q] = "401" => spc'[q] = "done"
    BY <1>1, <1>2, <1>3, <1>4 DEF SearchInv, SlotOK, SearchStates
  <2>3. /\ minted' \in Nat \ {0} /\ logins' \in Nat /\ minted' =< logins' + 1
        /\ live' \subseteq 0..(minted' - 1) /\ minted =< minted'
    <3>1. minted \in Nat \ {0} /\ logins \in Nat /\ minted =< logins + 1
          /\ \A t \in live : t \in 0..(minted - 1)
      BY DEF SearchInv, SlotOK
    <3>2. \A t \in live' : t \in live \/ (t = minted /\ minted' = minted + 1)
      BY <1>5
    <3>3. minted' \in {minted, minted + 1}
      BY <1>5
    <3>4. \A t \in live' : t \in 0..(minted' - 1)
      BY <3>1, <3>2, <3>3
    <3> QED  BY <1>2, <3>1, <3>3, <3>4
  <2>4. /\ session' \in [kind: {"unknown", "notRequired", "active"}, token: Nat \cup {None}]
        /\ session'.kind = "active" => session'.token \in 0..(minted' - 1)
        /\ session'.kind # "active" => session'.token = None
    BY <1>5 DEF SearchInv, SlotOK, Active, NotRequired
  <2>5. \A q \in Searches : presented'[q] \in Nat => presented'[q] < minted'
    BY <1>4, <1>5, <2>3, SearchAssumption DEF SearchInv, SlotOK
  <2> QED  BY <1>6, <2>1, <2>2, <2>3, <2>4, <2>5 DEF SlotOK
<1>9. OneWriter'
  BY <1>1, <1>3, <1>4 DEF OneWriter
<1>10. RefusedIsDead'
  <2> SUFFICES ASSUME NEW q \in Searches, Refused(q)'
               PROVE  catalog' /\ presented'[q] \notin live'
    BY DEF RefusedIsDead
  <2>1. q # r /\ Refused(q)
    BY <1>1, <1>2, <1>4 DEF Refused
  <2>2. catalog /\ presented[q] \notin live /\ presented'[q] = presented[q]
        /\ presented[q] # minted /\ minted \in Nat
    BY <1>4, <2>1, SearchAssumption DEF SearchInv, SlotOK, RefusedIsDead
  <2> QED  BY <1>2, <1>5, <2>2
<1>11. LoginsPaid'
  <2>1. logins =< invalidations \/ logins = 0
    BY <1>3 DEF SearchInv, LoginsPaid
  <2>2. session'.kind # "unknown"
    BY <1>5 DEF Active, NotRequired
  <2> QED  BY <1>2, <1>7, <2>1, <2>2 DEF LoginsPaid, SearchInv, SlotOK
<1>12. UnracedIsFresh'
  <2> SUFFICES ASSUME NEW q \in Searches, source = "login", invalidations = begun[q],
                      spc'[q] = "resend"
               PROVE  Authorized(q)'
    BY <1>2, <1>7 DEF UnracedIsFresh
  <2>1. CASE q = r
    BY <1>7, <2>1
  <2>2. CASE q # r
    <3>1. Authorized(q) /\ presented'[q] = presented[q]
      BY <1>4, <2>2 DEF SearchInv, UnracedIsFresh
    <3> QED  BY <1>2, <1>5, <3>1 DEF Authorized
  <2> QED  BY <2>1, <2>2
<1>13. UnauthorizedOnlyIfRaced'
  BY <1>2 DEF SearchInv, UnauthorizedOnlyIfRaced
<1> QED  BY <1>8, <1>9, <1>10, <1>11, <1>12, <1>13 DEF SearchInv

\* A search that returns: res[r] is set, and r is done.
LEMMA ReturnKeeps ==
  ASSUME SearchInv, NEW r \in Searches, spc[r] # "done", NEW what \in {"rows", "401", "error"},
         Return(r, what), lock' \in {lock, None}, lock' = lock \/ spc[r] = "login",
         source = "login" /\ what = "401" => invalidations > begun[r],
         UNCHANGED <<source, session, replace, presented, begun, catalog, live, minted, logins,
                     invalidations>>
  PROVE  SearchInv'
<1>1. /\ spc' = [spc EXCEPT ![r] = "done"] /\ res' = [res EXCEPT ![r] = what]
      /\ freeSearches' = freeSearches + 1
  BY DEF Return, Go
<1>2. /\ spc'[r] = "done" /\ res'[r] = what
      /\ \A q \in Searches \ {r} : spc'[q] = spc[q] /\ res'[q] = res[q]
  BY <1>1 DEF SearchInv, SlotOK
<1>3. Valid' <=> Valid
  BY DEF Valid
<1>4. SlotOK'
  BY <1>1, <1>2 DEF SearchInv, SlotOK, SearchStates
<1>5. OneWriter'
  <2> SUFFICES ASSUME NEW q \in Searches, spc'[q] = "login"
               PROVE  lock' = q /\ source' = "login" /\ ~Valid'
    BY DEF OneWriter
  <2>1. q # r /\ spc[q] = "login" /\ lock = q /\ source = "login" /\ ~Valid
    BY <1>2 DEF SearchInv, OneWriter
  <2>2. spc[r] # "login"
    BY <2>1 DEF SearchInv, OneWriter
  <2> QED  BY <1>3, <2>1, <2>2
<1>6. RefusedIsDead' /\ LoginsPaid'
  BY <1>2, <1>3 DEF SearchInv, RefusedIsDead, Refused, LoginsPaid
<1>7. UnracedIsFresh'
  BY <1>2, <1>3 DEF SearchInv, UnracedIsFresh, Presenting, Refused, Authorized
<1>8. UnauthorizedOnlyIfRaced'
  BY <1>2 DEF SearchInv, UnauthorizedOnlyIfRaced
<1> QED  BY <1>4, <1>5, <1>6, <1>7, <1>8 DEF SearchInv

LEMMA LoginFailedKeeps ==
  ASSUME SearchInv, NEW r \in Searches, LoginFailed(r) PROVE SearchInv'
  BY ReturnKeeps DEF LoginFailed

LEMMA ResendKeeps ==
  ASSUME SearchInv, NEW r \in Searches, Resend(r) PROVE SearchInv'
<1> DEFINE what == IF Authorized(r) THEN "rows" ELSE "401"
<1>1. /\ spc[r] = "resend" /\ Return(r, what) /\ what \in {"rows", "401", "error"} /\ lock' = lock
      /\ UNCHANGED <<source, session, replace, presented, begun, catalog, live, minted, logins,
                     invalidations>>
  BY DEF Resend, daemon
<1>2. source = "login" /\ what = "401" => invalidations > begun[r]
  <2>1. begun[r] =< invalidations /\ begun[r] \in Nat /\ invalidations \in Nat
    BY DEF SearchInv, SlotOK
  <2> QED  BY <1>1, <2>1 DEF SearchInv, UnracedIsFresh
<1> HIDE DEF what
<1> QED  BY <1>1, <1>2, ReturnKeeps

LEMMA RequestKeeps ==
  ASSUME SearchInv, NEW r \in Searches, Request(r) PROVE SearchInv'
<1>1. /\ spc[r] = "send"
      /\ UNCHANGED <<source, session, lock, presented, begun, catalog, live, minted, logins,
                     invalidations>>
  BY DEF Request, daemon
<1>2. CASE Authorized(r) /\ Return(r, "rows") /\ UNCHANGED replace
  BY <1>1, <1>2, ReturnKeeps
<1>3. CASE ~Authorized(r) /\ ~can_refresh /\ Return(r, "401") /\ UNCHANGED replace
  BY <1>1, <1>3, ReturnKeeps DEF can_refresh
<1>4. CASE /\ ~Authorized(r) /\ replace' = [replace EXCEPT ![r] = "ifStillStale"]
           /\ Go(r, "acquire") /\ UNCHANGED <<res, freeSearches>>
  <2>1. spc' = [spc EXCEPT ![r] = "acquire"]
        /\ \A q \in Searches \ {r} : replace'[q] = replace[q]
    BY <1>4 DEF SearchInv, SlotOK, Go
  <2>2. SlotOK'
    BY <1>1, <1>4, <2>1 DEF SearchInv, SlotOK, SearchStates
  <2>3. UnauthorizedOnlyIfRaced'
    BY <1>1, <1>4 DEF SearchInv, UnauthorizedOnlyIfRaced
  <2>4. catalog /\ presented'[r] \notin live
    BY <1>1, <1>4 DEF Authorized
  <2>5. source = "login" /\ invalidations = begun'[r] => Valid \/ presented'[r] = session.token
    BY <1>1 DEF SearchInv, UnracedIsFresh, Presenting
  <2> QED  BY <1>1, <2>1, <2>2, <2>3, <2>4, <2>5, QuietKeeps DEF SearchStates
<1> QED  BY <1>2, <1>3, <1>4 DEF Request

\* The daemon forgets: no search that is running is unraced any more, and a valid
\* session dies at the price of one invalidation.
LEMMA ForgetKeeps == ASSUME SearchInv, ForgetSession PROVE SearchInv'
<1>1. /\ invalidations' = invalidations + 1 /\ invalidations < MaxInvalidations
      /\ live' \subseteq live /\ (catalog => catalog') /\ catalog' \in BOOLEAN
      /\ UNCHANGED <<source, session, lock, freeSearches, spc, replace, presented, res, begun,
                     minted, logins>>
  <2>1. catalog \in BOOLEAN
    BY DEF SearchInv, SlotOK
  <2>2. /\ invalidations' = invalidations + 1 /\ invalidations < MaxInvalidations
        /\ UNCHANGED <<source, session, lock, freeSearches, spc, replace, presented, res, begun,
                       minted, logins>>
    BY DEF ForgetSession
  <2>3. /\ live' \subseteq live
        /\ catalog' = catalog \/ catalog' = TRUE
    BY DEF ForgetSession
  <2>4. catalog' \in BOOLEAN /\ (catalog => catalog')
    <3>1. CASE catalog' = catalog
      BY <2>1, <3>1
    <3>2. CASE catalog' = TRUE
      BY <3>2
    <3> QED  BY <2>3, <3>1, <3>2
  <2> QED  BY <2>2, <2>3, <2>4, Zenon
<1>2. Valid' => Valid
  BY <1>1 DEF Valid
<1>3. SlotOK'
  BY <1>1, SearchAssumption DEF SearchInv, SlotOK
<1>4. OneWriter' /\ RefusedIsDead'
  BY <1>1, <1>2 DEF SearchInv, OneWriter, RefusedIsDead, Refused
<1>5. LoginsPaid'
  <2>1. logins =< 1 + invalidations /\ logins \in Nat /\ invalidations \in Nat
    BY DEF SearchInv, SlotOK, LoginsPaid
  <2> QED  BY <1>1, <1>2, <2>1 DEF SearchInv, LoginsPaid
<1>6. \A q \in Searches : begun'[q] < invalidations'
  BY <1>1 DEF SearchInv, SlotOK
<1>7. UnracedIsFresh' /\ UnauthorizedOnlyIfRaced'
  <2>1. \A q \in Searches : begun'[q] \in Nat /\ invalidations' \in Nat
    BY <1>1 DEF SearchInv, SlotOK
  <2> QED  BY <1>6, <2>1 DEF UnracedIsFresh, UnauthorizedOnlyIfRaced
<1> QED  BY <1>3, <1>4, <1>5, <1>7 DEF SearchInv

LEMMA SearchUnchanged == ASSUME SearchInv, UNCHANGED svars PROVE SearchInv'
<1>1. UNCHANGED <<source, session, lock, freeSearches, spc, replace, presented, res, begun,
                  catalog, live, minted, logins, invalidations>>
  BY DEF svars
<1> QED  BY <1>1 DEF SearchInv, SlotOK, OneWriter, RefusedIsDead, LoginsPaid, UnracedIsFresh,
              UnauthorizedOnlyIfRaced, Valid, Refused, Presenting, Authorized

LEMMA SearchKeeps == ASSUME SearchInv, [SearchNext]_svars PROVE SearchInv'
  BY AcquirePermitKeeps, ReadTokenKeeps, AcquireKeeps, LoginAnsweredKeeps, LoginFailedKeeps,
     RequestKeeps, ResendKeeps, ForgetKeeps, SearchUnchanged DEF SearchNext, Search

-----------------------------------------------------------------------------
\* The inductive invariant of the session slot, in the client as a whole.
THEOREM SearchInvariant == ClientSpec => []SearchInv
<1>1. ClientInit => SearchInv
  BY SearchInitEstablishes DEF ClientInit
<1>2. SearchInv /\ [ClientNext]_clientVars => SearchInv'
  <2>1. [ClientNext]_clientVars => [SearchNext]_svars
    BY DEF ClientNext, clientVars
  <2> QED  BY <2>1, SearchKeeps
<1> QED  BY <1>1, <1>2, PTL DEF ClientSpec

\* Concurrent searches share one login per dead session, and a search passes a
\* 401 on only when the session died under that very search, for any number of
\* searches, permits, failed logins and invalidations (AuthState, refresh).
THEOREM SearchesAreSound == ClientSpec => []SearchSound
<1>1. SearchInv => SearchSound
  <2> SUFFICES ASSUME SearchInv PROVE SearchSound
    OBVIOUS
  <2>1. SingleFlight
    <3>1. logins \in Nat /\ invalidations \in Nat
      BY DEF SearchInv, SlotOK
    <3> QED  BY <3>1 DEF SearchInv, LoginsPaid, SingleFlight
  <2>2. minted - 1 =< MaxInvalidations + 1 /\ minted \in Nat
    BY <2>1, SearchAssumption DEF SearchInv, SlotOK, SingleFlight
  <2>3. SearchTypeOK
    <3>1. session.token \in Tokens \cup {None}
      BY <2>2, SearchAssumption DEF SearchInv, SlotOK, Tokens
    <3>2. presented \in [Searches -> Tokens \cup {None}]
      BY <2>2, SearchAssumption DEF SearchInv, SlotOK, Tokens
    <3>3. live \subseteq Tokens
      BY <2>2, SearchAssumption DEF SearchInv, SlotOK, Tokens
    <3> QED  BY <3>1, <3>2, <3>3 DEF SearchTypeOK, SearchInv, SlotOK, SearchStates
  <2> QED  BY <2>1, <2>3 DEF SearchSound, SearchInv
<1> QED  BY <1>1, SearchInvariant, PTL

-----------------------------------------------------------------------------
(* What the events and the chunks of a flush are.                           *)

\* Induction up to N, over a set.
LEMMA UpTo ==
  ASSUME NEW N \in Nat, NEW S, 0 \in S, \A n \in 0..(N - 1) : n \in S => n + 1 \in S
  PROVE  \A n \in 0..N : n \in S
<1>1. SUFFICES ASSUME NEW k \in 0..N, k \notin S PROVE FALSE
  OBVIOUS
<1> DEFINE T == {n \in 0..N : n \notin S}
<1>2. PICK m \in T : \A y \in T : ~(<<y, m>> \in OpToRel(<, Nat))
  <2>1. T \subseteq Nat /\ T # {}
    BY <1>1
  <2> HIDE DEF T
  <2> QED  BY <2>1, NatLessThanWellFounded, WFMin
<1>3. m # 0 /\ m - 1 \in 0..(N - 1)
  OBVIOUS
<1>4. m - 1 \in T
  BY <1>3
<1>5. \A y \in T : ~(y < m)
  <2> TAKE y \in T
  <2>1. y \in Nat /\ m \in Nat
    OBVIOUS
  <2> HIDE DEF T
  <2> QED  BY <1>2, <2>1 DEF OpToRel
<1>6. ~(m - 1 < m)
  BY <1>4, <1>5
<1> QED  BY <1>6

\* The recursive definition of Encoded has a solution, so it is one.
LEMMA EncodedDef ==
  ASSUME NEW cs \in Seq(CallType)
  PROVE  Encoded(cs) = [n \in 0..Len(cs) |->
            IF n = 0 THEN <<>> ELSE Encoded(cs)[n - 1] \o span_events(cs[n])]
<1> DEFINE B(f, n) == IF n = 0 THEN <<>> ELSE f[n - 1] \o span_events(cs[n])
           S == {k \in 0..Len(cs) : \E f : f = [n \in 0..k |-> B(f, n)]}
<1>1. 0 \in S
  <2> DEFINE f == [n \in 0..0 |-> <<>>]
  <2>1. f = [n \in 0..0 |-> B(f, n)]
    OBVIOUS
  <2>2. 0 \in 0..Len(cs)
    OBVIOUS
  <2> HIDE DEF f
  <2> QED  BY <2>1, <2>2
<1>2. ASSUME NEW k \in 0..(Len(cs) - 1), k \in S PROVE k + 1 \in S
  <2>1. PICK f : f = [n \in 0..k |-> B(f, n)]
    BY <1>2
  <2> DEFINE g == [n \in 0..(k + 1) |-> IF n = k + 1 THEN B(f, k + 1) ELSE f[n]]
  <2>2. ASSUME NEW n \in 0..(k + 1) PROVE g[n] = B(g, n)
    <3>1. CASE n = 0
      BY <3>1, <2>1
    <3>2. CASE n # 0
      <4>1. n - 1 \in 0..k /\ g[n - 1] = f[n - 1]
        BY <3>2
      <4>2. g[n] = B(f, n)
        BY <3>2, <2>1
      <4> QED  BY <3>2, <4>1, <4>2
    <3> QED  BY <3>1, <3>2
  <2>3. g = [n \in 0..(k + 1) |-> B(g, n)]
    BY <2>2
  <2>4. k + 1 \in 0..Len(cs)
    OBVIOUS
  <2> HIDE DEF g
  <2> QED  BY <2>3, <2>4
<1>3. Len(cs) \in S
  <2>1. Len(cs) \in Nat /\ Len(cs) \in 0..Len(cs)
    OBVIOUS
  <2> HIDE DEF S
  <2>2. \A n \in 0..Len(cs) : n \in S
    BY <1>1, <1>2, <2>1, UpTo
  <2> QED  BY <2>1, <2>2
<1>4. \E f : f = [n \in 0..Len(cs) |-> B(f, n)]
  BY <1>3
<1> QED  BY <1>4, Zenon DEF Encoded

\* The same for Chunked.
LEMMA ChunkedDef ==
  ASSUME NEW evs, Len(evs) \in Nat
  PROVE  Chunked(evs) = [i \in 0..Len(evs) |->
            IF i = 0 THEN [start |-> 1, acc |-> 0, out |-> <<>>]
            ELSE NextEvent(Chunked(evs)[i - 1], i, evs[i].size + 1)]
<1> DEFINE B(f, i) == IF i = 0 THEN [start |-> 1, acc |-> 0, out |-> <<>>]
                      ELSE NextEvent(f[i - 1], i, evs[i].size + 1)
           S == {k \in 0..Len(evs) : \E f : f = [i \in 0..k |-> B(f, i)]}
<1>1. 0 \in S
  <2> DEFINE f == [i \in 0..0 |-> [start |-> 1, acc |-> 0, out |-> <<>>]]
  <2>1. f = [i \in 0..0 |-> B(f, i)]
    OBVIOUS
  <2>2. 0 \in 0..Len(evs)
    OBVIOUS
  <2> HIDE DEF f
  <2> QED  BY <2>1, <2>2
<1>2. ASSUME NEW k \in 0..(Len(evs) - 1), k \in S PROVE k + 1 \in S
  <2>1. PICK f : f = [i \in 0..k |-> B(f, i)]
    BY <1>2
  <2> DEFINE g == [i \in 0..(k + 1) |-> IF i = k + 1 THEN B(f, k + 1) ELSE f[i]]
  <2>2. ASSUME NEW i \in 0..(k + 1) PROVE g[i] = B(g, i)
    <3>1. CASE i = 0
      BY <3>1, <2>1
    <3>2. CASE i # 0
      <4>1. i - 1 \in 0..k /\ g[i - 1] = f[i - 1]
        BY <3>2
      <4>2. g[i] = B(f, i)
        BY <3>2, <2>1
      <4> QED  BY <3>2, <4>1, <4>2
    <3> QED  BY <3>1, <3>2
  <2>3. g = [i \in 0..(k + 1) |-> B(g, i)]
    BY <2>2
  <2>4. k + 1 \in 0..Len(evs)
    OBVIOUS
  <2> HIDE DEF g
  <2> QED  BY <2>3, <2>4
<1>3. Len(evs) \in S
  <2>1. Len(evs) \in 0..Len(evs)
    OBVIOUS
  <2> HIDE DEF S
  <2>2. \A i \in 0..Len(evs) : i \in S
    BY <1>1, <1>2, UpTo
  <2> QED  BY <2>1, <2>2
<1>4. \E f : f = [i \in 0..Len(evs) |-> B(f, i)]
  BY <1>3
<1> QED  BY <1>4, Zenon DEF Chunked

-----------------------------------------------------------------------------
(* The events of a flush: a body comes right after its span, unless that    *)
(* span is too large to be sent.                                            *)

EventType == [id : Nat, ix : {"spans", "bodies"}, bad : BOOLEAN, size : Nat]

Oversized(id, cs) == \E k \in DOMAIN cs : cs[k].id = id /\ cs[k].fault = "bigSpan"

BodiesFollow(es, cs) ==
    \A i \in 1..Len(es) : es[i].ix = "bodies" =>
        \/ i > 1 /\ es[i - 1].ix = "spans" /\ es[i - 1].id = es[i].id
        \/ Oversized(es[i].id, cs)

LEMMA EventsOfCall ==
  ASSUME NEW c \in CallType
  PROVE  /\ span_events(c) \in Seq(EventType)
         /\ \A i \in 1..Len(span_events(c)) : span_events(c)[i].ix = "bodies" =>
               \/ i > 1 /\ span_events(c)[i - 1].ix = "spans"
                        /\ span_events(c)[i - 1].id = span_events(c)[i].id
               \/ c.fault = "bigSpan" /\ span_events(c)[i].id = c.id
<1> DEFINE s == SpanEvent(c)
           b == BodyEvent(c)
<1>1. s \in EventType /\ s.ix = "spans" /\ s.id = c.id
      /\ (s.size =< MaxEventBytes \/ c.fault = "bigSpan" \/ MaxEventBytes = 0)
  BY HecAssumption DEF SpanEvent, EventType, CallType
<1>2. b \in EventType /\ b.ix = "bodies" /\ b.id = c.id
      /\ (b.size =< MaxEventBytes => MaxEventBytes # 0)
  BY HecAssumption DEF BodyEvent, EventType, CallType
<1> HIDE DEF s, b
<1>3. span_events(c) \in {<<>>, <<s>>, <<b>>, <<s, b>>}
  <2>1. <<s>> \in Seq(EventType) /\ <<b>> \in Seq(EventType)
    BY <1>1, <1>2
  <2>2. <<s>> \o <<b>> = <<s, b>>
    <3>1. <<s>> \o <<b>> \in Seq(EventType) /\ <<s, b>> \in Seq(EventType)
          /\ Len(<<s>> \o <<b>>) = 2 /\ Len(<<s, b>>) = 2
      BY <1>1, <1>2
    <3>2. (<<s>> \o <<b>>)[1] = s /\ (<<s>> \o <<b>>)[2] = b
      BY <1>1, <1>2
    <3>3. \A i \in 1..2 : (<<s>> \o <<b>>)[i] = <<s, b>>[i]
      BY <3>2
    <3> QED  BY <3>1, <3>3, SeqEqual
  <2>3. <<>> \o <<b>> = <<b>> /\ <<s>> \o <<>> = <<s>>
    BY <2>1, ConcatEmptySeq
  <2>4. <<>> \o <<>> = <<>>
    OBVIOUS
  <2> QED  BY <2>2, <2>3, <2>4 DEF span_events, enforce_event_size, s, b
<1>4. span_events(c) = <<b>> => c.fault = "bigSpan"
  <2>1. <<s>> \o <<b>> # <<b>> /\ <<>> \o <<>> # <<b>> /\ <<s>> \o <<>> # <<b>> /\ <<>> # <<b>>
    <3>1. Len(<<s>> \o <<b>>) = 2 /\ Len(<<b>>) = 1 /\ Len(<<>>) = 0 /\ <<>> \o <<>> = <<>> /\ <<s>> \o <<>> = <<s>>
      BY <1>1, <1>2
    <3>2. <<s>>[1] # <<b>>[1]
      BY <1>1, <1>2
    <3> QED  BY <3>1, <3>2
  <2>2. span_events(c) = <<b>> => ~(s.size =< MaxEventBytes) /\ b.size =< MaxEventBytes
    BY <2>1 DEF span_events, enforce_event_size, s, b
  <2> QED  BY <2>2, <1>1, <1>2
<1>5. CASE span_events(c) = <<>>
  BY <1>5
<1>6. CASE span_events(c) = <<s>>
  BY <1>6, <1>1
<1>7. CASE span_events(c) = <<b>>
  BY <1>7, <1>2, <1>4
<1>8. CASE span_events(c) = <<s, b>>
  BY <1>8, <1>1, <1>2
<1> QED  BY <1>3, <1>5, <1>6, <1>7, <1>8

LEMMA BatchOK ==
  ASSUME NEW cs \in Seq(CallType)
  PROVE  span_batch(cs) \in Seq(EventType) /\ BodiesFollow(span_batch(cs), cs)
<1> DEFINE S == {n \in 0..Len(cs) : /\ Encoded(cs)[n] \in Seq(EventType)
                                    /\ BodiesFollow(Encoded(cs)[n], cs)}
<1>1. /\ Encoded(cs)[0] = <<>>
      /\ \A n \in 1..Len(cs) : Encoded(cs)[n] = Encoded(cs)[n - 1] \o span_events(cs[n])
  <2> DEFINE E == Encoded(cs)
  <2>1. E = [n \in 0..Len(cs) |-> IF n = 0 THEN <<>> ELSE E[n - 1] \o span_events(cs[n])]
    BY EncodedDef
  <2> HIDE DEF E
  <2>2. E[0] = <<>>
    BY <2>1
  <2>3. ASSUME NEW n \in 1..Len(cs) PROVE E[n] = E[n - 1] \o span_events(cs[n])
    <3>1. n \in 0..Len(cs) /\ n # 0
      OBVIOUS
    <3> QED  BY <2>1, <3>1
  <2> QED  BY <2>2, <2>3 DEF E
<1>2. 0 \in S
  <2>1. 0 \in 0..Len(cs) /\ <<>> \in Seq(EventType)
    OBVIOUS
  <2>2. BodiesFollow(<<>>, cs)
    BY DEF BodiesFollow
  <2> QED  BY <1>1, <2>1, <2>2, Zenon
<1>3. ASSUME NEW k \in 0..(Len(cs) - 1), k \in S PROVE k + 1 \in S
  <2> DEFINE p == Encoded(cs)[k]
             t == span_events(cs[k + 1])
  <2>1. k + 1 \in 1..Len(cs) /\ (k + 1) - 1 = k /\ cs[k + 1] \in CallType
    OBVIOUS
  <2>2. Encoded(cs)[k + 1] = p \o t
    BY <1>1, <2>1
  <2>3. p \in Seq(EventType) /\ BodiesFollow(p, cs)
    BY <1>3
  <2>4. t \in Seq(EventType)
        /\ \A i \in 1..Len(t) : t[i].ix = "bodies" =>
               \/ i > 1 /\ t[i - 1].ix = "spans" /\ t[i - 1].id = t[i].id
               \/ cs[k + 1].fault = "bigSpan" /\ t[i].id = cs[k + 1].id
    BY <2>1, EventsOfCall
  <2> HIDE DEF p, t
  <2>5. p \o t \in Seq(EventType)
    BY <2>3, <2>4
  <2>6. BodiesFollow(p \o t, cs)
    <3> SUFFICES ASSUME NEW i \in 1..Len(p \o t), (p \o t)[i].ix = "bodies"
                 PROVE  \/ i > 1 /\ (p \o t)[i - 1].ix = "spans" /\ (p \o t)[i - 1].id = (p \o t)[i].id
                        \/ Oversized((p \o t)[i].id, cs)
      BY DEF BodiesFollow
    <3>1. Len(p \o t) = Len(p) + Len(t) /\ Len(p) \in Nat /\ Len(t) \in Nat
      BY <2>3, <2>4
    <3>2. CASE i =< Len(p)
      <4>1. i \in 1..Len(p) /\ (p \o t)[i] = p[i] /\ (i > 1 => (p \o t)[i - 1] = p[i - 1])
        BY <3>1, <3>2, <2>3, <2>4
      <4> QED  BY <4>1, <2>3 DEF BodiesFollow
    <3>3. CASE i > Len(p)
      <4> DEFINE j == i - Len(p)
      <4>1. j \in 1..Len(t) /\ (p \o t)[i] = t[j]
            /\ (j > 1 => i > 1 /\ (p \o t)[i - 1] = t[j - 1])
        BY <3>1, <3>3, <2>3, <2>4
      <4>2. k + 1 \in DOMAIN cs
        OBVIOUS
      <4> HIDE DEF j
      <4> QED  BY <4>1, <4>2, <2>4 DEF Oversized
    <3> QED  BY <3>1, <3>2, <3>3
  <2>7. k + 1 \in 0..Len(cs)
    BY <2>1
  <2> QED  BY <2>2, <2>5, <2>6, <2>7, Zenon
<1>4. Len(cs) \in S
  <2>1. Len(cs) \in Nat /\ Len(cs) \in 0..Len(cs)
    OBVIOUS
  <2> HIDE DEF S
  <2>2. \A n \in 0..Len(cs) : n \in S
    BY <1>2, <1>3, <2>1, UpTo
  <2> QED  BY <2>1, <2>2
<1> QED  BY <1>4 DEF span_batch

-----------------------------------------------------------------------------
(* The chunks of a flush: they cover a range of events without a gap and    *)
(* without an overlap.                                                      *)

ChunkType == {c \in [lo : Nat, hi : Nat, attempt : Nat] :
                 c.lo < c.hi /\ 1 =< c.lo /\ c.attempt =< Retries}

Tile(w, from, to) ==
    /\ w \in Seq(ChunkType)
    /\ w = <<>> => from = to
    /\ w # <<>> => w[1].lo = from /\ w[Len(w)].hi = to
    /\ \A k \in 1..(Len(w) - 1) : w[k].hi = w[k + 1].lo

LEMMA ChunkOK ==
  ASSUME NEW lo \in Nat, NEW hi \in Nat, 1 =< lo, lo < hi
  PROVE  Chunk(lo, hi) \in ChunkType /\ Chunk(lo, hi).lo = lo /\ Chunk(lo, hi).hi = hi
  BY HecAssumption DEF Chunk, ChunkType

LEMMA TileAppend ==
  ASSUME NEW w, NEW from, NEW to, Tile(w, from, to), NEW c \in ChunkType, c.lo = to
  PROVE  Tile(Append(w, c), from, c.hi)
<1>1. w \in Seq(ChunkType) /\ Len(w) \in Nat
  BY DEF Tile
<1> DEFINE v == Append(w, c)
<1>2. v \in Seq(ChunkType) /\ v # <<>> /\ Len(v) = Len(w) + 1
      /\ v[Len(w) + 1] = c /\ \A k \in 1..Len(w) : v[k] = w[k]
  BY <1>1
<1> HIDE DEF v
<1>3. v[1].lo = from
  <2>1. CASE w = <<>>
    BY <2>1, <1>2 DEF Tile
  <2>2. CASE w # <<>>
    <3>1. 1 \in 1..Len(w)
      BY <2>2, <1>1
    <3> QED  BY <3>1, <2>2, <1>2 DEF Tile
  <2> QED  BY <2>1, <2>2
<1>4. ASSUME NEW k \in 1..(Len(v) - 1) PROVE v[k].hi = v[k + 1].lo
  <2>1. k \in 1..Len(w)
    BY <1>1, <1>2
  <2>2. CASE k = Len(w)
    <3>1. w # <<>>
      BY <2>1
    <3> QED  BY <3>1, <2>1, <2>2, <1>2 DEF Tile
  <2>3. CASE k # Len(w)
    <3>1. k \in 1..(Len(w) - 1) /\ k + 1 \in 1..Len(w)
      BY <2>1, <2>3, <1>1
    <3> QED  BY <3>1, <2>1, <1>2 DEF Tile
  <2> QED  BY <2>2, <2>3
<1> QED  BY <1>2, <1>3, <1>4 DEF Tile, v

\* split_by_bytes leaves no event out and puts none in two chunks.
THEOREM ChunksCover ==
  ASSUME NEW evs \in Seq(EventType)
  PROVE  Tile(split_by_bytes(evs), 1, Len(evs) + 1)
<1> DEFINE C == Chunked(evs)
           Good(p, i) == /\ p.start \in Nat /\ 1 =< p.start /\ p.start =< i + 1
                         /\ i > 0 => p.start =< i
                         /\ Tile(p.out, 1, p.start)
           S == {i \in 0..Len(evs) : Good(C[i], i)}
<1>1. /\ C[0] = [start |-> 1, acc |-> 0, out |-> <<>>]
      /\ \A i \in 1..Len(evs) : C[i] = NextEvent(C[i - 1], i, evs[i].size + 1)
  <2>0. Len(evs) \in Nat
    OBVIOUS
  <2>1. C = [i \in 0..Len(evs) |-> IF i = 0 THEN [start |-> 1, acc |-> 0, out |-> <<>>]
                                   ELSE NextEvent(C[i - 1], i, evs[i].size + 1)]
    BY <2>0, ChunkedDef
  <2> HIDE DEF C
  <2>2. C[0] = [start |-> 1, acc |-> 0, out |-> <<>>]
    BY <2>0, <2>1
  <2>3. ASSUME NEW i \in 1..Len(evs) PROVE C[i] = NextEvent(C[i - 1], i, evs[i].size + 1)
    <3>1. i \in 0..Len(evs) /\ i # 0
      OBVIOUS
    <3> QED  BY <2>1, <3>1
  <2> QED  BY <2>2, <2>3
<1> HIDE DEF C
<1>2. 0 \in S
  <2>1. Tile(<<>>, 1, 1)
    BY DEF Tile
  <2> QED  BY <1>1, <2>1
<1>3. ASSUME NEW k \in 0..(Len(evs) - 1), k \in S PROVE k + 1 \in S
  <2> DEFINE p == C[k]
             n == evs[k + 1].size + 1
  <2>1. k + 1 \in 1..Len(evs) /\ (k + 1) - 1 = k
    OBVIOUS
  <2>2. C[k + 1] = NextEvent(p, k + 1, n)
    BY <1>1, <2>1
  <2>3. Good(p, k)
    BY <1>3
  <2> HIDE DEF p, n
  <2>4. CASE p.acc + n > MaxBodyBytes /\ k + 1 > p.start
    <3> DEFINE c == Chunk(p.start, k + 1)
    <3>1. C[k + 1].start = k + 1 /\ C[k + 1].out = Append(p.out, c)
      BY <2>2, <2>4 DEF NextEvent
    <3>2. c \in ChunkType /\ c.lo = p.start /\ c.hi = k + 1
      BY <2>3, <2>4, ChunkOK
    <3> HIDE DEF c
    <3>3. Tile(Append(p.out, c), 1, k + 1)
      BY <3>2, <2>3, TileAppend
    <3>4. k + 1 \in Nat /\ 1 =< k + 1 /\ k + 1 =< (k + 1) + 1 /\ k + 1 =< k + 1
      BY <2>1
    <3>5. Good(C[k + 1], k + 1)
      BY <3>1, <3>3, <3>4
    <3>6. k + 1 \in 0..Len(evs)
      BY <2>1
    <3> QED  BY <3>5, <3>6
  <2>5. CASE ~(p.acc + n > MaxBodyBytes /\ k + 1 > p.start)
    <3>1. C[k + 1] = [p EXCEPT !.acc = p.acc + n]
      BY <2>2, <2>5 DEF NextEvent
    <3>2. C[k + 1].start = p.start /\ C[k + 1].out = p.out
      BY <3>1
    <3> QED  BY <3>2, <2>1, <2>3
  <2> QED  BY <2>4, <2>5
<1>4. Good(C[Len(evs)], Len(evs))
  <2>1. Len(evs) \in Nat /\ Len(evs) \in 0..Len(evs)
    OBVIOUS
  <2> HIDE DEF S
  <2>2. \A i \in 0..Len(evs) : i \in S
    BY <1>2, <1>3, <2>1, UpTo
  <2> QED  BY <2>1, <2>2 DEF S
<1> DEFINE last == C[Len(evs)]
<1>5. CASE last.start =< Len(evs)
  <2> DEFINE c == Chunk(last.start, Len(evs) + 1)
  <2>1. c \in ChunkType /\ c.lo = last.start /\ c.hi = Len(evs) + 1
    BY <1>4, <1>5, ChunkOK
  <2>2. split_by_bytes(evs) = Append(last.out, c)
    BY <1>5 DEF split_by_bytes, C
  <2> HIDE DEF c, last
  <2>3. Tile(Append(last.out, c), 1, Len(evs) + 1)
    BY <1>4, <2>1, TileAppend DEF last
  <2> QED  BY <2>2, <2>3
<1>6. CASE ~(last.start =< Len(evs))
  <2>1. last.start = Len(evs) + 1
    BY <1>4, <1>6
  <2>2. split_by_bytes(evs) = last.out
    BY <1>6 DEF split_by_bytes, C
  <2> QED  BY <2>1, <2>2, <1>4
<1> QED  BY <1>5, <1>6

-----------------------------------------------------------------------------
(* The invariant of a flush.                                                *)

\* Where the writer stands: the first event not yet dealt with.
Cursor == IF work = <<>> THEN Len(events) + 1 ELSE work[1].lo

\* Every event before n is stored or was named as malformed.
Settled(n) == \A i \in 1..(n - 1) : i \in DOMAIN events => stored[i] > 0 \/ i \in refused

FlushTypes ==
    /\ useAck \in BOOLEAN /\ acked \in BOOLEAN
    /\ calls \in Seq(CallType)
    /\ events \in Seq(EventType) /\ BodiesFollow(events, calls)
    /\ hpc \in {"post", "sent", "asking", "ok", "err"}
    /\ stored \in [1..Len(events) -> Nat]
    /\ refused \subseteq 1..Len(events) /\ \A i \in refused : events[i].bad
    /\ hfaults \subseteq FaultKinds
    /\ late \subseteq {c \in ChunkType : c.hi =< Len(events) + 1}

\* The work left is the rest of the batch, in order.
WorkTiles ==
    /\ hpc \in {"ok", "err"} <=> work = <<>>
    /\ Tile(work, Cursor, Len(events) + 1)

\* Nothing is passed over, by the writer or by a request it gave up on.
InOrder ==
    /\ hpc # "err" => Settled(Cursor)
    /\ \A c \in late : Settled(c.lo)

\* An acknowledgement stands for the request being asked about.
AckTells ==
    /\ hpc = "sent" => ~acked
    /\ hpc = "asking" /\ acked => \A i \in work[1].lo..(work[1].hi - 1) : stored[i] > 0

\* While only answers were lost, nothing at or after the cursor is stored but
\* what is acknowledged.
OncePerEvent ==
    (useAck /\ hfaults \subseteq {"lost", "lost200"}) =>
        /\ late = {}
        /\ \A i \in 1..Len(events) : stored[i] =< 1
        /\ hpc # "err" =>
             \A i \in 1..Len(events) : i >= Cursor /\ stored[i] > 0 =>
                hpc = "asking" /\ acked /\ i < work[1].hi

\* An event is not stored ahead of a sound one before it.
NoGap ==
    "partial500" \notin hfaults =>
        \A i \in 2..Len(events) : stored[i] > 0 => stored[i - 1] > 0 \/ events[i - 1].bad

FlushInv == FlushTypes /\ WorkTiles /\ InOrder /\ AckTells /\ OncePerEvent /\ NoGap

LEMMA ChunkEnds ==
  ASSUME FlushInv, work # <<>>
  PROVE  \A k \in 1..Len(work) : work[k].hi =< Len(events) + 1
<1>1. work \in Seq(ChunkType) /\ Len(work) \in Nat \ {0} /\ Tile(work, Cursor, Len(events) + 1)
  BY DEF FlushInv, WorkTiles, Tile
<1>2. \A k \in 1..Len(work) : work[k] \in ChunkType
  BY <1>1
<1>3. \A k \in 1..Len(work) : work[k].lo \in Nat /\ work[k].hi \in Nat /\ work[k].lo < work[k].hi
  BY <1>2 DEF ChunkType
<1>4. Len(events) \in Nat
  BY DEF FlushInv, FlushTypes
<1> DEFINE N == Len(work)
           S == {n \in 0..(N - 1) : work[N - n].hi =< Len(events) + 1}
<1>5. 0 \in S
  BY <1>1, <1>3, <1>4 DEF Tile
<1>6. ASSUME NEW n \in 0..((N - 1) - 1), n \in S PROVE n + 1 \in S
  <2>1. N - (n + 1) \in 1..(N - 1) /\ (N - (n + 1)) + 1 = N - n /\ N - n \in 1..N /\ n + 1 \in 0..(N - 1)
    BY <1>1
  <2>2. work[N - (n + 1)].hi = work[N - n].lo
    BY <2>1, <1>1 DEF Tile
  <2>3. work[N - n].lo < work[N - n].hi /\ work[N - n].lo \in Nat /\ work[N - n].hi \in Nat
    BY <2>1, <1>3
  <2>4. work[N - n].hi =< Len(events) + 1
    BY <1>6
  <2>5. work[N - (n + 1)].hi =< Len(events) + 1
    BY <2>2, <2>3, <2>4, <1>4
  <2> QED  BY <2>1, <2>5
<1>7. \A n \in 0..(N - 1) : n \in S
  <2>1. N - 1 \in Nat
    BY <1>1
  <2> HIDE DEF S, N
  <2> QED  BY <1>5, <1>6, <2>1, UpTo
<1> TAKE k \in 1..Len(work)
<1>8. N - k \in 0..(N - 1) /\ N - (N - k) = k
  BY <1>1
<1> QED  BY <1>7, <1>8

LEMMA TileFacts ==
  ASSUME FlushInv, work # <<>>
  PROVE  /\ work \in Seq(ChunkType) /\ Len(work) \in Nat \ {0}
         /\ Head(work) = work[1] /\ work[1] \in ChunkType
         /\ work[1].lo = Cursor
         /\ work[1].lo \in 1..Len(events) /\ work[1].hi \in 2..(Len(events) + 1)
         /\ work[1].lo < work[1].hi
         /\ work[1].attempt \in 0..Retries
<1>1. work \in Seq(ChunkType) /\ Len(work) \in Nat \ {0} /\ Tile(work, Cursor, Len(events) + 1)
  BY DEF FlushInv, WorkTiles, Tile
<1>2. \A k \in 1..Len(work) : work[k] \in ChunkType
  BY <1>1
<1>3. \A k \in 1..Len(work) : work[k].lo \in Nat /\ work[k].hi \in Nat /\ work[k].lo < work[k].hi
  BY <1>2 DEF ChunkType
<1>4. Len(events) \in Nat
  BY DEF FlushInv, FlushTypes
<1>5. \A k \in 1..Len(work) : work[k].hi =< Len(events) + 1
  BY ChunkEnds
<1>6. 1 \in 1..Len(work)
  BY <1>1
<1>7. Head(work) = work[1] /\ work[1].lo = Cursor
  BY <1>1 DEF Cursor
<1>8. 1 =< work[1].lo /\ work[1].attempt \in 0..Retries
  BY <1>2, <1>6, HecAssumption DEF ChunkType
<1> QED  BY <1>1, <1>2, <1>3, <1>4, <1>5, <1>6, <1>7, <1>8

LEMMA WorkInside ==
  ASSUME FlushInv
  PROVE  \A w \in Range(work) : w.lo < w.hi /\ w.hi =< Len(events) + 1 /\ w.attempt =< Retries
<1> TAKE w \in Range(work)
<1>1. PICK k \in DOMAIN work : w = work[k]
  BY DEF Range
<1>2. work \in Seq(ChunkType)
  BY DEF FlushInv, WorkTiles, Tile
<1>3. k \in 1..Len(work) /\ work # <<>> /\ work[k] \in ChunkType
  BY <1>1, <1>2
<1>4. work[k].hi =< Len(events) + 1
  BY <1>3, ChunkEnds
<1> QED  BY <1>1, <1>3, <1>4 DEF ChunkType

LEMMA FirstBadOK ==
  ASSUME NEW evs, NEW lo \in Nat, NEW hi \in Nat, lo < hi
  PROVE  /\ FirstBad(evs, lo, hi) \in lo..hi
         /\ FirstBad(evs, lo, hi) # hi => evs[FirstBad(evs, lo, hi)].bad
<1> DEFINE bad == {i \in lo..(hi - 1) : evs[i].bad}
<1>1. CASE bad = {}
  BY <1>1 DEF FirstBad
<1>2. CASE bad # {}
  <2>1. bad \subseteq Nat
    OBVIOUS
  <2>2. PICK m \in bad : \A y \in bad : m =< y
    <3>1. PICK m \in bad : \A y \in bad : ~(<<y, m>> \in OpToRel(<, Nat))
      <4> HIDE DEF bad
      <4> QED  BY <1>2, <2>1, NatLessThanWellFounded, WFMin
    <3>2. \A y \in bad : m =< y
      <4> TAKE y \in bad
      <4>1. y \in Nat /\ m \in Nat
        BY <2>1
      <4> HIDE DEF bad
      <4>2. ~(y < m)
        BY <3>1, <4>1 DEF OpToRel
      <4> QED  BY <4>1, <4>2
    <3> QED  BY <3>2
  <2>3. FirstBad(evs, lo, hi) \in bad
    <3>1. FirstBad(evs, lo, hi) = CHOOSE i \in bad : \A j \in bad : i =< j
      BY <1>2 DEF FirstBad
    <3> HIDE DEF bad
    <3> QED  BY <3>1, <2>2
  <2> QED  BY <2>3
<1> QED  BY <1>1, <1>2

-----------------------------------------------------------------------------
(* Moving along the work and committing what was sent.                      *)

LEMMA TileTail ==
  ASSUME NEW w, NEW from, NEW to, Tile(w, from, to), w # <<>>
  PROVE  Tile(Tail(w), w[1].hi, to)
<1>1. w \in Seq(ChunkType) /\ Len(w) \in Nat \ {0} /\ w[Len(w)].hi = to
      /\ \A k \in 1..(Len(w) - 1) : w[k].hi = w[k + 1].lo
  BY DEF Tile
<1> DEFINE v == Tail(w)
<1>2. v \in Seq(ChunkType) /\ Len(v) = Len(w) - 1 /\ \A k \in 1..Len(v) : v[k] = w[k + 1]
  BY <1>1
<1> HIDE DEF v
<1>3. v = <<>> => w[1].hi = to
  <2> HAVE v = <<>>
  <2>1. Len(v) = 0
    OBVIOUS
  <2>2. Len(w) = 1
    BY <2>1, <1>1, <1>2
  <2> QED  BY <2>2, <1>1
<1>4. v # <<>> => v[1].lo = w[1].hi /\ v[Len(v)].hi = to
  <2> HAVE v # <<>>
  <2>1. Len(v) \in Nat \ {0}
    BY <1>2
  <2>2. 1 \in 1..Len(v) /\ Len(v) \in 1..Len(v) /\ 1 \in 1..(Len(w) - 1) /\ Len(v) + 1 = Len(w)
    BY <2>1, <1>1, <1>2
  <2> QED  BY <2>2, <1>1, <1>2
<1>5. ASSUME NEW k \in 1..(Len(v) - 1) PROVE v[k].hi = v[k + 1].lo
  <2>1. k \in 1..Len(v) /\ k + 1 \in 1..Len(v) /\ k + 1 \in 1..(Len(w) - 1)
    BY <1>1, <1>2
  <2> QED  BY <2>1, <1>1, <1>2
<1> QED  BY <1>2, <1>3, <1>4, <1>5 DEF Tile, v

LEMMA TilePrepend ==
  ASSUME NEW w, NEW from, NEW to, Tile(w, from, to), NEW c \in ChunkType, c.hi = from
  PROVE  Tile(<<c>> \o w, c.lo, to)
<1>1. w \in Seq(ChunkType) /\ Len(w) \in Nat /\ <<c>> \in Seq(ChunkType)
  BY DEF Tile
<1> DEFINE v == <<c>> \o w
<1>2. v \in Seq(ChunkType) /\ Len(v) = Len(w) + 1 /\ v[1] = c
      /\ \A k \in 1..Len(w) : v[k + 1] = w[k]
  <2>1. v \in Seq(ChunkType) /\ Len(v) = Len(<<c>>) + Len(w) /\ Len(<<c>>) = 1 /\ <<c>>[1] = c
    BY <1>1
  <2>2. v[1] = c
    BY <1>1
  <2>3. ASSUME NEW k \in 1..Len(w) PROVE v[k + 1] = w[k]
    <3>1. k + 1 \in 1..(1 + Len(w)) /\ k + 1 > 1 /\ (k + 1) - 1 = k
      BY <1>1
    <3> QED  BY <1>1, <2>1, <3>1
  <2> QED  BY <2>1, <2>2, <2>3
<1> HIDE DEF v
<1>3. v # <<>> /\ v[1].lo = c.lo
  BY <1>1, <1>2
<1>4. v[Len(v)].hi = to
  <2>1. CASE w = <<>>
    BY <2>1, <1>2 DEF Tile
  <2>2. CASE w # <<>>
    <3>1. Len(w) \in 1..Len(w)
      BY <2>2, <1>1
    <3> QED  BY <2>2, <3>1, <1>2 DEF Tile
  <2> QED  BY <2>1, <2>2
<1>5. ASSUME NEW k \in 1..(Len(v) - 1) PROVE v[k].hi = v[k + 1].lo
  <2>1. k \in 1..Len(w)
    BY <1>1, <1>2
  <2>2. CASE k = 1
    <3>1. w # <<>>
      BY <2>1, <1>1
    <3> QED  BY <2>1, <2>2, <3>1, <1>2 DEF Tile
  <2>3. CASE k # 1
    <3>1. k - 1 \in 1..(Len(w) - 1) /\ k - 1 \in 1..Len(w) /\ (k - 1) + 1 = k
      BY <2>1, <2>3, <1>1
    <3>2. w[k - 1].hi = w[(k - 1) + 1].lo
      BY <3>1 DEF Tile
    <3>3. v[(k - 1) + 1] = w[k - 1]
      BY <3>1, <1>2
    <3> QED  BY <3>1, <3>2, <3>3, <2>1, <1>2
  <2> QED  BY <2>2, <2>3
<1> QED  BY <1>2, <1>3, <1>4, <1>5 DEF Tile, v

LEMMA CursorIs ==
  ASSUME NEW x, Tile(work', x, Len(events') + 1) PROVE Cursor' = x
  BY DEF Tile, Cursor

LEMMA CommitOK ==
  ASSUME FlushInv, NEW S
  PROVE  /\ Commit(stored, S) \in [1..Len(events) -> Nat]
         /\ \A i \in 1..Len(events) :
               /\ stored[i] > 0 => Commit(stored, S)[i] > 0
               /\ i \in S => Commit(stored, S)[i] = stored[i] + 1 /\ Commit(stored, S)[i] > 0
               /\ i \notin S => Commit(stored, S)[i] = stored[i]
  BY DEF FlushInv, FlushTypes, Commit

\* Settled and NoGap when the events lo..m are committed and lo was the cursor
\* of whoever sent them.
LEMMA CommitRange ==
  ASSUME FlushInv, NEW lo \in 1..Len(events), NEW m \in 0..Len(events), Settled(lo),
         events' = events, stored' = Commit(stored, lo..m), refused \subseteq refused'
  PROVE  /\ \A n \in Nat : Settled(n) => Settled(n)'
         /\ m >= lo => Settled(m + 1)'
         /\ hfaults \subseteq hfaults' => NoGap'
<1> DEFINE N == Len(events)
<1>1. N \in Nat /\ DOMAIN events = 1..N
  BY DEF FlushInv, FlushTypes
<1>2. /\ \A i \in 1..N : stored[i] \in Nat /\ stored'[i] \in Nat
      /\ \A i \in 1..N : stored[i] > 0 => stored'[i] > 0
      /\ \A i \in 1..N : i \in lo..m => stored'[i] > 0
      /\ \A i \in 1..N : i \notin lo..m => stored'[i] = stored[i]
  BY CommitOK DEF FlushInv, FlushTypes
<1>3. \A n \in Nat : Settled(n) => Settled(n)'
  BY <1>1, <1>2 DEF Settled
<1>4. m >= lo => Settled(m + 1)'
  <2> HAVE m >= lo
  <2> SUFFICES ASSUME NEW i \in 1..m, i \in 1..N PROVE stored'[i] > 0 \/ i \in refused'
    BY <1>1 DEF Settled
  <2>1. CASE i < lo
    BY <2>1, <1>1, <1>2 DEF Settled
  <2>2. CASE i >= lo
    BY <2>2, <1>2
  <2> QED  BY <2>1, <2>2
<1>5. hfaults \subseteq hfaults' => NoGap'
  <2> HAVE hfaults \subseteq hfaults'
  <2> SUFFICES ASSUME "partial500" \notin hfaults', NEW i \in 2..N, stored'[i] > 0
               PROVE  stored'[i - 1] > 0 \/ events[i - 1].bad
    BY DEF NoGap
  <2>1. i \in 1..N /\ i - 1 \in 1..N
    BY <1>1
  <2>2. CASE i \notin lo..m
    <3>1. stored[i] > 0
      BY <2>1, <2>2, <1>2
    <3> QED  BY <3>1, <2>1, <1>2 DEF FlushInv, NoGap
  <2>3. CASE i \in lo..m /\ i # lo
    <3>1. i - 1 \in lo..m
      BY <2>3
    <3> QED  BY <3>1, <2>1, <1>2
  <2>4. CASE i = lo
    <3>1. stored[i - 1] > 0 \/ i - 1 \in refused
      BY <2>1, <2>4, <1>1 DEF Settled
    <3>2. i - 1 \in refused => events[i - 1].bad
      BY DEF FlushInv, FlushTypes
    <3> QED  BY <3>1, <3>2, <2>1, <1>2
  <2> QED  BY <2>2, <2>3, <2>4
<1> QED  BY <1>3, <1>4, <1>5

-----------------------------------------------------------------------------
(* One lemma per step of the writer.                                        *)

\* A step after which the writer stands at x and waits for no answer.
LEMMA Stands ==
  ASSUME FlushTypes', NoGap', NEW x \in Nat, Tile(work', x, Len(events') + 1),
         hpc' \in {"post", "ok"}, hpc' = "ok" <=> work' = <<>>,
         Settled(x)', \A c \in late' : Settled(c.lo)',
         (useAck' /\ hfaults' \subseteq {"lost", "lost200"}) =>
            /\ late' = {}
            /\ \A i \in 1..Len(events') : stored'[i] =< 1
            /\ \A i \in 1..Len(events') : i >= x => stored'[i] = 0
  PROVE  FlushInv'
<1>1. Cursor' = x
  BY CursorIs
<1>2. WorkTiles' /\ InOrder' /\ AckTells'
  BY <1>1 DEF WorkTiles, InOrder, AckTells
<1>3. OncePerEvent'
  BY <1>1 DEF OncePerEvent
<1> QED  BY <1>2, <1>3 DEF FlushInv

\* A step after which the flush has failed.
LEMMA Fails ==
  ASSUME FlushTypes', NoGap', work' = <<>>, hpc' = "err",
         \A c \in late' : Settled(c.lo)',
         (useAck' /\ hfaults' \subseteq {"lost", "lost200"}) =>
            late' = {} /\ \A i \in 1..Len(events') : stored'[i] =< 1
  PROVE  FlushInv'
<1>1. WorkTiles'
  BY DEF WorkTiles, Tile, Cursor
<1>2. InOrder' /\ AckTells' /\ OncePerEvent'
  BY DEF InOrder, AckTells, OncePerEvent
<1> QED  BY <1>1, <1>2 DEF FlushInv

\* A step that leaves what is stored and refused as it is.
LEMMA StillSettled ==
  ASSUME UNCHANGED <<events, stored, refused>>
  PROVE  /\ \A n : Settled(n)' <=> Settled(n)
         /\ hfaults \subseteq hfaults' /\ NoGap => NoGap'
  BY DEF Settled, NoGap

\* Another attempt, or the end of the flush.
LEMMA TransientKeeps ==
  ASSUME FlushInv, work # <<>>, Transient, UNCHANGED <<useAck, calls, events>>,
         FlushTypes', NoGap', NEW x \in Nat, x = Cursor,
         Settled(x)', \A c \in late' : Settled(c.lo)',
         (useAck /\ hfaults' \subseteq {"lost", "lost200"}) =>
            /\ late' = {}
            /\ \A i \in 1..Len(events) : stored'[i] =< 1
            /\ \A i \in 1..Len(events) : i >= x => stored'[i] = 0
  PROVE  FlushInv'
<1>1. /\ work \in Seq(ChunkType) /\ Len(work) \in Nat \ {0} /\ Head(work) = work[1]
      /\ work[1] \in ChunkType /\ work[1].lo = Cursor /\ Cursor \in Nat
      /\ work[1].attempt \in 0..Retries
  BY TileFacts
<1>2. CASE Head(work).attempt + 1 > Retries
  BY <1>2, Fails DEF Transient
<1>3. CASE ~(Head(work).attempt + 1 > Retries)
  <2> DEFINE c == [work[1] EXCEPT !.attempt = @ + 1]
  <2>1. work' = [work EXCEPT ![1] = c] /\ hpc' = "post"
    <3>1. work' = [work EXCEPT ![1].attempt = @ + 1] /\ hpc' = "post"
      BY <1>3 DEF Transient
    <3> QED  BY <3>1
  <2>2. c \in ChunkType /\ c.lo = work[1].lo /\ c.hi = work[1].hi
    BY <1>1, <1>3, HecAssumption DEF ChunkType
  <2> HIDE DEF c
  <2>3. /\ work' \in Seq(ChunkType) /\ Len(work') = Len(work) /\ work'[1] = c
        /\ \A k \in 2..Len(work) : work'[k] = work[k]
    BY <1>1, <2>1, <2>2
  <2>4. Tile(work', x, Len(events) + 1)
    <3>1. Tile(work, Cursor, Len(events) + 1)
      BY DEF FlushInv, WorkTiles
    <3>2. \A k \in 1..Len(work) : work'[k].lo = work[k].lo /\ work'[k].hi = work[k].hi
      BY <2>2, <2>3, <1>1
    <3>3. work' # <<>>
      BY <2>3, <1>1
    <3>4. work'[1].lo = x /\ work'[Len(work')].hi = Len(events) + 1
      BY <3>1, <3>2, <2>3, <1>1 DEF Tile
    <3>5. ASSUME NEW k \in 1..(Len(work') - 1) PROVE work'[k].hi = work'[k + 1].lo
      <4>1. k \in 1..Len(work) /\ k + 1 \in 1..Len(work) /\ k \in 1..(Len(work) - 1)
        BY <2>3, <1>1
      <4> QED  BY <4>1, <3>1, <3>2 DEF Tile
    <3> QED  BY <3>3, <3>4, <3>5, <2>3 DEF Tile
  <2>5. work' # <<>>
    BY <2>3, <1>1
  <2> QED  BY <2>1, <2>4, <2>5, Stands
<1> QED  BY <1>2, <1>3

LEMMA TypesKeep ==
  ASSUME FlushTypes, UNCHANGED <<useAck, calls, events>>, acked' \in BOOLEAN,
         hpc' \in {"post", "sent", "asking", "ok", "err"},
         stored' \in [1..Len(events) -> Nat],
         refused' \subseteq 1..Len(events), \A i \in refused' : events[i].bad,
         hfaults' \subseteq FaultKinds,
         late' \subseteq {c \in ChunkType : c.hi =< Len(events) + 1}
  PROVE  FlushTypes'
  BY DEF FlushTypes

LEMMA SameTypes ==
  ASSUME FlushInv, UNCHANGED <<useAck, calls, events, stored, acked, late, refused, hfaults>>,
         hpc' \in {"post", "sent", "asking", "ok", "err"}
  PROVE  FlushTypes'
  BY TypesKeep DEF FlushInv, FlushTypes

LEMMA PostKeeps == ASSUME FlushInv, Post PROVE FlushInv'
<1>1. /\ hpc = "post" /\ hpc' = "sent" /\ acked' = FALSE
      /\ UNCHANGED <<useAck, calls, events, work, stored, late, refused, hfaults>>
  BY DEF Post
<1>2. FlushTypes' /\ Cursor' = Cursor /\ NoGap'
  BY <1>1 DEF FlushInv, FlushTypes, Cursor, NoGap
<1>3. WorkTiles' /\ InOrder' /\ AckTells'
  BY <1>1, <1>2 DEF FlushInv, WorkTiles, InOrder, AckTells, Settled
<1>4. OncePerEvent'
  BY <1>1, <1>2 DEF FlushInv, OncePerEvent
<1> QED  BY <1>2, <1>3, <1>4 DEF FlushInv

\* Where the writer stands while it waits for the answer to a request.
LEMMA InFlight ==
  ASSUME FlushInv, hpc \in {"sent", "asking"}
  PROVE  /\ work # <<>> /\ Len(events) \in Nat
         /\ \E lo \in 1..Len(events), hi \in 2..(Len(events) + 1) :
               /\ lo = work[1].lo /\ hi = work[1].hi /\ lo < hi /\ lo = Cursor
               /\ Head(work) = work[1]
               /\ Settled(lo)
               /\ Tile(Tail(work), hi, Len(events) + 1)
               /\ (useAck /\ hfaults \subseteq {"lost", "lost200"}) =>
                     /\ late = {}
                     /\ \A i \in 1..Len(events) : stored[i] =< 1
                     /\ hpc = "sent" \/ ~acked => \A i \in 1..Len(events) : i >= lo => stored[i] = 0
                     /\ \A i \in 1..Len(events) : i >= hi => stored[i] = 0
<1>1. work # <<>>
  BY DEF FlushInv, WorkTiles
<1>2. /\ Head(work) = work[1] /\ work[1].lo = Cursor /\ work[1].lo \in 1..Len(events)
      /\ work[1].hi \in 2..(Len(events) + 1) /\ work[1].lo < work[1].hi
  BY <1>1, TileFacts
<1>3. Settled(work[1].lo)
  BY <1>2 DEF FlushInv, InOrder
<1>4. Tile(Tail(work), work[1].hi, Len(events) + 1)
  BY <1>1, TileTail DEF FlushInv, WorkTiles
<1>5. (useAck /\ hfaults \subseteq {"lost", "lost200"}) =>
         /\ late = {}
         /\ \A i \in 1..Len(events) : stored[i] =< 1
         /\ hpc = "sent" \/ ~acked => \A i \in 1..Len(events) : i >= work[1].lo => stored[i] = 0
         /\ \A i \in 1..Len(events) : i >= work[1].hi => stored[i] = 0
  <2> HAVE useAck /\ hfaults \subseteq {"lost", "lost200"}
  <2>1. \A i \in 1..Len(events) : stored[i] \in Nat
    BY DEF FlushInv, FlushTypes
  <2>2. \A i \in 1..Len(events) : i >= Cursor /\ stored[i] > 0 => hpc = "asking" /\ acked /\ i < work[1].hi
    BY DEF FlushInv, OncePerEvent
  <2>3. late = {} /\ \A i \in 1..Len(events) : stored[i] =< 1
    BY DEF FlushInv, OncePerEvent
  <2>4. hpc = "sent" \/ ~acked => \A i \in 1..Len(events) : i >= work[1].lo => stored[i] = 0
    BY <1>2, <2>1, <2>2
  <2>5. \A i \in 1..Len(events) : i >= work[1].hi => stored[i] = 0
    BY <1>2, <2>1, <2>2
  <2> QED  BY <2>3, <2>4, <2>5
<1>6. Len(events) \in Nat
  BY DEF FlushInv, FlushTypes
<1> QED  BY <1>1, <1>2, <1>3, <1>4, <1>5, <1>6

LEMMA ReplyOkKeeps == ASSUME FlushInv, ReplyOk PROVE FlushInv'
<1>1. /\ hpc = "sent" /\ acked' = TRUE /\ Advance(Tail(work))
      /\ stored' = Commit(stored, Head(work).lo..(Head(work).hi - 1))
      /\ UNCHANGED <<useAck, calls, events, late, refused, hfaults>>
  BY DEF ReplyOk
<1> DEFINE N == Len(events)
           Calm == useAck /\ hfaults \subseteq {"lost", "lost200"}
<1>2. PICK lo \in 1..N, hi \in 2..(N + 1) :
         /\ lo = work[1].lo /\ hi = work[1].hi /\ lo < hi /\ lo = Cursor
         /\ Head(work) = work[1] /\ Settled(lo) /\ Tile(Tail(work), hi, N + 1)
         /\ Calm => /\ late = {}
                    /\ \A i \in 1..N : stored[i] =< 1
                    /\ hpc = "sent" \/ ~acked => \A i \in 1..N : i >= lo => stored[i] = 0
                    /\ \A i \in 1..N : i >= hi => stored[i] = 0
  BY <1>1, InFlight
<1>3. N \in Nat /\ stored' = Commit(stored, lo..(hi - 1)) /\ hi - 1 \in 0..N /\ hi \in Nat
  <2>1. N \in Nat
    BY DEF FlushInv, FlushTypes
  <2>2. stored' = Commit(stored, lo..(hi - 1))
    BY <1>1, <1>2
  <2> QED  BY <2>1, <2>2
<1>4. /\ \A n \in Nat : Settled(n) => Settled(n)'
      /\ Settled(hi)' /\ NoGap'
  <2>1. hi - 1 >= lo /\ (hi - 1) + 1 = hi
    BY <1>2, <1>3
  <2> QED  BY <1>1, <1>2, <1>3, <2>1, CommitRange
<1>5. /\ stored' \in [1..N -> Nat]
      /\ \A i \in 1..N : /\ i \in lo..(hi - 1) => stored'[i] = stored[i] + 1
                         /\ i \notin lo..(hi - 1) => stored'[i] = stored[i]
  BY <1>3, CommitOK
<1>6. FlushTypes'
  <2>1. hpc' \in {"post", "ok"}
    BY <1>1 DEF Advance
  <2>2. /\ FlushTypes /\ refused' \subseteq 1..N /\ (\A i \in refused' : events[i].bad)
        /\ hfaults' \subseteq FaultKinds /\ late' \subseteq {c \in ChunkType : c.hi =< N + 1}
    BY <1>1 DEF FlushInv, FlushTypes
  <2> QED  BY <1>1, <1>5, <2>1, <2>2, TypesKeep
<1>7. hpc' \in {"post", "ok"} /\ (hpc' = "ok" <=> work' = <<>>) /\ Tile(work', hi, Len(events') + 1)
  BY <1>1, <1>2 DEF Advance
<1>8. \A c \in late' : Settled(c.lo)'
  <2> TAKE c \in late'
  <2>1. c \in late /\ c.lo \in Nat /\ Settled(c.lo)
    BY <1>1 DEF FlushInv, InOrder, FlushTypes, ChunkType
  <2> QED  BY <2>1, <1>4
<1>9. Calm => /\ \A i \in 1..N : stored'[i] =< 1
              /\ \A i \in 1..N : i >= hi => stored'[i] = 0
  <2> HAVE Calm
  <2>1. \A i \in 1..N : stored[i] \in Nat
    BY DEF FlushInv, FlushTypes
  <2>2. \A i \in 1..N : i \in lo..(hi - 1) => stored[i] = 0
    BY <1>1, <1>2
  <2>3. \A i \in 1..N : stored[i] =< 1 /\ (i >= hi => stored[i] = 0)
    BY <1>2
  <2>4. \A i \in 1..N : i >= hi => i \notin lo..(hi - 1)
    BY <1>2
  <2> HIDE DEF N, Calm
  <2> QED  BY <1>5, <2>1, <2>2, <2>3, <2>4
<1>10. (useAck' /\ hfaults' \subseteq {"lost", "lost200"}) =>
            /\ late' = {}
            /\ \A i \in 1..Len(events') : stored'[i] =< 1
            /\ \A i \in 1..Len(events') : i >= hi => stored'[i] = 0
  BY <1>1, <1>2, <1>9
<1> QED  BY <1>3, <1>4, <1>6, <1>7, <1>8, <1>10, Stands

LEMMA Reply400Keeps == ASSUME FlushInv, Reply400 PROVE FlushInv'
<1> DEFINE N == Len(events)
           Calm == useAck /\ hfaults \subseteq {"lost", "lost200"}
           bad == FirstBad(events, Head(work).lo, Head(work).hi)
<1>1. /\ hpc = "sent" /\ bad < Head(work).hi
      /\ stored' = Commit(stored, Head(work).lo..(bad - 1))
      /\ refused' = refused \cup {bad}
      /\ SkipRejected(Head(work), bad)
      /\ UNCHANGED <<useAck, calls, events, acked, late, hfaults>>
  BY DEF Reply400
<1>2. PICK lo \in 1..N, hi \in 2..(N + 1) :
         /\ lo = work[1].lo /\ hi = work[1].hi /\ lo < hi /\ lo = Cursor
         /\ Head(work) = work[1] /\ Settled(lo) /\ Tile(Tail(work), hi, N + 1)
         /\ Calm => /\ late = {}
                    /\ \A i \in 1..N : stored[i] =< 1
                    /\ hpc = "sent" \/ ~acked => \A i \in 1..N : i >= lo => stored[i] = 0
                    /\ \A i \in 1..N : i >= hi => stored[i] = 0
  BY <1>1, InFlight
<1>3. N \in Nat /\ lo \in Nat /\ hi \in Nat
  BY DEF FlushInv, FlushTypes
<1>4. PICK k \in lo..(hi - 1) : k = bad /\ events[k].bad
  <2>1. FirstBad(events, lo, hi) \in lo..hi
        /\ (FirstBad(events, lo, hi) # hi => events[FirstBad(events, lo, hi)].bad)
    BY <1>2, <1>3, FirstBadOK
  <2>2. bad = FirstBad(events, lo, hi)
    BY <1>2
  <2> QED  BY <1>1, <1>2, <1>3, <2>1, <2>2
<1>5. k \in 1..N /\ k - 1 \in 0..N /\ stored' = Commit(stored, lo..(k - 1)) /\ refused' = refused \cup {k}
  <2>1. k \in 1..N /\ k - 1 \in 0..N
    BY <1>2, <1>3, <1>4
  <2> QED  BY <2>1, <1>1, <1>2, <1>4
<1>6. /\ \A n \in Nat : Settled(n) => Settled(n)'
      /\ (k - 1 >= lo => Settled((k - 1) + 1)') /\ NoGap'
  BY <1>1, <1>2, <1>5, CommitRange
<1>7. Settled(k + 1)'
  <2>1. Settled(k)'
    <3>1. CASE k = lo
      BY <3>1, <1>2, <1>3, <1>6
    <3>2. CASE k # lo
      <4>1. k - 1 >= lo /\ (k - 1) + 1 = k
        BY <3>2, <1>3, <1>4
      <4> QED  BY <4>1, <1>6
    <3> QED  BY <3>1, <3>2
  <2>2. k \in refused'
    BY <1>5
  <2>3. \A i \in 1..((k + 1) - 1) : i = k \/ i \in 1..(k - 1)
    BY <1>5
  <2> QED  BY <2>1, <2>2, <2>3 DEF Settled
<1>8. /\ stored' \in [1..N -> Nat]
      /\ \A i \in 1..N : /\ i \in lo..(k - 1) => stored'[i] = stored[i] + 1
                         /\ i \notin lo..(k - 1) => stored'[i] = stored[i]
  BY <1>5, CommitOK
<1>9. hpc' \in {"post", "ok"} /\ (hpc' = "ok" <=> work' = <<>>) /\ Tile(work', k + 1, Len(events') + 1)
  <2>1. CASE k + 1 < hi
    <3> DEFINE c == [work[1] EXCEPT !.lo = k + 1]
    <3>1. Advance(<<c>> \o Tail(work))
      BY <2>1, <1>1, <1>2, <1>4 DEF SkipRejected
    <3>2. work[1] \in ChunkType
      BY <1>1, InFlight, TileFacts
    <3>3. c \in ChunkType /\ c.lo = k + 1 /\ c.hi = hi
      BY <3>2, <2>1, <1>2, <1>5 DEF ChunkType
    <3> HIDE DEF c
    <3>4. Tile(<<c>> \o Tail(work), k + 1, N + 1)
      <4>1. Tile(<<c>> \o Tail(work), c.lo, N + 1)
        BY <3>3, <1>2, TilePrepend
      <4> QED  BY <4>1, <3>3
    <3> QED  BY <3>1, <3>4, <1>1 DEF Advance
  <2>2. CASE ~(k + 1 < hi)
    <3>1. Advance(Tail(work))
      BY <2>2, <1>1, <1>2, <1>4 DEF SkipRejected
    <3>2. k + 1 = hi
      BY <2>2, <1>3, <1>4
    <3>3. Tile(Tail(work), k + 1, N + 1)
      BY <3>2, <1>2
    <3> QED  BY <3>1, <3>3, <1>1 DEF Advance
  <2> QED  BY <2>1, <2>2
<1>10. FlushTypes'
  <2>1. FlushTypes /\ hfaults' \subseteq FaultKinds /\ late' \subseteq {c \in ChunkType : c.hi =< N + 1}
        /\ acked' \in BOOLEAN
    BY <1>1 DEF FlushInv, FlushTypes
  <2>2. refused' \subseteq 1..N /\ (\A i \in refused' : events[i].bad)
    BY <1>4, <1>5 DEF FlushInv, FlushTypes
  <2> QED  BY <1>1, <1>8, <1>9, <2>1, <2>2, TypesKeep
<1>11. \A c \in late' : Settled(c.lo)'
  <2> TAKE c \in late'
  <2>1. c \in late /\ c.lo \in Nat /\ Settled(c.lo)
    BY <1>1 DEF FlushInv, InOrder, FlushTypes, ChunkType
  <2> QED  BY <2>1, <1>6
<1>12. Calm => /\ \A i \in 1..N : stored'[i] =< 1
               /\ \A i \in 1..N : i >= k + 1 => stored'[i] = 0
  <2> HAVE Calm
  <2>1. \A i \in 1..N : stored[i] =< 1 /\ (i >= lo => stored[i] = 0)
    BY <1>1, <1>2
  <2>2. \A i \in 1..N : /\ i \in lo..(k - 1) => i >= lo
                        /\ i >= k + 1 => i \notin lo..(k - 1) /\ i >= lo
    BY <1>3, <1>4
  <2> HIDE DEF N, Calm
  <2> QED  BY <1>8, <2>1, <2>2
<1>13. (useAck' /\ hfaults' \subseteq {"lost", "lost200"}) =>
            /\ late' = {}
            /\ \A i \in 1..Len(events') : stored'[i] =< 1
            /\ \A i \in 1..Len(events') : i >= k + 1 => stored'[i] = 0
  BY <1>1, <1>2, <1>12
<1>14. k + 1 \in Nat
  BY <1>5
<1> QED  BY <1>6, <1>7, <1>9, <1>10, <1>11, <1>13, <1>14, Stands

LEMMA Reply413Keeps == ASSUME FlushInv, Reply413 PROVE FlushInv'
<1> DEFINE N == Len(events)
           Calm == useAck /\ hfaults \subseteq {"lost", "lost200"}
<1>1. /\ hpc = "sent"
      /\ IF Head(work).hi - Head(work).lo = 1 THEN work' = <<>> /\ hpc' = "err"
         ELSE Advance(Halves(Head(work)) \o Tail(work))
      /\ UNCHANGED <<useAck, calls, events, stored, acked, late, refused, hfaults>>
  BY DEF Reply413
<1>2. PICK lo \in 1..N, hi \in 2..(N + 1) :
         /\ lo = work[1].lo /\ hi = work[1].hi /\ lo < hi /\ lo = Cursor
         /\ Head(work) = work[1] /\ Settled(lo) /\ Tile(Tail(work), hi, N + 1)
         /\ Calm => /\ late = {}
                    /\ \A i \in 1..N : stored[i] =< 1
                    /\ hpc = "sent" \/ ~acked => \A i \in 1..N : i >= lo => stored[i] = 0
                    /\ \A i \in 1..N : i >= hi => stored[i] = 0
  BY <1>1, InFlight
<1>3. NoGap' /\ Settled(lo)' /\ \A c \in late' : Settled(c.lo)'
  BY <1>1, <1>2, StillSettled DEF FlushInv, InOrder
<1>4. CASE hi - lo = 1
  <2>1. work' = <<>> /\ hpc' = "err"
    BY <1>1, <1>2, <1>4
  <2>2. FlushTypes'
    BY <1>1, <2>1, SameTypes
  <2> QED  BY <1>1, <1>2, <1>3, <2>1, <2>2, Fails
<1>5. CASE hi - lo # 1
  <2> DEFINE mid == lo + ((hi - lo + 1) \div 2)
             a == Chunk(lo, mid)
             b == Chunk(mid, hi)
  <2>1. mid \in Nat /\ lo < mid /\ mid < hi /\ lo \in Nat /\ hi \in Nat /\ 1 =< lo /\ 1 =< mid
    <3>1. lo \in Nat /\ hi \in Nat /\ 1 =< lo
      BY <1>2
    <3>2. PICK d \in Nat : d = hi - lo /\ d >= 2
      BY <3>1, <1>2, <1>5
    <3>3. (d + 1) \div 2 \in Nat /\ 1 =< (d + 1) \div 2 /\ (d + 1) \div 2 < d
      BY <3>2
    <3> QED  BY <3>1, <3>2, <3>3
  <2>2. Halves(Head(work)) = <<a, b>>
    BY <1>2 DEF Halves
  <2> HIDE DEF mid
  <2>3. a \in ChunkType /\ a.lo = lo /\ a.hi = mid /\ b \in ChunkType /\ b.lo = mid /\ b.hi = hi
    BY <2>1, ChunkOK
  <2> HIDE DEF a, b
  <2>4. Tile(<<b>> \o Tail(work), mid, N + 1)
    <3>1. Tile(<<b>> \o Tail(work), b.lo, N + 1)
      BY <1>2, <2>3, TilePrepend
    <3> QED  BY <2>3, <3>1
  <2>5. Tile(<<a>> \o (<<b>> \o Tail(work)), lo, N + 1)
    <3>1. Tile(<<a>> \o (<<b>> \o Tail(work)), a.lo, N + 1)
      BY <2>3, <2>4, TilePrepend
    <3> QED  BY <2>3, <3>1
  <2>6. <<a>> \o (<<b>> \o Tail(work)) = <<a, b>> \o Tail(work)
    <3> DEFINE t == Tail(work)
    <3>1. t \in Seq(ChunkType) /\ <<a>> \in Seq(ChunkType) /\ <<b>> \in Seq(ChunkType) /\ <<a, b>> \in Seq(ChunkType)
      BY <1>2, <2>3 DEF Tile
    <3> HIDE DEF t
    <3>2. <<a>> \o (<<b>> \o t) = (<<a>> \o <<b>>) \o t
      BY <3>1, ConcatAssociative
    <3>3. <<a>> \o <<b>> = <<a, b>>
      <4>1. <<a>> \o <<b>> \in Seq(ChunkType) /\ Len(<<a>> \o <<b>>) = 2 /\ Len(<<a, b>>) = 2
        BY <3>1
      <4>2. (<<a>> \o <<b>>)[1] = a /\ (<<a>> \o <<b>>)[2] = b
        BY <3>1
      <4>3. \A i \in 1..2 : (<<a>> \o <<b>>)[i] = <<a, b>>[i]
        BY <4>2
      <4> QED  BY <3>1, <4>1, <4>3, SeqEqual
    <3> QED  BY <3>2, <3>3 DEF t
  <2>7. Advance(<<a, b>> \o Tail(work))
    BY <1>1, <1>2, <1>5, <2>2
  <2>8. hpc' \in {"post", "ok"} /\ (hpc' = "ok" <=> work' = <<>>) /\ Tile(work', lo, Len(events') + 1)
    BY <1>1, <2>5, <2>6, <2>7 DEF Advance
  <2>9. FlushTypes'
    BY <1>1, <2>8, SameTypes
  <2>10. (useAck' /\ hfaults' \subseteq {"lost", "lost200"}) =>
            /\ late' = {}
            /\ \A i \in 1..Len(events') : stored'[i] =< 1
            /\ \A i \in 1..Len(events') : i >= lo => stored'[i] = 0
    BY <1>1, <1>2
  <2> QED  BY <1>3, <2>1, <2>8, <2>9, <2>10, Stands
<1> QED  BY <1>4, <1>5

LEMMA ReplyPermanentKeeps == ASSUME FlushInv, ReplyPermanent PROVE FlushInv'
<1>1. /\ hpc = "sent" /\ work' = <<>> /\ hpc' = "err"
      /\ UNCHANGED <<useAck, calls, events, stored, acked, late, refused, hfaults>>
  BY DEF ReplyPermanent
<1>2. FlushTypes'
  BY <1>1, SameTypes
<1>3. NoGap' /\ \A c \in late' : Settled(c.lo)'
  BY <1>1, StillSettled DEF FlushInv, InOrder
<1>4. (useAck' /\ hfaults' \subseteq {"lost", "lost200"}) =>
         late' = {} /\ \A i \in 1..Len(events') : stored'[i] =< 1
  BY <1>1 DEF FlushInv, OncePerEvent
<1> QED  BY <1>1, <1>2, <1>3, <1>4, Fails

\* A request is left without a usable answer: whatever the daemon did with it
\* keeps the order, the writer asks or tries again.
LEMMA Unanswered ==
  ASSUME FlushInv, hpc = "sent", resolve_transient, UNCHANGED <<useAck, calls, events, refused>>,
         acked' \in BOOLEAN, stored' \in [1..Len(events) -> Nat], NoGap',
         hfaults' \subseteq FaultKinds,
         late' \subseteq {c \in ChunkType : c.hi =< Len(events) + 1},
         \A n \in Nat : Settled(n) => Settled(n)', \A c \in late' : Settled(c.lo)',
         NEW lo \in 1..Len(events), NEW hi \in 2..(Len(events) + 1),
         lo = work[1].lo, hi = work[1].hi, lo < hi,
         acked' => \A i \in lo..(hi - 1) : stored'[i] > 0,
         (useAck /\ hfaults' \subseteq {"lost", "lost200"}) =>
            /\ late' = {}
            /\ \A i \in 1..Len(events) : stored'[i] =< 1
            /\ \A i \in 1..Len(events) : i >= lo /\ stored'[i] > 0 => acked' /\ i < hi
  PROVE  FlushInv'
<1>1. work # <<>> /\ lo = Cursor /\ Settled(lo) /\ lo \in Nat
  BY InFlight
<1>2. Settled(lo)'
  BY <1>1
<1>3. FlushTypes'
  <2>1. hpc' \in {"asking", "post", "err"}
    BY DEF resolve_transient, Transient
  <2>2. FlushTypes /\ refused' \subseteq 1..Len(events) /\ (\A i \in refused' : events[i].bad)
    BY DEF FlushInv, FlushTypes
  <2> QED  BY <2>1, <2>2, TypesKeep
<1>4. CASE useAck
  <2>1. hpc' = "asking" /\ work' = work
    BY <1>4 DEF resolve_transient
  <2>2. Cursor' = lo
    BY <1>1, <2>1 DEF Cursor
  <2>3. WorkTiles'
    BY <1>1, <2>1, <2>2 DEF FlushInv, WorkTiles
  <2>4. InOrder'
    BY <1>2, <2>2 DEF InOrder
  <2>5. AckTells'
    BY <2>1 DEF AckTells
  <2>6. OncePerEvent'
    BY <2>1, <2>2 DEF OncePerEvent
  <2> QED  BY <1>3, <2>3, <2>4, <2>5, <2>6 DEF FlushInv
<1>5. CASE ~useAck
  <2>1. Transient
    BY <1>5 DEF resolve_transient
  <2> QED  BY <1>1, <1>2, <1>3, <1>5, <2>1, TransientKeeps
<1> QED  BY <1>4, <1>5

LEMMA RequestFailsKeeps == ASSUME FlushInv, RequestFails PROVE FlushInv'
<1> DEFINE N == Len(events)
           Calm == useAck /\ hfaults \subseteq {"lost", "lost200"}
           all == Head(work).lo..(Head(work).hi - 1)
           bad == FirstBad(events, Head(work).lo, Head(work).hi)
<1>1. /\ hpc = "sent" /\ resolve_transient
      /\ UNCHANGED <<useAck, calls, events, refused>>
  BY DEF RequestFails
<1>2. PICK lo \in 1..N, hi \in 2..(N + 1) :
         /\ lo = work[1].lo /\ hi = work[1].hi /\ lo < hi /\ lo = Cursor
         /\ Head(work) = work[1] /\ Settled(lo) /\ Tile(Tail(work), hi, N + 1)
         /\ Calm => /\ late = {}
                    /\ \A i \in 1..N : stored[i] =< 1
                    /\ hpc = "sent" \/ ~acked => \A i \in 1..N : i >= lo => stored[i] = 0
                    /\ \A i \in 1..N : i >= hi => stored[i] = 0
  BY <1>1, InFlight
<1>3. /\ N \in Nat /\ stored \in [1..N -> Nat] /\ acked = FALSE /\ hfaults \subseteq FaultKinds
      /\ late \subseteq {c \in ChunkType : c.hi =< N + 1} /\ NoGap
      /\ \A c \in late : Settled(c.lo) /\ c.lo \in Nat
  BY <1>1 DEF FlushInv, FlushTypes, AckTells, InOrder, ChunkType
<1>4. ASSUME NEW f \in FaultKinds, Faulty(f)
      PROVE  hfaults \subseteq hfaults' /\ f \in hfaults' /\ hfaults' \subseteq FaultKinds
  BY <1>3, <1>4 DEF Faulty
<1>5. ASSUME Faulty("lost"), UNCHANGED <<stored, acked, late>> PROVE FlushInv'
  <2>1. hfaults \subseteq hfaults' /\ hfaults' \subseteq FaultKinds
    BY <1>4, <1>5 DEF FaultKinds
  <2>2. NoGap' /\ (\A n \in Nat : Settled(n) => Settled(n)') /\ \A c \in late' : Settled(c.lo)'
    BY <1>1, <1>3, <1>5, <2>1, StillSettled
  <2>3. (useAck /\ hfaults' \subseteq {"lost", "lost200"}) =>
            /\ late' = {}
            /\ \A i \in 1..N : stored'[i] =< 1
            /\ \A i \in 1..N : i >= lo /\ stored'[i] > 0 => acked' /\ i < hi
    BY <1>1, <1>2, <1>3, <1>5, <2>1
  <2>4. acked' = FALSE /\ stored' \in [1..N -> Nat] /\ late' \subseteq {c \in ChunkType : c.hi =< N + 1}
    BY <1>3, <1>5
  <2> HIDE DEF N
  <2> QED  BY <1>1, <1>2, <2>1, <2>2, <2>3, <2>4, Unanswered DEF N
<1>6. ASSUME NEW m \in 0..N, stored' = Commit(stored, lo..m), m < hi, late' = late, acked' \in BOOLEAN,
             acked' => m = hi - 1, hfaults \subseteq hfaults', hfaults' \subseteq FaultKinds,
             "lost400" \in hfaults' \/ (acked' /\ m = hi - 1)
      PROVE  FlushInv'
  <2>1. NoGap' /\ (\A n \in Nat : Settled(n) => Settled(n)')
    BY <1>1, <1>2, <1>6, CommitRange
  <2>2. \A c \in late' : Settled(c.lo)'
    BY <1>3, <1>6, <2>1
  <2>3. /\ stored' \in [1..N -> Nat]
        /\ \A i \in 1..N : /\ i \in lo..m => stored'[i] = stored[i] + 1 /\ stored'[i] > 0
                           /\ i \notin lo..m => stored'[i] = stored[i]
    BY <1>6, CommitOK
  <2>4. acked' => \A i \in lo..(hi - 1) : stored'[i] > 0
    <3> HAVE acked'
    <3>1. \A i \in lo..(hi - 1) : i \in 1..N /\ i \in lo..m
      BY <1>2, <1>3, <1>6
    <3> QED  BY <3>1, <2>3
  <2>5. (useAck /\ hfaults' \subseteq {"lost", "lost200"}) =>
            /\ late' = {}
            /\ \A i \in 1..N : stored'[i] =< 1
            /\ \A i \in 1..N : i >= lo /\ stored'[i] > 0 => acked' /\ i < hi
    <3> HAVE useAck /\ hfaults' \subseteq {"lost", "lost200"}
    <3>1. Calm /\ acked' /\ m = hi - 1
      BY <1>6
    <3>2. late' = {} /\ \A i \in 1..N : stored[i] =< 1 /\ (i >= lo => stored[i] = 0)
      BY <1>1, <1>2, <1>6, <3>1
    <3>3. \A i \in 1..N : /\ i \in lo..m => i >= lo
                          /\ i >= lo /\ i \notin lo..m => ~(i < hi)
                          /\ i \in lo..m => i < hi
      BY <1>2, <1>3, <3>1
    <3> HIDE DEF N, Calm
    <3> QED  BY <2>3, <3>1, <3>2, <3>3
  <2>6. late' \subseteq {c \in ChunkType : c.hi =< N + 1}
    BY <1>3, <1>6
  <2> HIDE DEF N
  <2> QED  BY <1>1, <1>2, <1>6, <2>1, <2>2, <2>3, <2>4, <2>5, <2>6, Unanswered DEF N
<1>7. ASSUME Faulty("lost200"), bad = Head(work).hi, stored' = Commit(stored, all), acked' = TRUE, late' = late
      PROVE  FlushInv'
  <2>1. stored' = Commit(stored, lo..(hi - 1)) /\ hi - 1 \in 0..N /\ hi - 1 < hi
    <3>1. hi - 1 \in 0..N /\ hi - 1 < hi
      BY <1>3
    <3>2. all = lo..(hi - 1)
      BY <1>2
    <3> QED  BY <1>7, <3>1, <3>2
  <2>2. hfaults \subseteq hfaults' /\ hfaults' \subseteq FaultKinds
    BY <1>4, <1>7 DEF FaultKinds
  <2> QED  BY <1>6, <1>7, <2>1, <2>2
<1>8. ASSUME Faulty("lost400"), bad < Head(work).hi, bad > Head(work).lo,
             stored' = Commit(stored, Head(work).lo..(bad - 1)), UNCHANGED <<acked, late>>
      PROVE  FlushInv'
  <2>1. PICK k \in lo..hi : k = bad
    <3>0. lo \in Nat /\ hi \in Nat /\ lo < hi
      BY <1>2, <1>3
    <3>1. FirstBad(events, lo, hi) \in lo..hi
      BY <3>0, FirstBadOK
    <3>2. bad = FirstBad(events, lo, hi)
      BY <1>2
    <3> QED  BY <3>1, <3>2
  <2>2. k - 1 \in 0..N /\ k - 1 < hi
    BY <1>2, <1>3, <1>8, <2>1
  <2>3. stored' = Commit(stored, lo..(k - 1))
    BY <1>2, <1>8, <2>1
  <2>4. hfaults \subseteq hfaults' /\ hfaults' \subseteq FaultKinds /\ "lost400" \in hfaults'
    BY <1>4, <1>8 DEF FaultKinds
  <2>5. acked' = FALSE
    BY <1>3, <1>8
  <2> QED  BY <1>6, <1>8, <2>2, <2>3, <2>4, <2>5
<1>9. ASSUME Faulty("partial500"), NEW ix, stored' = Commit(stored, {i \in all : events[i].ix = ix}),
             UNCHANGED <<acked, late>>
      PROVE  FlushInv'
  <2> DEFINE some == {i \in all : events[i].ix = ix}
  <2>1. hfaults' \subseteq FaultKinds /\ "partial500" \in hfaults'
    BY <1>4, <1>9 DEF FaultKinds
  <2>2. NoGap'
    BY <2>1 DEF NoGap
  <2>3. stored' \in [1..N -> Nat] /\ \A i \in 1..N : stored[i] > 0 => stored'[i] > 0
    <3> HIDE DEF some
    <3> QED  BY <1>9, CommitOK DEF some
  <2>4. \A n \in Nat : Settled(n) => Settled(n)'
    <3>1. DOMAIN events = 1..N
      BY DEF FlushInv, FlushTypes
    <3> QED  BY <1>1, <2>3, <3>1 DEF Settled
  <2>5. \A c \in late' : Settled(c.lo)'
    BY <1>3, <1>9, <2>4
  <2>6. acked' = FALSE /\ late' \subseteq {c \in ChunkType : c.hi =< N + 1}
    BY <1>3, <1>9
  <2>7. ~(hfaults' \subseteq {"lost", "lost200"})
    BY <2>1
  <2> HIDE DEF N
  <2> QED  BY <1>1, <1>2, <2>1, <2>2, <2>3, <2>4, <2>5, <2>6, <2>7, Unanswered DEF N
<1>10. ASSUME Faulty("late"), late' = late \cup {Head(work)}, UNCHANGED <<stored, acked>>
       PROVE  FlushInv'
  <2>1. hfaults \subseteq hfaults' /\ hfaults' \subseteq FaultKinds /\ "late" \in hfaults'
    BY <1>4, <1>10 DEF FaultKinds
  <2>2. NoGap' /\ \A n : Settled(n)' <=> Settled(n)
    BY <1>1, <1>3, <1>10, <2>1, StillSettled
  <2>3. Head(work) \in ChunkType /\ Head(work).hi =< N + 1 /\ Settled(Head(work).lo)
    <3>1. work # <<>>
      BY <1>1, InFlight
    <3>2. work[1] \in ChunkType
      BY <3>1, TileFacts
    <3>3. Head(work) = work[1] /\ work[1].lo = lo /\ work[1].hi = hi /\ hi =< N + 1
      BY <1>2, <1>3
    <3> QED  BY <3>2, <3>3, <1>2
  <2>4. \A c \in late' : Settled(c.lo)
    BY <1>3, <1>10, <2>3
  <2>5. \A c \in late' : Settled(c.lo)'
    BY <2>2, <2>4
  <2>6. late' \subseteq {c \in ChunkType : c.hi =< N + 1} /\ acked' = FALSE /\ stored' \in [1..N -> Nat]
    BY <1>3, <1>10, <2>3
  <2>7. ~(hfaults' \subseteq {"lost", "lost200"})
    BY <2>1
  <2> HIDE DEF N
  <2> QED  BY <1>1, <1>2, <2>1, <2>2, <2>5, <2>6, <2>7, Unanswered DEF N
<1> QED  BY <1>5, <1>7, <1>8, <1>9, <1>10 DEF RequestFails

LEMMA AckAnswerKeeps == ASSUME FlushInv, AckAnswer PROVE FlushInv'
<1> DEFINE N == Len(events)
           Calm == useAck /\ hfaults \subseteq {"lost", "lost200"}
<1>1. /\ hpc = "asking" /\ IF acked THEN Advance(Tail(work)) ELSE Transient
      /\ UNCHANGED <<useAck, calls, events, stored, acked, late, refused, hfaults>>
  BY DEF AckAnswer
<1>2. PICK lo \in 1..N, hi \in 2..(N + 1) :
         /\ lo = work[1].lo /\ hi = work[1].hi /\ lo < hi /\ lo = Cursor
         /\ Head(work) = work[1] /\ Settled(lo) /\ Tile(Tail(work), hi, N + 1)
         /\ Calm => /\ late = {}
                    /\ \A i \in 1..N : stored[i] =< 1
                    /\ hpc = "sent" \/ ~acked => \A i \in 1..N : i >= lo => stored[i] = 0
                    /\ \A i \in 1..N : i >= hi => stored[i] = 0
  BY <1>1, InFlight
<1>3. NoGap' /\ (\A n : Settled(n)' <=> Settled(n)) /\ \A c \in late' : Settled(c.lo)'
  BY <1>1, StillSettled DEF FlushInv, InOrder
<1>4. lo \in Nat /\ hi \in Nat /\ N \in Nat
  BY DEF FlushInv, FlushTypes
<1>5. CASE acked
  <2>1. hpc' \in {"post", "ok"} /\ (hpc' = "ok" <=> work' = <<>>) /\ Tile(work', hi, Len(events') + 1)
    BY <1>1, <1>2, <1>5 DEF Advance
  <2>2. FlushTypes'
    BY <1>1, <2>1, SameTypes
  <2>3. Settled(hi)
    <3>1. \A i \in lo..(hi - 1) : stored[i] > 0
      BY <1>1, <1>2, <1>5 DEF FlushInv, AckTells
    <3>2. \A i \in 1..(hi - 1) : i \in lo..(hi - 1) \/ i \in 1..(lo - 1)
      BY <1>2, <1>4
    <3> QED  BY <1>2, <3>1, <3>2 DEF Settled
  <2>4. Settled(hi)'
    BY <1>3, <2>3
  <2>5. (useAck' /\ hfaults' \subseteq {"lost", "lost200"}) =>
            /\ late' = {}
            /\ \A i \in 1..Len(events') : stored'[i] =< 1
            /\ \A i \in 1..Len(events') : i >= hi => stored'[i] = 0
    BY <1>1, <1>2
  <2> QED  BY <1>3, <1>4, <2>1, <2>2, <2>4, <2>5, Stands
<1>6. CASE ~acked
  <2>1. Transient /\ hpc' \in {"post", "err"}
    BY <1>1, <1>6 DEF Transient
  <2>2. FlushTypes'
    BY <1>1, <2>1, SameTypes
  <2>3. Settled(lo)'
    BY <1>2, <1>3
  <2>4. (useAck /\ hfaults' \subseteq {"lost", "lost200"}) =>
            /\ late' = {}
            /\ \A i \in 1..Len(events) : stored'[i] =< 1
            /\ \A i \in 1..Len(events) : i >= lo => stored'[i] = 0
    BY <1>1, <1>2, <1>6
  <2>5. work # <<>> /\ lo = Cursor
    BY <1>1, <1>2, InFlight
  <2>6. UNCHANGED <<useAck, calls, events>>
    BY <1>1
  <2> QED  BY <1>3, <1>4, <2>1, <2>2, <2>3, <2>4, <2>5, <2>6, TransientKeeps
<1> QED  BY <1>5, <1>6

LEMMA AckLostKeeps == ASSUME FlushInv, AckLost PROVE FlushInv'
<1>1. /\ hpc = "asking" /\ Faulty("ackLost") /\ Transient
      /\ UNCHANGED <<useAck, calls, events, stored, acked, late, refused>>
  BY DEF AckLost
<1>2. hfaults \subseteq hfaults' /\ hfaults' \subseteq FaultKinds /\ "ackLost" \in hfaults'
  BY <1>1 DEF Faulty, FaultKinds, FlushInv, FlushTypes
<1>3. PICK lo \in Nat : lo = Cursor /\ Settled(lo)
  <2>1. PICK lo \in 1..Len(events) : lo = Cursor /\ Settled(lo)
    BY <1>1, InFlight
  <2> QED  BY <2>1
<1>4. NoGap' /\ (\A n : Settled(n)' <=> Settled(n)) /\ \A c \in late' : Settled(c.lo)'
  BY <1>1, <1>2, StillSettled DEF FlushInv, InOrder
<1>5. FlushTypes'
  <2>1. hpc' \in {"post", "err"}
    BY <1>1 DEF Transient
  <2>2. /\ FlushTypes /\ refused' \subseteq 1..Len(events) /\ (\A i \in refused' : events[i].bad)
        /\ stored' \in [1..Len(events) -> Nat] /\ acked' \in BOOLEAN
        /\ late' \subseteq {c \in ChunkType : c.hi =< Len(events) + 1}
    BY <1>1 DEF FlushInv, FlushTypes
  <2> QED  BY <1>1, <1>2, <2>1, <2>2, TypesKeep
<1>6. work # <<>> /\ Settled(lo)' /\ ~(hfaults' \subseteq {"lost", "lost200"})
  BY <1>1, <1>2, <1>3, <1>4, InFlight
<1> QED  BY <1>1, <1>3, <1>4, <1>5, <1>6, TransientKeeps

LEMMA LateCommitKeeps == ASSUME FlushInv, LateCommit PROVE FlushInv'
<1>1. PICK c \in late : late' = late \ {c} /\ stored' = Commit(stored, c.lo..(c.hi - 1))
  BY DEF LateCommit
<1>2. UNCHANGED <<useAck, calls, events, work, hpc, acked, refused, hfaults>>
  BY DEF LateCommit
<1>3. PICK lo \in 1..Len(events), m \in 0..Len(events) : lo = c.lo /\ m = c.hi - 1
  <2>1. c \in ChunkType /\ c.hi =< Len(events) + 1 /\ Len(events) \in Nat
    BY DEF FlushInv, FlushTypes
  <2>2. c.lo \in 1..Len(events) /\ c.hi - 1 \in 0..Len(events)
    BY <2>1 DEF ChunkType
  <2> QED  BY <2>2
<1>4. Settled(lo) /\ stored' = Commit(stored, lo..m)
  BY <1>1, <1>3 DEF FlushInv, InOrder
<1>5. (\A n \in Nat : Settled(n) => Settled(n)') /\ NoGap'
  BY <1>2, <1>4, CommitRange
<1>6. stored' \in [1..Len(events) -> Nat] /\ \A i \in 1..Len(events) : stored[i] > 0 => stored'[i] > 0
  BY <1>4, CommitOK
<1>7. FlushTypes'
  BY <1>1, <1>2, <1>6, TypesKeep DEF FlushInv, FlushTypes
<1>8. Cursor' = Cursor /\ WorkTiles'
  BY <1>2 DEF FlushInv, WorkTiles, Cursor
<1>9. InOrder'
  <2>1. Cursor \in Nat
    BY TileFacts DEF FlushInv, FlushTypes, Cursor
  <2>2. PICK x \in Nat : x = Cursor
    BY <2>1
  <2>3. hpc' # "err" => Settled(x)'
    BY <1>2, <1>5, <2>2 DEF FlushInv, InOrder
  <2>4. \A d \in late' : Settled(d.lo)'
    <3> TAKE d \in late'
    <3>1. d \in late /\ d.lo \in Nat /\ Settled(d.lo)
      BY <1>1 DEF FlushInv, InOrder, FlushTypes, ChunkType
    <3> QED  BY <3>1, <1>5
  <2>5. Cursor' = x
    BY <1>8, <2>2
  <2> QED  BY <2>3, <2>4, <2>5 DEF InOrder
<1>10. AckTells'
  <2>1. hpc = "asking" /\ acked => \A i \in work[1].lo..(work[1].hi - 1) : stored'[i] > 0
    <3> HAVE hpc = "asking" /\ acked
    <3>1. work # <<>>
      BY DEF FlushInv, WorkTiles
    <3>2. work[1].lo \in 1..Len(events) /\ work[1].hi \in 2..(Len(events) + 1) /\ Len(events) \in Nat
      BY <3>1, TileFacts DEF FlushInv, FlushTypes
    <3>3. \A i \in work[1].lo..(work[1].hi - 1) : i \in 1..Len(events)
      BY <3>2
    <3> QED  BY <3>3, <1>6 DEF FlushInv, AckTells
  <2> QED  BY <1>2, <2>1 DEF FlushInv, AckTells
<1>11. OncePerEvent'
  BY <1>1, <1>2 DEF FlushInv, OncePerEvent
<1> QED  BY <1>5, <1>7, <1>8, <1>9, <1>10, <1>11 DEF FlushInv

LEMMA DaemonRestartKeeps == ASSUME FlushInv, DaemonRestart PROVE FlushInv'
<1>1. /\ Faulty("restart") /\ acked' = FALSE /\ late' = {} /\ hpc' = hpc
      /\ UNCHANGED <<useAck, calls, events, work, stored, refused>>
  BY DEF DaemonRestart
<1>2. hfaults \subseteq hfaults' /\ hfaults' \subseteq FaultKinds /\ "restart" \in hfaults'
  BY <1>1 DEF Faulty, FaultKinds, FlushInv, FlushTypes
<1>3. FlushTypes'
  <2>1. /\ FlushTypes /\ refused' \subseteq 1..Len(events) /\ (\A i \in refused' : events[i].bad)
        /\ stored' \in [1..Len(events) -> Nat] /\ hpc' \in {"post", "sent", "asking", "ok", "err"}
    BY <1>1 DEF FlushInv, FlushTypes
  <2> QED  BY <1>1, <1>2, <2>1, TypesKeep
<1>4. Cursor' = Cursor
  BY <1>1 DEF Cursor
<1>5. WorkTiles'
  BY <1>1, <1>4 DEF FlushInv, WorkTiles
<1>6. InOrder' /\ AckTells'
  BY <1>1, <1>4 DEF FlushInv, InOrder, AckTells, Settled
<1>7. OncePerEvent' /\ NoGap'
  BY <1>1, <1>2 DEF FlushInv, OncePerEvent, NoGap
<1> QED  BY <1>3, <1>5, <1>6, <1>7 DEF FlushInv

LEMMA FlushStarts == ASSUME HecInit PROVE FlushInv
<1>1. /\ useAck \in BOOLEAN /\ calls \in Seq(CallType) /\ acked = FALSE /\ late = {} /\ refused = {} /\ hfaults = {}
      /\ events = span_batch(calls) /\ work = split_by_bytes(events)
      /\ hpc = IF events = <<>> THEN "ok" ELSE "post"
      /\ stored = [i \in DOMAIN events |-> 0]
  BY HecAssumption DEF HecInit
<1>2. events \in Seq(EventType) /\ BodiesFollow(events, calls)
  BY <1>1, BatchOK
<1>3. Len(events) \in Nat /\ DOMAIN events = 1..Len(events)
  BY <1>2
<1>4. Tile(work, 1, Len(events) + 1)
  BY <1>1, <1>2, ChunksCover
<1>5. Cursor = 1
  BY <1>4 DEF Tile, Cursor
<1>6. FlushTypes
  BY <1>1, <1>2, <1>3 DEF FlushTypes
<1>7. work = <<>> <=> events = <<>>
  <2>1. work = <<>> => Len(events) = 0
    BY <1>3, <1>4 DEF Tile
  <2>2. events = <<>> => work = <<>>
    <3> HAVE events = <<>>
    <3>1. SUFFICES ASSUME work # <<>> PROVE FALSE
      OBVIOUS
    <3>2. /\ work \in Seq(ChunkType) /\ Len(work) \in Nat \ {0} /\ work[1].lo = 1
          /\ work[Len(work)].hi = 1 /\ Len(work) \in 1..Len(work)
      BY <3>1, <1>4 DEF Tile
    <3>3. work[Len(work)] \in ChunkType
      BY <3>2
    <3> QED  BY <3>2, <3>3 DEF ChunkType
  <2> QED  BY <2>1, <2>2, <1>2
<1>8. WorkTiles
  BY <1>1, <1>4, <1>5, <1>7 DEF WorkTiles
<1>9. InOrder /\ AckTells
  BY <1>1, <1>5 DEF InOrder, AckTells, Settled
<1>10. OncePerEvent /\ NoGap
  BY <1>1, <1>3 DEF OncePerEvent, NoGap
<1> QED  BY <1>6, <1>8, <1>9, <1>10 DEF FlushInv

LEMMA FlushKeeps == ASSUME FlushInv, [HecNext]_hvars PROVE FlushInv'
<1>1. CASE UNCHANGED hvars
  <2>1. UNCHANGED <<useAck, calls, events, work, hpc, stored, acked, late, refused, hfaults>>
    BY <1>1 DEF hvars
  <2> QED  BY <2>1 DEF FlushInv, FlushTypes, WorkTiles, InOrder, AckTells, OncePerEvent, NoGap, Settled, Cursor
<1> QED
  BY <1>1, PostKeeps, ReplyOkKeeps, Reply400Keeps, Reply413Keeps, ReplyPermanentKeeps, RequestFailsKeeps,
     AckAnswerKeeps, AckLostKeeps, LateCommitKeeps, DaemonRestartKeeps DEF HecNext, Writer

\* The inductive invariant of a flush, in the client as a whole.
THEOREM FlushInvariant == ClientSpec => []FlushInv
<1>1. ClientInit => FlushInv
  BY FlushStarts DEF ClientInit, WriterAtRest
<1>2. FlushInv /\ [ClientNext]_clientVars => FlushInv'
  <2>1. [ClientNext]_clientVars => [HecNext]_hvars
    BY DEF ClientNext, clientVars
  <2> QED  BY <2>1, FlushKeeps
<1> QED  BY <1>1, <1>2, PTL DEF ClientSpec

\* A flush that reports success has stored every event the daemon did not refuse;
\* with acks an event is stored twice only in the windows an ack cannot see; and no
\* body stands without its span but for a reason of its own: for any batch, any
\* limits and retry budget, and any faults (HecClient::send, send_chunk).
THEOREM FlushesAreSound == ClientSpec => []FlushSound
<1>1. FlushInv => FlushSound
  <2> SUFFICES ASSUME FlushInv PROVE FlushSound
    OBVIOUS
  <2>1. Len(events) \in Nat /\ DOMAIN events = 1..Len(events) /\ DOMAIN stored = DOMAIN events
        /\ \A i \in DOMAIN events : stored[i] \in Nat
    BY DEF FlushInv, FlushTypes
  <2>2. HecTypeOK
    <3>1. \A w \in Range(work) : w.lo < w.hi /\ w.hi =< Len(events) + 1 /\ w.attempt =< Retries
      BY WorkInside
    <3>2. \A i \in DOMAIN calls : calls[i] \in CallType
      BY DEF FlushInv, FlushTypes
    <3> QED  BY <2>1, <3>1, <3>2 DEF HecTypeOK, FlushInv, FlushTypes
  <2>3. SuccessIsDurable
    <3> SUFFICES ASSUME hpc = "ok" PROVE \A i \in DOMAIN events : stored[i] > 0 \/ i \in refused
      BY DEF SuccessIsDurable
    <3>1. Settled(Len(events) + 1)
      BY DEF FlushInv, WorkTiles, InOrder, Cursor
    <3> QED  BY <3>1, <2>1 DEF Settled
  <2>4. DuplicateOnlyInAckGap
    BY <2>1 DEF DuplicateOnlyInAckGap, FlushInv, OncePerEvent
  <2>5. OrphanBodyHasReason
    <3> SUFFICES ASSUME NEW i \in DOMAIN events, events[i].ix = "bodies", stored[i] > 0,
                        "partial500" \notin hfaults, ~Oversized(events[i].id, calls)
                 PROVE  \E j \in DOMAIN events :
                           /\ events[j].ix = "spans" /\ events[j].id = events[i].id
                           /\ stored[j] > 0 \/ events[j].bad
      BY DEF OrphanBodyHasReason, Oversized
    <3>1. i > 1 /\ events[i - 1].ix = "spans" /\ events[i - 1].id = events[i].id
      BY <2>1 DEF FlushInv, FlushTypes, BodiesFollow
    <3>2. i \in 2..Len(events) /\ i - 1 \in DOMAIN events
      BY <2>1, <3>1
    <3>3. stored[i - 1] > 0 \/ events[i - 1].bad
      BY <3>2 DEF FlushInv, NoGap
    <3> QED  BY <3>1, <3>2, <3>3
  <2> QED  BY <2>2, <2>3, <2>4, <2>5 DEF FlushSound
<1> QED  BY <1>1, FlushInvariant, PTL
-----------------------------------------------------------------------------
(* DuckDB's read pool: what a permit is worth while the connections are     *)
(* replaced.                                                                *)

ReadStates == {"idle", "permit", "snapshot", "held", "returned"}

ReaderType == [Readers -> [pc : ReadStates, inner : Nat, conn : {<<>>} \cup (Nat \X Nat)]]

\* Reads with a permit, those with a connection of inner i, and the inners some
\* read points to.
Busy(rd) == {r \in Readers : rd[r].pc # "idle"}
Holders(rd, i) == {r \in Readers : rd[r].pc = "held" /\ rd[r].inner = i}
Inners(rd) == {rd[r].inner : r \in {x \in Readers : rd[x].pc \in {"snapshot", "held"}}}

\* Every permit is free or with a read, and every connection of an inner is idle
\* in it or with one read.
PoolOk(rd, pl, cur, pm) ==
  /\ rd \in ReaderType
  /\ pm \in Nat /\ pm + Cardinality(Busy(rd)) = PoolSize
  /\ cur \in DOMAIN pl /\ Inners(rd) \subseteq DOMAIN pl
  /\ pl = [i \in DOMAIN pl |-> Fresh(i) \ {rd[r].conn : r \in Holders(rd, i)}]
  /\ \A r \in Readers : rd[r].pc = "held" => rd[r].conn \in Fresh(rd[r].inner)
  /\ \A r, q \in Readers : r # q /\ rd[r].pc = "held" /\ rd[q].pc = "held" /\ rd[r].inner = rd[q].inner
                             => rd[r].conn # rd[q].conn

LEMMA FreshSize ==
  ASSUME NEW i
  PROVE  IsFiniteSet(Fresh(i)) /\ Cardinality(Fresh(i)) = PoolSize
<1> DEFINE f == [k \in 1..PoolSize |-> <<i, k>>]
<1>1. f \in Bijection(1..PoolSize, Fresh(i))
  <2>1. f \in [1..PoolSize -> Fresh(i)]
    BY DEF Fresh
  <2>2. \A k, l \in 1..PoolSize : f[k] = f[l] => k = l
    OBVIOUS
  <2>3. \A c \in Fresh(i) : \E k \in 1..PoolSize : f[k] = c
    BY DEF Fresh
  <2> HIDE DEF f
  <2> QED  BY <2>1, <2>2, <2>3 DEF Bijection, Injection, Surjection, IsInjective
<1>2. IsFiniteSet(1..PoolSize) /\ Cardinality(1..PoolSize) = PoolSize
  BY DuckAssumption, FS_Interval
<1> HIDE DEF f
<1>3. ExistsBijection(1..PoolSize, Fresh(i))
  BY <1>1 DEF ExistsBijection
<1> QED  BY <1>2, <1>3, FS_Bijection

LEMMA BusyFinite ==
  ASSUME NEW rd
  PROVE  IsFiniteSet(Busy(rd)) /\ Cardinality(Busy(rd)) \in Nat
<1>1. Busy(rd) \in SUBSET Readers
  BY DEF Busy
<1>2. IsFiniteSet(Busy(rd))
  BY <1>1, DuckAssumption, FS_Subset
<1> QED  BY <1>2, FS_CardinalityType

\* A read with a permit and a snapshot finds a connection in it.
LEMMA PopFinds ==
  ASSUME NEW rd, NEW pl, NEW cur, NEW pm, PoolOk(rd, pl, cur, pm),
         NEW r \in Readers, rd[r].pc = "snapshot"
  PROVE  pl[rd[r].inner] # {}
<1> SUFFICES ASSUME pl[rd[r].inner] = {} PROVE FALSE
  OBVIOUS
<1> DEFINE i == rd[r].inner
           H == Holders(rd, i)
           T == {rd[x].conn : x \in H}
<1>1. i \in DOMAIN pl
  BY DEF PoolOk, Inners
<1>2. Fresh(i) \in SUBSET T
  BY <1>1 DEF PoolOk
<1>3. H \in SUBSET (Busy(rd) \ {r})
  BY DEF Holders, Busy
<1>4. IsFiniteSet(Busy(rd)) /\ Cardinality(Busy(rd)) \in Nat /\ r \in Busy(rd)
  BY BusyFinite DEF Busy
<1>5. IsFiniteSet(Busy(rd) \ {r}) /\ Cardinality(Busy(rd) \ {r}) = Cardinality(Busy(rd)) - 1
  BY <1>4, FS_RemoveElement
<1> HIDE DEF H
<1>6. IsFiniteSet(H) /\ Cardinality(H) <= Cardinality(Busy(rd)) - 1
  BY <1>3, <1>5, FS_Subset
<1>7. IsFiniteSet(T) /\ Cardinality(T) <= Cardinality(H)
  <2> DEFINE f == [x \in H |-> rd[x].conn]
  <2>1. f \in Surjection(H, T)
    BY DEF Surjection
  <2> HIDE DEF f, T
  <2> QED  BY <1>6, <2>1, FS_Surjection
<1> HIDE DEF T
<1>8. Cardinality(Fresh(i)) <= Cardinality(T)
  BY <1>2, <1>7, FS_Subset
<1>9. Cardinality(Fresh(i)) = PoolSize
  BY FreshSize
<1>10. pm \in Nat /\ pm + Cardinality(Busy(rd)) = PoolSize
  BY DEF PoolOk
<1>11. Cardinality(H) \in Nat /\ Cardinality(T) \in Nat
  BY <1>6, <1>7, FS_CardinalityType
<1> QED  BY <1>4, <1>6, <1>7, <1>8, <1>9, <1>10, <1>11

\* A step that leaves alone the reads that have a connection.
LEMMA SameHolders ==
  ASSUME NEW rd, NEW pl, NEW cur, NEW pm, PoolOk(rd, pl, cur, pm), NEW u \in ReaderType, NEW pn \in Nat,
         \A x \in Readers : u[x].pc = "held" \/ rd[x].pc = "held" => u[x] = rd[x],
         pn + Cardinality(Busy(u)) = PoolSize, Inners(u) \subseteq DOMAIN pl
  PROVE  PoolOk(u, pl, cur, pn)
<1>1. \A i : Holders(u, i) = Holders(rd, i)
  BY DEF Holders
<1>2. \A i : \A x \in Holders(rd, i) : u[x].conn = rd[x].conn
  BY DEF Holders
<1>3. \A i : {u[x].conn : x \in Holders(u, i)} = {rd[x].conn : x \in Holders(rd, i)}
  BY <1>1, <1>2
<1>4. pl = [i \in DOMAIN pl |-> Fresh(i) \ {u[x].conn : x \in Holders(u, i)}]
  BY <1>3 DEF PoolOk
<1>5. /\ \A r \in Readers : u[r].pc = "held" => u[r].conn \in Fresh(u[r].inner)
      /\ \A r, q \in Readers : r # q /\ u[r].pc = "held" /\ u[q].pc = "held" /\ u[r].inner = u[q].inner
                                 => u[r].conn # u[q].conn
  BY DEF PoolOk
<1>6. cur \in DOMAIN pl
  BY DEF PoolOk
<1> QED  BY <1>4, <1>5, <1>6 DEF PoolOk

\* What moves between idle and busy.
LEMMA PermitStep ==
  ASSUME NEW rd, NEW pl, NEW cur, NEW pm, PoolOk(rd, pl, cur, pm), NEW r \in Readers,
         rd[r].pc = "idle", pm > 0
  PROVE  PoolOk([rd EXCEPT ![r] = [Idle EXCEPT !.pc = "permit"]], pl, cur, pm - 1)
<1> DEFINE u == [rd EXCEPT ![r] = [Idle EXCEPT !.pc = "permit"]]
<1>1. [Idle EXCEPT !.pc = "permit"] = [pc |-> "permit", inner |-> 0, conn |-> <<>>]
  BY DEF Idle
<1>2. rd \in ReaderType
  BY DEF PoolOk
<1>3. u \in ReaderType /\ u[r].pc = "permit" /\ \A x \in Readers : x # r => u[x] = rd[x]
  BY <1>1, <1>2 DEF ReaderType, ReadStates
<1> HIDE DEF u
<1>4. Busy(u) = Busy(rd) \cup {r} /\ r \notin Busy(rd)
  BY <1>3 DEF Busy
<1>5. Cardinality(Busy(u)) = Cardinality(Busy(rd)) + 1
  BY <1>4, BusyFinite, FS_AddElement
<1>6. Inners(u) = Inners(rd)
  BY <1>3 DEF Inners
<1>8. pm - 1 \in Nat /\ (pm - 1) + Cardinality(Busy(u)) = PoolSize
  BY <1>5, BusyFinite, DuckAssumption DEF PoolOk
<1>9. PoolOk(u, pl, cur, pm - 1)
  <2>1. Inners(rd) \subseteq DOMAIN pl
    BY DEF PoolOk
  <2> QED  BY <1>3, <1>6, <1>8, <2>1, SameHolders
<1> QED  BY <1>9 DEF u

LEMMA ReturnPermitStep ==
  ASSUME NEW rd, NEW pl, NEW cur, NEW pm, PoolOk(rd, pl, cur, pm), NEW r \in Readers, rd[r].pc = "returned"
  PROVE  PoolOk([rd EXCEPT ![r] = Idle], pl, cur, pm + 1)
<1> DEFINE u == [rd EXCEPT ![r] = Idle]
<1>1. rd \in ReaderType
  BY DEF PoolOk
<1>2. u \in ReaderType /\ u[r].pc = "idle" /\ \A x \in Readers : x # r => u[x] = rd[x]
  BY <1>1 DEF ReaderType, ReadStates, Idle
<1> HIDE DEF u
<1>4. Busy(u) = Busy(rd) \ {r} /\ r \in Busy(rd)
  BY <1>2 DEF Busy
<1>5. Cardinality(Busy(u)) = Cardinality(Busy(rd)) - 1
  BY <1>4, BusyFinite, FS_RemoveElement
<1>6. Inners(u) = Inners(rd)
  BY <1>2 DEF Inners
<1>8. pm + 1 \in Nat /\ (pm + 1) + Cardinality(Busy(u)) = PoolSize
  BY <1>5, BusyFinite, DuckAssumption DEF PoolOk
<1>9. PoolOk(u, pl, cur, pm + 1)
  <2>1. Inners(rd) \subseteq DOMAIN pl
    BY DEF PoolOk
  <2> QED  BY <1>2, <1>6, <1>8, <2>1, SameHolders
<1> QED  BY <1>9 DEF u

Snapped(rd, r, cur) == [rd EXCEPT ![r].pc = "snapshot", ![r].inner = cur]
Popped(rd, r, c) == [rd EXCEPT ![r].pc = "held", ![r].conn = c]

LEMMA SnapshotStep ==
  ASSUME NEW rd, NEW pl, NEW cur \in Nat, NEW pm, PoolOk(rd, pl, cur, pm), NEW r \in Readers, rd[r].pc = "permit"
  PROVE  PoolOk(Snapped(rd, r, cur), pl, cur, pm) /\ Inners(Snapped(rd, r, cur)) = Inners(rd) \cup {cur}
<1> DEFINE u == Snapped(rd, r, cur)
<1>1. rd \in ReaderType
  BY DEF PoolOk
<1>2. /\ u \in ReaderType /\ u[r].pc = "snapshot" /\ u[r].inner = cur
      /\ \A x \in Readers : x # r => u[x] = rd[x]
  BY <1>1 DEF ReaderType, ReadStates, Snapped
<1> HIDE DEF u
<1>4. Busy(u) = Busy(rd)
  BY <1>2 DEF Busy
<1>8. Inners(u) = Inners(rd) \cup {cur}
  <2>1. \A x \in Readers : rd[x].pc \in {"snapshot", "held"} => x # r /\ u[x] = rd[x]
    BY <1>2
  <2>2. \A x \in Readers : u[x].pc \in {"snapshot", "held"} => x = r \/ u[x] = rd[x]
    BY <1>2
  <2>3. Inners(rd) \subseteq Inners(u) /\ cur \in Inners(u)
    BY <1>2, <2>1 DEF Inners
  <2>4. Inners(u) \subseteq Inners(rd) \cup {cur}
    BY <1>2, <2>2 DEF Inners
  <2> QED  BY <2>3, <2>4
<1>9. PoolOk(u, pl, cur, pm)
  <2>1. Inners(u) \subseteq DOMAIN pl /\ pm \in Nat /\ pm + Cardinality(Busy(u)) = PoolSize
    BY <1>4, <1>8 DEF PoolOk
  <2> QED  BY <1>2, <2>1, SameHolders
<1> QED  BY <1>8, <1>9 DEF u
LEMMA FreshIsPairs ==
  ASSUME NEW i \in Nat, NEW c \in Fresh(i)
  PROVE  c \in Nat \X Nat /\ c[1] = i
  BY DuckAssumption DEF Fresh

LEMMA PopStep ==
  ASSUME NEW rd, NEW pl, NEW cur, NEW pm, PoolOk(rd, pl, cur, pm), NEW r \in Readers, rd[r].pc = "snapshot",
         NEW c \in pl[rd[r].inner]
  PROVE  /\ PoolOk(Popped(rd, r, c), [pl EXCEPT ![rd[r].inner] = @ \ {c}], cur, pm)
         /\ Inners(Popped(rd, r, c)) = Inners(rd)
<1> DEFINE i == rd[r].inner
           u == Popped(rd, r, c)
           pn == [pl EXCEPT ![i] = @ \ {c}]
<1>1. rd \in ReaderType /\ i \in DOMAIN pl /\ i \in Nat
  BY DEF PoolOk, Inners, ReaderType
<1>2. c \in Fresh(i) /\ c \notin {rd[x].conn : x \in Holders(rd, i)}
  BY <1>1 DEF PoolOk
<1>3. /\ u \in ReaderType /\ u[r].pc = "held" /\ u[r].inner = i /\ u[r].conn = c
      /\ \A x \in Readers : x # r => u[x] = rd[x]
  <2>1. c \in Nat \X Nat
    BY <1>1, <1>2, FreshIsPairs
  <2> QED  BY <1>1, <2>1 DEF ReaderType, ReadStates, Popped
<1> HIDE DEF u, i
<1>4. Busy(u) = Busy(rd)
  BY <1>3 DEF Busy
<1>5. Inners(u) = Inners(rd)
  BY <1>3 DEF Inners, i
<1>6. Holders(u, i) = Holders(rd, i) \cup {r} /\ \A k : k # i => Holders(u, k) = Holders(rd, k)
  BY <1>3 DEF Holders
<1>7. \A k : r \notin Holders(rd, k) /\ Holders(rd, k) \subseteq Readers
  BY DEF Holders
<1>8. /\ {u[x].conn : x \in Holders(u, i)} = {rd[x].conn : x \in Holders(rd, i)} \cup {c}
      /\ \A k : k # i => {u[x].conn : x \in Holders(u, k)} = {rd[x].conn : x \in Holders(rd, k)}
  BY <1>3, <1>6, <1>7
<1>9. pn = [k \in DOMAIN pn |-> Fresh(k) \ {u[x].conn : x \in Holders(u, k)}] /\ DOMAIN pn = DOMAIN pl
  <2>1. pl = [k \in DOMAIN pl |-> Fresh(k) \ {rd[x].conn : x \in Holders(rd, k)}]
    BY DEF PoolOk
  <2>2. DOMAIN pn = DOMAIN pl /\ pn = [k \in DOMAIN pl |-> pn[k]] /\ \A k \in DOMAIN pl : pn[k] = IF k = i THEN pl[i] \ {c} ELSE pl[k]
    BY <1>1, <2>1
  <2> HIDE DEF pn
  <2>3. ASSUME NEW k \in DOMAIN pl PROVE pn[k] = Fresh(k) \ {u[x].conn : x \in Holders(u, k)}
    <3>1. pl[k] = Fresh(k) \ {rd[x].conn : x \in Holders(rd, k)}
      BY <2>1
    <3>2. CASE k = i
      BY <1>8, <2>2, <3>1, <3>2
    <3>3. CASE k # i
      BY <1>8, <2>2, <3>1, <3>3
    <3> QED  BY <3>2, <3>3
  <2> QED  BY <2>2, <2>3
<1> HIDE DEF pn
<1>10. \A x \in Readers : u[x].pc = "held" => u[x].conn \in Fresh(u[x].inner)
  BY <1>2, <1>3 DEF PoolOk
<1>11. ASSUME NEW x \in Readers, NEW y \in Readers, x # y, u[x].pc = "held", u[y].pc = "held", u[x].inner = u[y].inner
       PROVE  u[x].conn # u[y].conn
  <2>1. \A z \in Readers : z # r /\ u[z].pc = "held" /\ u[z].inner = i => u[z].conn # c
    BY <1>2, <1>3 DEF Holders
  <2>2. CASE x = r \/ y = r
    BY <1>3, <1>11, <2>1, <2>2
  <2>3. CASE x # r /\ y # r
    BY <1>3, <1>11, <2>3 DEF PoolOk
  <2> QED  BY <2>2, <2>3
<1>12. PoolOk(u, pn, cur, pm)
  <2>1. pm \in Nat /\ pm + Cardinality(Busy(rd)) = PoolSize /\ cur \in DOMAIN pl /\ Inners(rd) \subseteq DOMAIN pl
    BY DEF PoolOk
  <2> QED  BY <1>3, <1>4, <1>5, <1>9, <1>10, <1>11, <2>1 DEF PoolOk
<1> QED  BY <1>5, <1>12 DEF u, pn, i

LEMMA DropStep ==
  ASSUME NEW rd, NEW pl, NEW cur, NEW pm, PoolOk(rd, pl, cur, pm), NEW r \in Readers, rd[r].pc = "held"
  PROVE  LET u == [rd EXCEPT ![r].pc = "returned"]
         IN  /\ PoolOk(u, [pl EXCEPT ![rd[r].inner] = @ \union {rd[r].conn}], cur, pm)
             /\ Inners(u) \subseteq Inners(rd)
<1> DEFINE i == rd[r].inner
           c == rd[r].conn
           u == [rd EXCEPT ![r].pc = "returned"]
           pn == [pl EXCEPT ![i] = @ \union {c}]
<1>1. rd \in ReaderType /\ i \in DOMAIN pl
  BY DEF PoolOk, Inners
<1>2. c \in Fresh(i) /\ r \in Holders(rd, i)
  BY DEF PoolOk, Holders
<1>3. u \in ReaderType /\ u[r].pc = "returned" /\ \A x \in Readers : x # r => u[x] = rd[x]
  BY <1>1 DEF ReaderType, ReadStates
<1> HIDE DEF u
<1>4. Busy(u) = Busy(rd)
  BY <1>3 DEF Busy
<1>5. Inners(u) \subseteq Inners(rd)
  BY <1>3 DEF Inners
<1>6. Holders(u, i) = Holders(rd, i) \ {r} /\ \A k : k # i => Holders(u, k) = Holders(rd, k)
  BY <1>3 DEF Holders
<1>7. \A k : Holders(u, k) \subseteq Readers \ {r} /\ Holders(rd, k) \subseteq Readers
  BY <1>3 DEF Holders
<1>8. \A x \in Holders(u, i) : rd[x].conn # c
  BY <1>3 DEF PoolOk, Holders
<1> HIDE DEF i, c
<1>9. {u[x].conn : x \in Holders(u, i)} = {rd[x].conn : x \in Holders(rd, i)} \ {c}
  <2>1. \A x \in Holders(u, i) : u[x].conn = rd[x].conn /\ x \in Holders(rd, i)
    BY <1>3, <1>6, <1>7
  <2>2. rd[r].conn = c
    BY DEF c
  <2> QED  BY <1>6, <1>8, <2>1, <2>2
<1>10. \A k : k # i => {u[x].conn : x \in Holders(u, k)} = {rd[x].conn : x \in Holders(rd, k)}
  BY <1>3, <1>6, <1>7
<1>11. pn = [k \in DOMAIN pn |-> Fresh(k) \ {u[x].conn : x \in Holders(u, k)}] /\ DOMAIN pn = DOMAIN pl
  <2>1. pl = [k \in DOMAIN pl |-> Fresh(k) \ {rd[x].conn : x \in Holders(rd, k)}]
    BY DEF PoolOk
  <2>2. DOMAIN pn = DOMAIN pl /\ pn = [k \in DOMAIN pl |-> pn[k]] /\ \A k \in DOMAIN pl : pn[k] = IF k = i THEN pl[i] \cup {c} ELSE pl[k]
    BY <1>1, <2>1
  <2> HIDE DEF pn
  <2>3. ASSUME NEW k \in DOMAIN pl PROVE pn[k] = Fresh(k) \ {u[x].conn : x \in Holders(u, k)}
    <3>1. pl[k] = Fresh(k) \ {rd[x].conn : x \in Holders(rd, k)}
      BY <2>1
    <3>2. CASE k = i
      BY <1>2, <1>9, <2>2, <3>1, <3>2
    <3>3. CASE k # i
      BY <1>10, <2>2, <3>1, <3>3
    <3> QED  BY <3>2, <3>3
  <2> QED  BY <2>2, <2>3
<1> HIDE DEF pn
<1>12. /\ \A x \in Readers : u[x].pc = "held" => u[x].conn \in Fresh(u[x].inner)
       /\ \A x, y \in Readers : x # y /\ u[x].pc = "held" /\ u[y].pc = "held" /\ u[x].inner = u[y].inner
                                  => u[x].conn # u[y].conn
  BY <1>3 DEF PoolOk
<1>13. PoolOk(u, pn, cur, pm)
  <2>1. pm \in Nat /\ pm + Cardinality(Busy(rd)) = PoolSize /\ cur \in DOMAIN pl /\ Inners(rd) \subseteq DOMAIN pl
    BY DEF PoolOk
  <2> QED  BY <1>3, <1>4, <1>5, <1>11, <1>12, <2>1 DEF PoolOk
<1> QED  BY <1>5, <1>13 DEF u, pn, i, c

\* The new inner is nobody's: all of its connections are in it.
LEMMA ReplaceStep ==
  ASSUME NEW rd, NEW pl, NEW cur, NEW pm, PoolOk(rd, pl, cur, pm), NEW new, new \notin Inners(rd)
  PROVE  PoolOk(rd, [i \in Inners(rd) \union {new} |-> IF i = new THEN Fresh(i) ELSE pl[i]], new, pm)
<1> DEFINE pn == [i \in Inners(rd) \union {new} |-> IF i = new THEN Fresh(i) ELSE pl[i]]
<1>1. Holders(rd, new) = {}
  BY DEF Holders, Inners
<1>2. DOMAIN pn = Inners(rd) \union {new} /\ Inners(rd) \subseteq DOMAIN pl
  BY DEF PoolOk
<1>3. ASSUME NEW i \in Inners(rd) \union {new} PROVE pn[i] = Fresh(i) \ {rd[x].conn : x \in Holders(rd, i)}
  <2>1. CASE i = new
    BY <1>1, <2>1
  <2>2. CASE i # new
    <3>1. pn[i] = pl[i] /\ i \in DOMAIN pl
      BY <1>2, <2>2
    <3> QED  BY <3>1 DEF PoolOk
  <2> QED  BY <2>1, <2>2
<1>4. pn = [i \in DOMAIN pn |-> Fresh(i) \ {rd[x].conn : x \in Holders(rd, i)}]
  BY <1>2, <1>3
<1> HIDE DEF pn
<1>5. PoolOk(rd, pn, new, pm)
  BY <1>2, <1>4 DEF PoolOk
<1> QED  BY <1>5 DEF pn
ConnInv ==
  /\ stops \in Nat /\ current \in Nat /\ reopening \in 0..5
  /\ writer \in [Range(Writers) -> Nat]
  /\ reader \in ReaderType
  /\ at # 0 => /\ PoolOk(reader, pool, current, permits)
               /\ reopening \in 2..5 => writer["spans"] \notin Inners(reader) \cup {current}

LEMMA WritersAre ==
  Range(Writers) = {"spans", "traces", "metrics", "exchanges"} /\ Writers[1] = "spans"
  /\ \A k \in 1..4 : Writers[k] \in Range(Writers) /\ (k # 1 => Writers[k] # "spans")
<1>1. DOMAIN Writers = 1..4 /\ Writers[1] = "spans" /\ Writers[2] = "traces" /\ Writers[3] = "metrics"
      /\ Writers[4] = "exchanges"
  BY DEF Writers
<1>2. 1..4 = {1, 2, 3, 4}
  OBVIOUS
<1>3. Range(Writers) = {Writers[k] : k \in {1, 2, 3, 4}}
  BY <1>1, <1>2 DEF Range
<1> QED  BY <1>1, <1>2, <1>3

LEMMA HeldIsInners == Held = Inners(reader)
  BY DEF Held, Inners

\* There is a number that no handle carries.
LEMMA NewIsNew ==
  ASSUME ConnInv
  PROVE  NewInstance \in Nat /\ NewInstance \notin InUse \cup Inners(reader)
<1> DEFINE taken == InUse \cup Held
           n == Cardinality(taken)
<1>1. IsFiniteSet(taken)
  <2>1. IsFiniteSet(Held)
    <3> DEFINE S == {x \in Readers : reader[x].pc \in {"snapshot", "held"}}
               f == [x \in S |-> reader[x].inner]
    <3>1. IsFiniteSet(S)
      BY DuckAssumption, FS_Subset
    <3>2. f \in Surjection(S, Held)
      BY DEF Surjection, Held
    <3> HIDE DEF S, f
    <3> QED  BY <3>1, <3>2, FS_Surjection
  <2>2. IsFiniteSet(InUse)
    <3> DEFINE f == [w \in Range(Writers) |-> writer[w]]
               T == {writer[w] : w \in Range(Writers)}
    <3>1. IsFiniteSet(Range(Writers))
      <4>1. Range(Writers) = (({"spans"} \cup {"traces"}) \cup {"metrics"}) \cup {"exchanges"}
        BY WritersAre
      <4>2. IsFiniteSet({"spans"} \cup {"traces"})
        BY FS_Singleton, FS_AddElement
      <4>3. IsFiniteSet(({"spans"} \cup {"traces"}) \cup {"metrics"})
        BY <4>2, FS_AddElement
      <4>4. IsFiniteSet((({"spans"} \cup {"traces"}) \cup {"metrics"}) \cup {"exchanges"})
        BY <4>3, FS_AddElement
      <4> QED  BY <4>1, <4>4
    <3>2. f \in Surjection(Range(Writers), T)
      BY DEF Surjection
    <3> HIDE DEF f, T
    <3>3. IsFiniteSet(T)
      BY <3>1, <3>2, FS_Surjection
    <3>4. IsFiniteSet(T \cup {current})
      BY <3>3, FS_AddElement
    <3> QED  BY <3>4 DEF InUse, T
  <2> QED  BY <2>1, <2>2, FS_Union
<1>2. n \in Nat
  BY <1>1, FS_CardinalityType
<1> HIDE DEF n, taken
<1>3. IsFiniteSet(1..(n + 1)) /\ Cardinality(1..(n + 1)) = n + 1
  BY <1>2, FS_Interval
<1>4. \E g \in 1..(n + 1) : g \notin taken
  <2> SUFFICES ASSUME 1..(n + 1) \in SUBSET taken PROVE FALSE
    OBVIOUS
  <2>1. Cardinality(1..(n + 1)) <= Cardinality(taken)
    BY <1>1, FS_Subset
  <2> QED  BY <1>2, <1>3, <2>1 DEF n
<1>5. NewInstance = CHOOSE g \in 1..(n + 1) : g \notin taken
  BY DEF NewInstance, n, taken
<1>6. NewInstance \in 1..(n + 1) /\ NewInstance \notin taken
  BY <1>4, <1>5
<1>7. NewInstance \in Nat
  BY <1>2, <1>6
<1> QED  BY <1>6, <1>7, HeldIsInners DEF taken

LEMMA ReadStepKeeps ==
  ASSUME ConnInv, at # 0, NEW r \in Readers, acquire_permit(r) \/ ReadStep(r)
  PROVE  ConnInv'
<1>1. PICK rd, pl, cur, pm : rd = reader /\ pl = pool /\ cur = current /\ pm = permits
  OBVIOUS
<1>2. PoolOk(rd, pl, cur, pm) /\ cur \in Nat
  BY <1>1 DEF ConnInv
<1>3. at' = at /\ stops' = stops /\ current' = current /\ reopening' = reopening /\ writer' = writer
  BY DEF acquire_permit, ReadStep, acquire_snapshot, acquire_pop, PooledConn_drop, drop_permit
<1>4. SUFFICES PoolOk(reader', pool', cur, permits') /\ Inners(reader') \subseteq Inners(rd) \cup {cur}
  <2>1. reader' \in ReaderType
    BY <1>4 DEF PoolOk
  <2> QED  BY <1>1, <1>3, <1>4, <2>1 DEF ConnInv
<1>5. CASE acquire_permit(r)
  <2>1. rd[r].pc = "idle" /\ pm > 0 /\ reader' = [rd EXCEPT ![r] = [Idle EXCEPT !.pc = "permit"]]
        /\ pool' = pl /\ permits' = pm - 1
    BY <1>1, <1>5 DEF acquire_permit
  <2>2. PoolOk(reader', pool', cur, permits')
    BY <1>2, <2>1, PermitStep
  <2>3. Inners(reader') \subseteq Inners(rd)
    BY <1>2, <2>1 DEF Inners, PoolOk, ReaderType, Idle
  <2> QED  BY <2>2, <2>3
<1>6. CASE acquire_snapshot(r)
  <2>1. rd[r].pc = "permit" /\ reader' = Snapped(rd, r, cur) /\ pool' = pl /\ permits' = pm
    BY <1>1, <1>6 DEF acquire_snapshot, Snapped
  <2>2. PoolOk(Snapped(rd, r, cur), pl, cur, pm) /\ Inners(Snapped(rd, r, cur)) = Inners(rd) \cup {cur}
    BY <1>2, <2>1, SnapshotStep
  <2> QED  BY <2>1, <2>2
<1>7. CASE acquire_pop(r)
  <2>1. rd[r].pc = "snapshot" /\ permits' = pm
    BY <1>1, <1>7 DEF acquire_pop
  <2>2. pl[rd[r].inner] # {}
    BY <1>2, <2>1, PopFinds
  <2>3. PICK c \in pl[rd[r].inner] : /\ pool' = [pl EXCEPT ![rd[r].inner] = @ \ {c}]
                                     /\ reader' = Popped(rd, r, c)
    BY <1>1, <1>7, <2>2 DEF acquire_pop, Popped
  <2> DEFINE u == Popped(rd, r, c)
             pn == [pl EXCEPT ![rd[r].inner] = @ \ {c}]
  <2>4. PoolOk(u, pn, cur, pm) /\ Inners(u) = Inners(rd)
    BY <1>2, <2>1, <2>3, PopStep
  <2>5. reader' = u /\ pool' = pn
    BY <2>3
  <2> HIDE DEF u, pn
  <2> QED  BY <2>1, <2>4, <2>5
<1>8. CASE PooledConn_drop(r)
  <2>1. /\ rd[r].pc = "held" /\ pool' = [pl EXCEPT ![rd[r].inner] = @ \union {rd[r].conn}]
        /\ reader' = [rd EXCEPT ![r].pc = "returned"] /\ permits' = pm
    BY <1>1, <1>8 DEF PooledConn_drop
  <2> DEFINE u == [rd EXCEPT ![r].pc = "returned"]
             pn == [pl EXCEPT ![rd[r].inner] = @ \union {rd[r].conn}]
  <2>2. PoolOk(u, pn, cur, pm) /\ Inners(u) \subseteq Inners(rd)
    BY <1>2, <2>1, DropStep
  <2>3. reader' = u /\ pool' = pn /\ permits' = pm
    BY <2>1
  <2> HIDE DEF u, pn
  <2> QED  BY <2>2, <2>3
<1>9. CASE drop_permit(r)
  <2>1. /\ rd[r].pc = "returned" /\ pool' = pl /\ reader' = [rd EXCEPT ![r] = Idle] /\ permits' = pm + 1
    <3>1. rd[r].pc # "error"
      BY <1>2 DEF PoolOk, ReaderType, ReadStates
    <3> QED  BY <1>1, <1>9, <3>1 DEF drop_permit
  <2>2. PoolOk(reader', pool', cur, permits')
    BY <1>2, <2>1, ReturnPermitStep
  <2>3. Inners(reader') \subseteq Inners(rd)
    BY <1>2, <2>1 DEF Inners, PoolOk, ReaderType, Idle
  <2> QED  BY <2>2, <2>3
<1> QED  BY <1>5, <1>6, <1>7, <1>8, <1>9 DEF ReadStep

LEMMA RecoveryKeeps ==
  ASSUME ConnInv, at # 0, Invalidate \/ WriterPanics \/ OpenFails \/ Recovery
  PROVE  ConnInv'
<1>1. CASE Invalidate \/ WriterPanics \/ OpenFails \/ SweepNotices
  <2>1. /\ at' = at /\ stops' = stops /\ current' = current /\ writer' = writer /\ reader' = reader
        /\ pool' = pool /\ permits' = permits /\ (reopening' = reopening \/ reopening' \in {0, 1})
    BY <1>1 DEF Invalidate, WriterPanics, OpenFails, SweepNotices
  <2> QED  BY <2>1 DEF ConnInv
<1>2. CASE SwapWriter
  <2> DEFINE w == Writers[reopening]
             new == IF reopening = 1 THEN NewInstance ELSE writer[Writers[1]]
  <2>1. /\ at' = at /\ stops' = stops /\ current' = current /\ reader' = reader
        /\ pool' = pool /\ permits' = permits /\ reopening \in 1..4
        /\ \/ reopening' = 0 /\ writer' = writer
           \/ writer' = [writer EXCEPT ![w] = new] /\ reopening' = reopening + 1
    BY <1>2 DEF SwapWriter
  <2>2. w \in Range(Writers) /\ (reopening = 1 => w = "spans") /\ (reopening # 1 => w # "spans")
    BY <2>1, WritersAre
  <2>3. CASE reopening' = 0 /\ writer' = writer
    BY <2>1, <2>3 DEF ConnInv
  <2>4. CASE writer' = [writer EXCEPT ![w] = new] /\ reopening' = reopening + 1
    <3>1. new \in Nat /\ (reopening = 1 => new \notin Inners(reader) \cup {current})
      BY <2>1, NewIsNew, WritersAre DEF ConnInv, InUse
    <3> HIDE DEF new, w
    <3>2. writer' \in [Range(Writers) -> Nat] /\ writer'["spans"] = IF reopening = 1 THEN new ELSE writer["spans"]
      BY <2>2, <2>4, <3>1, WritersAre DEF ConnInv
    <3>3. reopening' \in 0..5 /\ (reopening # 1 => reopening \in 2..5)
      BY <2>1, <2>4
    <3>4. writer'["spans"] \notin Inners(reader) \cup {current}
      BY <3>1, <3>2, <3>3 DEF ConnInv
    <3> QED  BY <2>1, <3>2, <3>3, <3>4 DEF ConnInv
  <2> QED  BY <2>1, <2>3, <2>4
<1>3. CASE replace_all
  <2>1. PICK new : new = writer["spans"]
    OBVIOUS
  <2>2. /\ at' = at /\ stops' = stops /\ current' = new /\ reader' = reader /\ writer' = writer
        /\ permits' = permits /\ reopening = 5 /\ reopening' = 0
        /\ pool' = [i \in Inners(reader) \union {new} |-> IF i = new THEN Fresh(i) ELSE pool[i]]
    BY <1>3, <2>1, WritersAre, HeldIsInners DEF replace_all
  <2>3. new \notin Inners(reader) /\ new \in Nat
    BY <2>1, <2>2, WritersAre DEF ConnInv
  <2>4. PoolOk(reader, pool', new, permits)
    <3>1. PICK rd, pl, pm : rd = reader /\ pl = pool /\ pm = permits
      OBVIOUS
    <3>2. PoolOk(rd, pl, current, pm) /\ new \notin Inners(rd)
      BY <2>3, <3>1 DEF ConnInv
    <3>3. PoolOk(rd, [i \in Inners(rd) \union {new} |-> IF i = new THEN Fresh(i) ELSE pl[i]], new, pm)
      BY <3>2, ReplaceStep
    <3> QED  BY <2>2, <3>1, <3>3
  <2> QED  BY <2>2, <2>3, <2>4 DEF ConnInv
<1> QED  BY <1>1, <1>2, <1>3 DEF Recovery

LEMMA OpenKeeps ==
  ASSUME ConnInv, open_with_pool
  PROVE  ConnInv'
<1>1. PICK new : new = stops * 10 + 1
  OBVIOUS
<1>2. /\ writer' = [w \in Range(Writers) |-> new] /\ pool' = [i \in {new} |-> Fresh(i)] /\ current' = new
      /\ permits' = PoolSize /\ reopening' = 0 /\ reader' = [r \in Readers |-> Idle] /\ stops' = stops
  BY <1>1 DEF open_with_pool
<1>3. new \in Nat
  BY <1>1 DEF ConnInv
<1>4. PICK rd, pl : rd = reader' /\ pl = pool'
  OBVIOUS
<1>5. rd \in ReaderType /\ \A r \in Readers : rd[r].pc = "idle"
  BY <1>2, <1>4 DEF ReaderType, ReadStates, Idle
<1>6. Busy(rd) = {} /\ Inners(rd) = {} /\ \A i : Holders(rd, i) = {}
  BY <1>5 DEF Busy, Inners, Holders
<1>7. PoolSize \in Nat /\ PoolSize + Cardinality(Busy(rd)) = PoolSize
  BY <1>6, FS_EmptySet, DuckAssumption
<1>8. pl = [i \in DOMAIN pl |-> Fresh(i) \ {rd[r].conn : r \in Holders(rd, i)}] /\ new \in DOMAIN pl
  BY <1>2, <1>4, <1>6
<1>9. PoolOk(rd, pl, new, PoolSize)
  BY <1>5, <1>6, <1>7, <1>8 DEF PoolOk
<1> QED  BY <1>2, <1>3, <1>4, <1>5, <1>9 DEF ConnInv

\* Permits, inners and connections add up through crashes, restarts and swaps.
THEOREM PoolInvariant == DuckSpec => []ConnInv
<1>1. DuckInit => ConnInv
  <2> SUFFICES ASSUME DuckInit PROVE ConnInv
    OBVIOUS
  <2>1. /\ stops = 0 /\ current = 0 /\ reopening = 0 /\ at = 0 /\ writer = [w \in Range(Writers) |-> 0]
        /\ reader = [r \in Readers |-> Idle]
    BY DEF DuckInit
  <2>2. reader \in ReaderType
    BY <2>1 DEF ReaderType, ReadStates, Idle
  <2> QED  BY <2>1, <2>2 DEF ConnInv
<1>2. ConnInv /\ [UpgradeNext \/ ConnectionNext]_duckVars => ConnInv'
  <2> SUFFICES ASSUME ConnInv, [UpgradeNext \/ ConnectionNext]_duckVars PROVE ConnInv'
    OBVIOUS
  <2>1. CASE open_with_pool
    BY <2>1, OpenKeeps
  <2>2. CASE InitStatement \/ StatementFails \/ Crash \/ UNCHANGED duckVars
    <3>1. /\ current' = current /\ reopening' = reopening /\ writer' = writer
          /\ reader' = reader /\ pool' = pool /\ permits' = permits
      BY <2>2 DEF InitStatement, StatementFails, Crash, duckVars, conns
    <3>2. (at' # 0 => at # 0) /\ stops' \in Nat
      <4>1. CASE InitStatement
        BY <4>1 DEF InitStatement, ConnInv
      <4>2. CASE StatementFails
        BY <4>2 DEF StatementFails, ConnInv
      <4>3. CASE Crash
        BY <4>3 DEF Crash, ConnInv
      <4>4. CASE UNCHANGED duckVars
        BY <4>4 DEF duckVars, ConnInv
      <4> QED  BY <2>2, <4>1, <4>2, <4>3, <4>4
    <3> QED  BY <3>1, <3>2 DEF ConnInv
  <2>3. CASE ConnectionNext
    <3>1. at = Serving /\ at # 0
      <4>1. at = Serving
        BY <2>3 DEF ConnectionNext, ReadStep, acquire_permit, acquire_snapshot, acquire_pop, PooledConn_drop,
                    drop_permit, Invalidate, WriterPanics, OpenFails, Recovery, SweepNotices, SwapWriter, replace_all
      <4>2. Len(Script) \in Nat
        <5>1. Len(ChScript) = 9
          BY DEF ChScript
        <5>2. Len(DuckScript) = 24
          BY DEF DuckScript
        <5> QED  BY <5>1, <5>2 DEF Script
      <4> QED  BY <4>1, <4>2 DEF Serving
    <3> QED  BY <2>3, <3>1, ReadStepKeeps, RecoveryKeeps DEF ConnectionNext
  <2> QED  BY <2>1, <2>2, <2>3 DEF UpgradeNext
<1> QED  BY <1>1, <1>2, PTL DEF DuckSpec

\* With any number of reads, connections, invalidations and restarts: a read
\* that has a permit finds a connection in the pool it looks into, and the pool
\* acquire() sees only holds connections of its own instance.
THEOREM PoolIsSafe == DuckSpec => []PoolSafe
<1>1. ConnInv => PoolSafe
  <2> SUFFICES ASSUME ConnInv PROVE PopSucceeds /\ NoStaleCirculates
    BY DEF PoolSafe
  <2>1. PopSucceeds
    BY DEF ConnInv, ReaderType, ReadStates, PopSucceeds
  <2>2. NoStaleCirculates
    <3> SUFFICES ASSUME at # 0, NEW c \in pool[current] PROVE c[1] = current
      BY DEF NoStaleCirculates
    <3>1. c \in Fresh(current) /\ current \in Nat
      BY DEF ConnInv, PoolOk
    <3> QED  BY <3>1, FreshIsPairs
  <2> QED  BY <2>1, <2>2
<1> QED  BY <1>1, PoolInvariant, PTL
-----------------------------------------------------------------------------
(* The upgrade of a file.  What holds of the tables depends on how far init *)
(* has come; a crash takes it back to the start and leaves the tables.      *)

FileTables == {"agent_turns", "llm_calls", "spans", "traces", "llm_metrics", "llm_finish_metrics", "http_exchanges"}
CallTables == {"llm_calls", "spans"}
TurnTables == {"agent_turns", "traces"}
TurnRows == [turn : Nat, status : {"complete", "incomplete", "length", "failed", "cancelled"}]
FinalStatus == {"complete", "incomplete"}

Prefix(s, k) == [i \in 1..k |-> s[i]]
OldTurnCols == <<"turn_id", "status", "call_ids", "metadata", "tool_surfaces_json", "suspicious_skills_json">>

FirstRollup  == <<"call_count", "finish_complete_count", "ttft_p99", "e2e_sum">>
SecondRollup == <<"call_count", "ttft_p99", "e2e_sum">>
ThirdRollup  == <<"call_count", "ttft_p99", "e2e_sum", "ttft_stream_sum", "tool_surface">>
MetricLayouts == {FirstRollup, SecondRollup, ThirdRollup, CREATE_LLM_METRICS}

Rebuilt == backfill_sql(History, "10s") \union backfill_sql(History, "1m")

Duck == dialect = "duckdb"

UpType ==
  /\ dialect \in {"duckdb", "clickhouse"} /\ at \in 0..Serving
  /\ misses \in BOOLEAN /\ cut \in BOOLEAN /\ filling \in BOOLEAN
  /\ ~Duck => ~misses /\ ~cut /\ ~filling
  /\ filling /\ at # 0 => at > 12

UpFile ==
  /\ db = [t \in DOMAIN db |-> db[t]] /\ DOMAIN db \subseteq FileTables
  /\ \A t \in DOMAIN db : db[t] = Table(db[t].cols, db[t].rows)

UpRows ==
  /\ \A t \in CallTables \intersect DOMAIN db : db[t].rows \in {{}, History}
  /\ \A t \in TurnTables \intersect DOMAIN db : db[t].rows \subseteq TurnRows

\* A table is there under one name, the new one once its rename has run.
UpNames ==
  ~misses =>
    /\ ~(CallTables \subseteq DOMAIN db) /\ ~(TurnTables \subseteq DOMAIN db)
    /\ at > 1 => "agent_turns" \notin DOMAIN db
    /\ at > 2 => "llm_calls" \notin DOMAIN db

\* The statements that created the tables; llm_metrics may be gone between the
\* drop and the second creation.
UpTables ==
  /\ Duck => /\ at > 4 => "spans" \in DOMAIN db
             /\ at > 5 /\ at # 11 => "llm_metrics" \in DOMAIN db
             /\ at > 6 => "llm_finish_metrics" \in DOMAIN db
             /\ at > 7 => "traces" \in DOMAIN db
             /\ at > 8 => "http_exchanges" \in DOMAIN db
  /\ ~Duck => /\ at > 5 => "spans" \in DOMAIN db
              /\ at > 6 => "llm_metrics" \in DOMAIN db
              /\ at > 7 => "llm_finish_metrics" \in DOMAIN db
              /\ at > 8 => "traces" \in DOMAIN db
              /\ at > 9 => "http_exchanges" \in DOMAIN db

\* How many of the columns of spans and traces are sure to be there.
SpanCols == IF at < 17 THEN 2 ELSE IF at < 21 THEN at - 14 ELSE IF at < 25 THEN 7 ELSE 8
TurnCols == IF at < 22 THEN 4 ELSE IF at < 23 THEN 5 ELSE 6

UpSpans ==
  /\ ~misses /\ "llm_calls" \in DOMAIN db => \E k \in 2..8 : db["llm_calls"].cols = Prefix(CREATE_LLM_CALLS, k)
  /\ Duck /\ ~misses /\ "spans" \in DOMAIN db => \E k \in SpanCols..8 : db["spans"].cols = Prefix(CREATE_LLM_CALLS, k)
  /\ ~Duck /\ "spans" \in DOMAIN db =>
       \/ "kind" \in Range(db["spans"].cols)
       \/ at <= 4 /\ \E k \in 2..8 : db["spans"].cols = Prefix(CREATE_LLM_CALLS, k)

UpTurns ==
  ~misses =>
    /\ "agent_turns" \in DOMAIN db => \E k \in 4..6 : db["agent_turns"].cols = Prefix(OldTurnCols, k)
    /\ "traces" \in DOMAIN db =>
         \E k \in 4..6 : /\ Duck => k >= TurnCols
                         /\ \/ db["traces"].cols = Prefix(CREATE_LLM_TURNS, k)
                            \/ at <= 3 /\ db["traces"].cols = Prefix(OldTurnCols, k)
    /\ Duck /\ at > 15 => \A r \in db["traces"].rows : r.status \in FinalStatus

UpMetrics ==
  /\ Duck /\ ~misses /\ "llm_metrics" \in DOMAIN db =>
       /\ db["llm_metrics"].cols \in MetricLayouts
       /\ at > 10 => db["llm_metrics"].cols = CREATE_LLM_METRICS
  /\ \A t \in {"llm_finish_metrics", "http_exchanges"} \intersect DOMAIN db : db[t].cols = Canonical[t]

\* The rollup is the live one, the rebuilt one, or empty; between the two
\* statements of a rebuild it is the first half of it.
Filled == IF at = 13 THEN {} ELSE IF at = 14 THEN backfill_sql(History, "10s") ELSE Rebuilt

UpRollup ==
  Duck /\ ~misses /\ ~cut /\ "llm_metrics" \in DOMAIN db =>
    /\ filling /\ at # 0 => History # {} /\ db["spans"].rows = History /\ db["llm_metrics"].rows = Filled
    /\ ~(filling /\ at = 14) => db["llm_metrics"].rows \in {{}, Rollup, Rebuilt}
    /\ db["llm_metrics"].rows # {} => StoredCalls = History
    /\ at > 12 /\ ~filling => db["llm_metrics"].rows # {} \/ db["spans"].rows = {}

\* A file that init leaves alone.
Migrated ==
  /\ DOMAIN Canonical \subseteq DOMAIN db
  /\ "span_ids" \in Range(db["traces"].cols) /\ "kind" \in Range(db["spans"].cols)
  /\ Duck => /\ \A t \in DOMAIN Canonical : db[t].cols = Canonical[t]
             /\ \A r \in db["traces"].rows : r.status \in FinalStatus
             /\ db["llm_metrics"].rows = {} => db["spans"].rows = {} \/ Rebuilt = {}

UpServed ==
  ~misses /\ ~cut => /\ at = Serving => db = served
                     /\ served # Null => db = served /\ Migrated /\ (filling /\ at \notin {0, Serving} => Rebuilt = {})

LEMMA ScriptLengths == Len(DuckScript) = 24 /\ Len(ChScript) = 9
  BY DEF DuckScript, ChScript

LEMMA ScriptStart ==
  /\ DuckScript[1] = Rename("agent_turns", "traces") /\ ChScript[1] = Rename("agent_turns", "traces")
  /\ DuckScript[2] = Rename("llm_calls", "spans") /\ ChScript[2] = Rename("llm_calls", "spans")
  /\ DuckScript[3] = RenameColumn /\ ChScript[3] = RenameColumn
  BY DEF DuckScript, ChScript

LEMMA DuckStatements ==
  /\ DuckScript[4] = Create("spans") /\ DuckScript[5] = Create("llm_metrics")
  /\ DuckScript[6] = Create("llm_finish_metrics") /\ DuckScript[7] = Create("traces")
  /\ DuckScript[8] = Create("http_exchanges") /\ DuckScript[11] = Create("llm_metrics")
  /\ DuckScript[9] = [op |-> "drop_column", table |-> "llm_metrics", col |-> "finish_complete_count"]
  /\ DuckScript[10] = [op |-> "drop_misordered"] /\ DuckScript[12] = [op |-> "check_rollup"]
  /\ DuckScript[13] = [op |-> "backfill", gran |-> "10s"] /\ DuckScript[14] = [op |-> "backfill", gran |-> "1m"]
  /\ DuckScript[15] = [op |-> "rewrite_status"]
  BY DEF DuckScript

LEMMA DuckAdds ==
  /\ DuckScript[16] = Add("spans", "is_agent_request") /\ DuckScript[17] = Add("spans", "tool_surface")
  /\ DuckScript[18] = Add("spans", "body_bytes_dropped") /\ DuckScript[19] = Add("spans", "process_pid")
  /\ DuckScript[20] = Add("spans", "process_exe") /\ DuckScript[24] = Add("spans", "kind")
  /\ DuckScript[21] = Add("traces", "tool_surfaces_json") /\ DuckScript[22] = Add("traces", "suspicious_skills_json")
  /\ DuckScript[23] = Add("llm_metrics", "tool_surface")
  BY DEF DuckScript

LEMMA ChStatements ==
  /\ ChScript[4] = [op |-> "add_if_table", table |-> "spans", col |-> "kind"]
  /\ ChScript[5] = Create("spans") /\ ChScript[6] = Create("llm_metrics")
  /\ ChScript[7] = Create("llm_finish_metrics") /\ ChScript[8] = Create("traces")
  /\ ChScript[9] = Create("http_exchanges")
  BY DEF ChScript

\* What each kind of statement makes of the file.
Renamed(a, b) ==
  IF a \in DOMAIN db /\ b \notin DOMAIN db
    THEN [t \in (DOMAIN db \ {a}) \union {b} |-> db[IF t = b THEN a ELSE t]] ELSE db
Created(n) ==
  IF n \in DOMAIN db THEN db
  ELSE [t \in DOMAIN db \union {n} |-> IF t = n THEN [cols |-> Canonical[t], rows |-> {}] ELSE db[t]]
SpanIds(cols) == [i \in DOMAIN cols |-> IF cols[i] = "call_ids" THEN "span_ids" ELSE cols[i]]
Resettled(rows) == {[r EXCEPT !.status = Rewritten(@)] : r \in rows}

LEMMA AfterRename == ASSUME NEW a, NEW b PROVE After(Rename(a, b)) = Renamed(a, b)
  BY DEF After, Rename, Renamed, table_exists

LEMMA AfterRenameColumn ==
  After(RenameColumn) = IF column_exists("traces", "call_ids") /\ ~column_exists("traces", "span_ids")
                          THEN SetCols("traces", SpanIds(db["traces"].cols)) ELSE db
  BY DEF After, RenameColumn, SpanIds

LEMMA AfterCreate == ASSUME NEW n PROVE After(Create(n)) = Created(n)
  BY DEF After, Create, Created, table_exists

LEMMA AfterAdd == ASSUME NEW t, NEW c PROVE After(Add(t, c)) = With(t, c)
  BY DEF After, Add

LEMMA AfterOthers ==
  /\ After([op |-> "drop_column", table |-> "llm_metrics", col |-> "finish_complete_count"])
       = Without("llm_metrics", "finish_complete_count")
  /\ After([op |-> "drop_misordered"])
       = IF needs_canonical_rebuild THEN [t \in DOMAIN db \ {"llm_metrics"} |-> db[t]] ELSE db
  /\ After([op |-> "check_rollup"]) = db
  /\ After([op |-> "rewrite_status"]) = SetRows("traces", Resettled(db["traces"].rows))
  /\ After([op |-> "add_if_table", table |-> "spans", col |-> "kind"])
       = IF "spans" \in DOMAIN db THEN With("spans", "kind") ELSE db
  BY DEF After, Resettled, table_exists

LEMMA AfterBackfill ==
  ASSUME NEW g
  PROVE  After([op |-> "backfill", gran |-> g])
           = IF filling THEN SetRows("llm_metrics", db["llm_metrics"].rows \union backfill_sql(db["spans"].rows, g)) ELSE db
  BY DEF After

\* A step of init: which statement, and what it leaves alone.
LEMMA InitFrame ==
  ASSUME UpType, InitStatement
  PROVE  /\ dialect' = dialect /\ misses' = misses /\ cut' = cut /\ at' = at + 1 /\ UpType'
         /\ served' = IF at' = Serving /\ served = Null THEN db' ELSE served
         /\ Duck => at \in 1..24 /\ Serving = 25 /\ Serving' = 25 /\ db' = After(DuckScript[at])
         /\ ~Duck => at \in 1..9 /\ Serving = 10 /\ Serving' = 10 /\ db' = After(ChScript[at])
         /\ filling' = IF Duck /\ at = 12 THEN rollup_empty_but_calls_present ELSE filling
<1>1. /\ dialect' = dialect /\ misses' = misses /\ cut' = cut /\ at' = at + 1
      /\ served' = IF at' = Serving /\ served = Null THEN db' ELSE served
  BY DEF InitStatement
<1>2. CASE Duck
  <2>1. /\ Script = DuckScript /\ Script' = DuckScript
    BY <1>1, <1>2 DEF Script, Duck
  <2>2. at \in 1..24 /\ Serving = 25 /\ Serving' = 25
    BY <2>1, ScriptLengths DEF Serving, InitStatement
  <2>3. DuckScript[at].op = "check_rollup" <=> at = 12
    <3>1. CASE at \in 1..3
      <4>1. at = 1 \/ at = 2 \/ at = 3
        BY <3>1
      <4> QED  BY <4>1, ScriptStart DEF Rename, RenameColumn
    <3>2. CASE at \in 4..15
      <4>1. at = 4 \/ at = 5 \/ at = 6 \/ at = 7 \/ at = 8 \/ at = 9 \/ at = 10 \/ at = 11 \/ at = 12 \/ at = 13
            \/ at = 14 \/ at = 15
        BY <3>2
      <4> QED  BY <4>1, DuckStatements DEF Create
    <3>3. CASE at \in 16..24
      <4>1. at = 16 \/ at = 17 \/ at = 18 \/ at = 19 \/ at = 20 \/ at = 21 \/ at = 22 \/ at = 23 \/ at = 24
        BY <3>3
      <4> QED  BY <4>1, DuckAdds DEF Add
    <3>4. at \in 1..3 \/ at \in 4..15 \/ at \in 16..24
      BY <2>2
    <3> QED  BY <3>1, <3>2, <3>3, <3>4
  <2>4. filling' = IF at = 12 THEN rollup_empty_but_calls_present ELSE filling
    BY <2>1, <2>3 DEF InitStatement
  <2>5. db' = After(DuckScript[at])
    BY <2>1 DEF InitStatement
  <2>6. filling' \in BOOLEAN
    BY <2>4 DEF UpType, rollup_empty_but_calls_present
  <2>7. filling' => at' > 12
    <3>1. CASE at = 12
      BY <1>1, <3>1
    <3>2. CASE at # 12
      <4> SUFFICES ASSUME filling' PROVE at' > 12
        OBVIOUS
      <4>1. filling' = filling
        BY <2>4, <3>2
      <4>2. filling /\ at # 0
        BY <2>2, <4>1
      <4>3. at > 12
        BY <4>2 DEF UpType
      <4> QED  BY <1>1, <2>2, <4>3
    <3> QED  BY <3>1, <3>2
  <2>8. at' \in 0..Serving'
    BY <1>1, <2>2
  <2>9. UpType'
    BY <1>1, <1>2, <2>6, <2>7, <2>8 DEF UpType, Duck
  <2> QED  BY <1>1, <1>2, <2>2, <2>4, <2>5, <2>9
<1>3. CASE ~Duck
  <2>1. /\ Script = ChScript /\ Script' = ChScript
    BY <1>1, <1>3 DEF Script, Duck
  <2>2. at \in 1..9 /\ Serving = 10 /\ Serving' = 10
    BY <2>1, ScriptLengths DEF Serving, InitStatement
  <2>3. ChScript[at].op # "check_rollup"
    <3>1. at = 1 \/ at = 2 \/ at = 3 \/ at = 4 \/ at = 5 \/ at = 6 \/ at = 7 \/ at = 8 \/ at = 9
      BY <2>2
    <3> QED  BY <3>1, ScriptStart, ChStatements DEF Rename, RenameColumn, Create
  <2>4. filling' = filling
    BY <2>1, <2>3 DEF InitStatement
  <2>5. db' = After(ChScript[at])
    BY <2>1 DEF InitStatement
  <2>8. at' \in 0..Serving'
    BY <1>1, <2>2
  <2>9. UpType'
    BY <1>1, <1>3, <2>4, <2>8 DEF UpType, Duck
  <2> QED  BY <1>1, <1>3, <2>2, <2>4, <2>5, <2>9
<1> QED  BY <1>2, <1>3

\* The changes a statement can make to the set of tables and to one of them.
Moves(a, b) ==
  /\ a \in DOMAIN db /\ b \notin DOMAIN db
  /\ DOMAIN db' = (DOMAIN db \ {a}) \union {b} /\ db'[b] = db[a]
  /\ \A u \in DOMAIN db \ {a} : db'[u] = db[u]
Makes(n) ==
  /\ DOMAIN db' = DOMAIN db \union {n} /\ \A u \in DOMAIN db : db'[u] = db[u]
  /\ n \notin DOMAIN db => db'[n].cols = Canonical[n] /\ db'[n].rows = {}
Drops(n) == DOMAIN db' = DOMAIN db \ {n} /\ \A u \in DOMAIN db \ {n} : db'[u] = db[u]
Recolumns(n, cols) ==
  /\ DOMAIN db' = DOMAIN db /\ \A u \in DOMAIN db \ {n} : db'[u] = db[u]
  /\ n \in DOMAIN db => db'[n].cols = cols /\ db'[n].rows = db[n].rows
Refills(n, rows) ==
  /\ DOMAIN db' = DOMAIN db /\ \A u \in DOMAIN db \ {n} : db'[u] = db[u]
  /\ n \in DOMAIN db => db'[n].cols = db[n].cols /\ db'[n].rows = rows

LEMMA RenamedMoves ==
  ASSUME UpFile, NEW a \in FileTables, NEW b \in FileTables, a # b, db' = Renamed(a, b)
  PROVE  UpFile' /\ (Moves(a, b) \/ (db' = db /\ (a \notin DOMAIN db \/ b \in DOMAIN db)))
<1>1. CASE a \in DOMAIN db /\ b \notin DOMAIN db
  <2>1. db' = [t \in (DOMAIN db \ {a}) \union {b} |-> db[IF t = b THEN a ELSE t]]
    BY <1>1 DEF Renamed
  <2>2. Moves(a, b)
    BY <1>1, <2>1 DEF Moves
  <2>3. \A t \in DOMAIN db' : db'[t] = Table(db'[t].cols, db'[t].rows)
    BY <1>1, <2>2 DEF Moves, UpFile, Table
  <2>4. db' = [t \in DOMAIN db' |-> db'[t]]
    BY <2>1
  <2>5. DOMAIN db' \subseteq FileTables
    BY <2>2 DEF Moves, UpFile
  <2> QED  BY <2>2, <2>3, <2>4, <2>5 DEF UpFile
<1>2. CASE ~(a \in DOMAIN db /\ b \notin DOMAIN db)
  BY <1>2 DEF Renamed, UpFile
<1> QED  BY <1>1, <1>2

LEMMA CreatedMakes ==
  ASSUME UpFile, NEW n \in FileTables, db' = Created(n)
  PROVE  UpFile' /\ Makes(n) /\ (n \in DOMAIN db => db' = db)
<1>1. CASE n \notin DOMAIN db
  <2>1. db' = [t \in DOMAIN db \union {n} |-> IF t = n THEN [cols |-> Canonical[t], rows |-> {}] ELSE db[t]]
    BY <1>1 DEF Created
  <2>2. Makes(n)
    BY <1>1, <2>1 DEF Makes
  <2>3. \A t \in DOMAIN db' : db'[t] = Table(db'[t].cols, db'[t].rows)
    BY <1>1, <2>1 DEF UpFile, Table
  <2>4. db' = [t \in DOMAIN db' |-> db'[t]]
    BY <2>1
  <2> QED  BY <1>1, <2>2, <2>3, <2>4 DEF UpFile, Makes
<1>2. CASE n \in DOMAIN db
  <2>1. db' = db
    BY <1>2 DEF Created
  <2> QED  BY <1>2, <2>1 DEF Makes, UpFile
<1> QED  BY <1>1, <1>2

LEMMA SetColsRecolumns ==
  ASSUME UpFile, NEW n, NEW cs, db' = SetCols(n, cs)
  PROVE  UpFile' /\ Recolumns(n, cs)
<1>1. db' = [t \in DOMAIN db |-> IF t = n THEN [cols |-> cs, rows |-> db[n].rows] ELSE db[t]]
  BY DEF SetCols
<1>2. Recolumns(n, cs)
  BY <1>1 DEF Recolumns
<1>3. \A t \in DOMAIN db' : db'[t] = Table(db'[t].cols, db'[t].rows)
  BY <1>1 DEF UpFile, Table
<1>4. db' = [t \in DOMAIN db' |-> db'[t]]
  BY <1>1
<1> QED  BY <1>2, <1>3, <1>4 DEF UpFile, Recolumns

LEMMA SetRowsRefills ==
  ASSUME UpFile, NEW n, NEW rs, db' = SetRows(n, rs)
  PROVE  UpFile' /\ Refills(n, rs)
<1>1. db' = [t \in DOMAIN db |-> IF t = n THEN [cols |-> db[n].cols, rows |-> rs] ELSE db[t]]
  BY DEF SetRows
<1>2. Refills(n, rs)
  BY <1>1 DEF Refills
<1>3. \A t \in DOMAIN db' : db'[t] = Table(db'[t].cols, db'[t].rows)
  BY <1>1 DEF UpFile, Table
<1>4. db' = [t \in DOMAIN db' |-> db'[t]]
  BY <1>1
<1> QED  BY <1>2, <1>3, <1>4 DEF UpFile, Refills

\* The rebuild of the rollup drops its table.
LEMMA DropDrops ==
  ASSUME UpFile, NEW n, db' = [t \in DOMAIN db \ {n} |-> db[t]]
  PROVE  UpFile' /\ Drops(n)
<1>1. Drops(n)
  BY DEF Drops
<1>2. \A t \in DOMAIN db' : db'[t] = Table(db'[t].cols, db'[t].rows)
  BY DEF UpFile, Table
<1>3. db' = [t \in DOMAIN db' |-> db'[t]]
  OBVIOUS
<1> QED  BY <1>1, <1>2, <1>3 DEF UpFile, Drops

\* No statement changes which calls and which turns the file holds.
KeepsHistory == StoredCalls' = StoredCalls /\ StoredTurns' = StoredTurns /\ UpRows'

TurnsIn == UNION {db[t].rows : t \in TurnTables \intersect DOMAIN db}

LEMMA SameRowsKeepHistory ==
  ASSUME UpRows,
         \A u \in CallTables \union TurnTables : u \in DOMAIN db' <=> u \in DOMAIN db,
         \A u \in (CallTables \union TurnTables) \intersect DOMAIN db : db'[u].rows = db[u].rows
  PROVE  KeepsHistory
<1>1. StoredCalls' = StoredCalls
  BY DEF StoredCalls, CallTables
<1>2. StoredTurns' = StoredTurns
  BY DEF StoredTurns, TurnTables
<1>3. UpRows'
  BY DEF UpRows
<1> QED  BY <1>1, <1>2, <1>3 DEF KeepsHistory

LEMMA MovesKeepsHistory ==
  ASSUME UpRows, NEW a, NEW b, Moves(a, b),
         (a = "agent_turns" /\ b = "traces") \/ (a = "llm_calls" /\ b = "spans")
  PROVE  KeepsHistory
<1>1. CASE a = "agent_turns" /\ b = "traces"
  <2>1. StoredCalls' = StoredCalls
    BY <1>1 DEF Moves, StoredCalls
  <2>2. UNION {db'[t].rows : t \in {"agent_turns", "traces"} \intersect DOMAIN db'}
          = UNION {db[t].rows : t \in {"agent_turns", "traces"} \intersect DOMAIN db}
    <3>1. {"agent_turns", "traces"} \intersect DOMAIN db = {a} /\ {"agent_turns", "traces"} \intersect DOMAIN db' = {b}
      BY <1>1 DEF Moves
    <3>2. db'[b] = db[a]
      BY DEF Moves
    <3> QED  BY <3>1, <3>2
  <2>3. StoredTurns' = StoredTurns
    BY <2>2 DEF StoredTurns
  <2>4. UpRows'
    BY <1>1 DEF Moves, UpRows, CallTables, TurnTables
  <2> QED  BY <2>1, <2>3, <2>4 DEF KeepsHistory
<1>2. CASE a = "llm_calls" /\ b = "spans"
  <2>1. StoredTurns' = StoredTurns
    BY <1>2 DEF Moves, StoredTurns
  <2>2. StoredCalls' = StoredCalls
    <3>1. {"llm_calls", "spans"} \intersect DOMAIN db = {a} /\ {"llm_calls", "spans"} \intersect DOMAIN db' = {b}
      BY <1>2 DEF Moves
    <3>2. db'[b] = db[a]
      BY DEF Moves
    <3> QED  BY <3>1, <3>2 DEF StoredCalls
  <2>3. UpRows'
    BY <1>2 DEF Moves, UpRows, CallTables, TurnTables
  <2> QED  BY <2>1, <2>2, <2>3 DEF KeepsHistory
<1> QED  BY <1>1, <1>2

LEMMA MakesKeepsHistory ==
  ASSUME UpRows, NEW n, Makes(n)
  PROVE  KeepsHistory
<1>1. StoredCalls' = StoredCalls
  <2>1. \A x : x \in StoredCalls' => x \in StoredCalls
    BY DEF StoredCalls, Makes
  <2>2. \A x : x \in StoredCalls => x \in StoredCalls'
    BY DEF StoredCalls, Makes
  <2> QED  BY <2>1, <2>2
<1>2. TurnsIn' = TurnsIn
  <2>1. \A x : x \in TurnsIn' => x \in TurnsIn
    BY DEF TurnsIn, Makes
  <2>2. \A x : x \in TurnsIn => x \in TurnsIn'
    BY DEF TurnsIn, Makes
  <2> QED  BY <2>1, <2>2
<1>3. StoredTurns' = StoredTurns
  BY <1>2 DEF StoredTurns, TurnsIn, TurnTables
<1>4. UpRows'
  BY DEF UpRows, Makes
<1> QED  BY <1>1, <1>3, <1>4 DEF KeepsHistory

LEMMA DropsKeepsHistory ==
  ASSUME UpRows, Drops("llm_metrics")
  PROVE  KeepsHistory
  BY SameRowsKeepHistory DEF Drops, CallTables, TurnTables

LEMMA RecolumnsKeepsHistory ==
  ASSUME UpRows, NEW n, NEW cs, Recolumns(n, cs)
  PROVE  KeepsHistory
  BY SameRowsKeepHistory DEF Recolumns

LEMMA RefillsKeepsHistory ==
  ASSUME UpRows, NEW rs, Refills("llm_metrics", rs)
  PROVE  KeepsHistory
  BY SameRowsKeepHistory DEF Refills, CallTables, TurnTables

\* A turn keeps its id when its status is rewritten, and settles.
LEMMA ResettledRows ==
  ASSUME NEW rows \in SUBSET TurnRows
  PROVE  /\ Resettled(rows) \in SUBSET TurnRows
         /\ \A r \in Resettled(rows) : r.status \in FinalStatus /\ \E q \in rows : q.turn = r.turn
         /\ \A q \in rows : \E r \in Resettled(rows) : q.turn = r.turn
         /\ (\A r \in rows : r.status \in FinalStatus) => Resettled(rows) = rows
<1> DEFINE New(q) == [q EXCEPT !.status = Rewritten(@)]
<1>1. \A q \in TurnRows : /\ New(q) \in TurnRows /\ New(q).turn = q.turn /\ New(q).status \in FinalStatus
                          /\ q.status \in FinalStatus => New(q) = q
  <2> SUFFICES ASSUME NEW q \in TurnRows
               PROVE  /\ New(q) \in TurnRows /\ New(q).turn = q.turn /\ New(q).status \in FinalStatus
                      /\ q.status \in FinalStatus => New(q) = q
    OBVIOUS
  <2>1. Rewritten(q.status) \in FinalStatus /\ (q.status \in FinalStatus => Rewritten(q.status) = q.status)
    BY DEF Rewritten, TurnRows, FinalStatus
  <2>2. New(q) = [turn |-> q.turn, status |-> Rewritten(q.status)]
    BY DEF TurnRows
  <2>3. q = [turn |-> q.turn, status |-> q.status] /\ q.turn \in Nat
    BY DEF TurnRows
  <2> QED  BY <2>1, <2>2, <2>3 DEF TurnRows, FinalStatus
<1>2. Resettled(rows) = {New(q) : q \in rows}
  BY DEF Resettled
<1> HIDE DEF New
<1>3. \A q \in rows : q \in TurnRows
  OBVIOUS
<1>4. Resettled(rows) \in SUBSET TurnRows
  BY <1>1, <1>2, <1>3
<1>5. \A r \in Resettled(rows) : r.status \in FinalStatus /\ \E q \in rows : q.turn = r.turn
  BY <1>1, <1>2, <1>3
<1>6. \A q \in rows : \E r \in Resettled(rows) : q.turn = r.turn
  BY <1>1, <1>2, <1>3
<1>7. ASSUME \A r \in rows : r.status \in FinalStatus PROVE Resettled(rows) = rows
  <2>1. \A q \in rows : New(q) = q
    BY <1>1, <1>3, <1>7
  <2> QED  BY <1>2, <2>1
<1> QED  BY <1>4, <1>5, <1>6, <1>7

LEMMA RewriteKeepsHistory ==
  ASSUME UpRows, "traces" \in DOMAIN db, Refills("traces", Resettled(db["traces"].rows))
  PROVE  KeepsHistory /\ \A r \in db'["traces"].rows : r.status \in FinalStatus
<1> PICK rows : rows = db["traces"].rows
  OBVIOUS
<1>1. rows \in SUBSET TurnRows
  BY DEF UpRows, TurnTables
<1>2. db'["traces"].rows = Resettled(rows) /\ DOMAIN db' = DOMAIN db
  BY DEF Refills
<1>3. StoredCalls' = StoredCalls
  BY DEF StoredCalls, Refills
<1>4. UpRows'
  BY <1>1, <1>2, ResettledRows DEF UpRows, CallTables, TurnTables, Refills
<1>5. StoredTurns' = StoredTurns
  <2>1. \A t \in {"agent_turns"} \intersect DOMAIN db : db'[t].rows = db[t].rows
    BY DEF Refills
  <2>2. /\ \A q \in rows : \E r \in db'["traces"].rows : q.turn = r.turn
        /\ \A r \in db'["traces"].rows : \E q \in rows : q.turn = r.turn
    BY <1>1, <1>2, ResettledRows
  <2>3. \A x : x \in StoredTurns' => x \in StoredTurns
    BY <1>2, <2>1, <2>2 DEF StoredTurns
  <2>4. \A x : x \in StoredTurns => x \in StoredTurns'
    BY <1>2, <2>1, <2>2 DEF StoredTurns
  <2> QED  BY <2>3, <2>4
<1>6. \A r \in db'["traces"].rows : r.status \in FinalStatus
  BY <1>1, <1>2, ResettledRows
<1> QED  BY <1>3, <1>4, <1>5, <1>6 DEF KeepsHistory

\* All but what was first served: the part of the invariant that does not
\* look back.
UpBase ==
  UpType /\ UpFile /\ UpRows /\ UpNames /\ UpTables /\ UpSpans /\ UpTurns /\ UpMetrics /\ UpRollup

\* A statement leaves a migrated file as it is.
Stable == Migrated /\ (filling => Rebuilt = {}) /\ ~misses /\ ~cut => db' = db

Advances == dialect' = dialect /\ misses' = misses /\ cut' = cut /\ at' = at + 1

\* The rollup through the statements before the check for an empty one.
LEMMA EarlyRollup ==
  ASSUME UpType, UpType', UpRollup, KeepsHistory, Advances, filling' = filling, at \in 1..11,
         "llm_metrics" \in DOMAIN db' =>
           db'["llm_metrics"].rows = {} \/
           ("llm_metrics" \in DOMAIN db /\ db'["llm_metrics"].rows = db["llm_metrics"].rows)
  PROVE  UpRollup'
<1>1. ~filling /\ ~filling'
  BY DEF UpType
<1>2. at' \in 2..12
  BY DEF Advances
<1> SUFFICES ASSUME (Duck /\ ~misses /\ ~cut /\ "llm_metrics" \in DOMAIN db)'
             PROVE  /\ (db["llm_metrics"].rows \in {{}, Rollup, Rebuilt})'
                    /\ (db["llm_metrics"].rows # {} => StoredCalls = History)'
  BY <1>1, <1>2 DEF UpRollup
<1>3. Duck /\ ~misses /\ ~cut
  BY DEF Advances, Duck
<1>4. CASE db'["llm_metrics"].rows = {}
  BY <1>4
<1>5. CASE "llm_metrics" \in DOMAIN db /\ db'["llm_metrics"].rows = db["llm_metrics"].rows
  BY <1>1, <1>3, <1>5 DEF UpRollup, KeepsHistory, Rollup, Rebuilt
<1> QED  BY <1>4, <1>5

LEMMA RenamesKeep ==
  ASSUME UpBase, InitStatement, at \in {1, 2}
  PROVE  UpBase' /\ KeepsHistory /\ Stable
<1>0. UpType /\ UpFile /\ UpRows /\ UpNames /\ UpTables /\ UpSpans /\ UpTurns /\ UpMetrics /\ UpRollup
  BY DEF UpBase
<1>1. Advances /\ UpType' /\ filling' = filling
  BY <1>0, InitFrame DEF Advances
<1>2. PICK a, b : /\ (at = 1 /\ a = "agent_turns" /\ b = "traces") \/ (at = 2 /\ a = "llm_calls" /\ b = "spans")
                  /\ db' = Renamed(a, b)
  <2>1. CASE at = 1
    <3>1. db' = After(Rename("agent_turns", "traces"))
      BY <1>0, <2>1, InitFrame, ScriptStart
    <3> QED  BY <2>1, <3>1, AfterRename
  <2>2. CASE at = 2
    <3>1. db' = After(Rename("llm_calls", "spans"))
      BY <1>0, <2>2, InitFrame, ScriptStart
    <3> QED  BY <2>2, <3>1, AfterRename
  <2> QED  BY <2>1, <2>2
<1>3. /\ a \in FileTables /\ b \in FileTables /\ a # b /\ b \in DOMAIN Canonical
      /\ b # "llm_metrics" /\ a # "llm_metrics" /\ a \notin {"llm_finish_metrics", "http_exchanges"}
      /\ b \notin {"llm_finish_metrics", "http_exchanges"}
  BY <1>2 DEF FileTables, Canonical
<1>4. UpFile' /\ (Moves(a, b) \/ (db' = db /\ (a \notin DOMAIN db \/ b \in DOMAIN db)))
  BY <1>0, <1>2, <1>3, RenamedMoves
<1>5. KeepsHistory
  <2>1. CASE Moves(a, b)
    BY <1>0, <1>2, <2>1, MovesKeepsHistory
  <2>2. CASE db' = db
    BY <1>0, <2>2, SameRowsKeepHistory
  <2> QED  BY <1>4, <2>1, <2>2
<1>6. Stable
  BY <1>3, <1>4 DEF Stable, Migrated, Moves
<1>7. UpNames'
  <2> SUFFICES ASSUME ~misses' PROVE UpNames'
    BY DEF UpNames
  <2>1. CASE Moves(a, b)
    BY <1>0, <1>1, <1>2, <2>1 DEF UpNames, Moves, Advances, CallTables, TurnTables
  <2>2. CASE db' = db /\ (a \notin DOMAIN db \/ b \in DOMAIN db)
    BY <1>0, <1>1, <1>2, <2>2 DEF UpNames, Advances, CallTables, TurnTables
  <2> QED  BY <1>4, <2>1, <2>2
<1>8. UpTables'
  BY <1>1 DEF Advances, UpTables
<1>9. UpSpans'
  <2>1. SpanCols = 2 /\ SpanCols' = 2 /\ at' \in 2..3
    BY <1>1 DEF SpanCols, Advances
  <2>2. (Duck' <=> Duck) /\ misses' = misses
    BY <1>1 DEF Duck, Advances
  <2> DEFINE Known(cols) == \E k \in 2..8 : cols = Prefix(CREATE_LLM_CALLS, k)
  <2>3. /\ ~misses /\ "llm_calls" \in DOMAIN db => Known(db["llm_calls"].cols)
        /\ Duck /\ ~misses /\ "spans" \in DOMAIN db => Known(db["spans"].cols)
        /\ ~Duck /\ "spans" \in DOMAIN db => "kind" \in Range(db["spans"].cols) \/ Known(db["spans"].cols)
        /\ ~Duck => ~misses
    BY <1>0, <2>1 DEF UpSpans, UpType
  <2> HIDE DEF Known
  <2>4. /\ ~misses /\ "llm_calls" \in DOMAIN db' => Known(db'["llm_calls"].cols)
        /\ Duck /\ ~misses /\ "spans" \in DOMAIN db' => Known(db'["spans"].cols)
        /\ ~Duck /\ "spans" \in DOMAIN db' => "kind" \in Range(db'["spans"].cols) \/ Known(db'["spans"].cols)
    BY <1>2, <1>4, <2>3 DEF Moves
  <2>5. at' <= 4
    BY <2>1
  <2> QED  BY ONLY <2>1, <2>2, <2>4, <2>5 DEF UpSpans, Known
<1>10. UpTurns'
  <2>1. TurnCols = 4 /\ TurnCols' = 4 /\ at \in 1..2 /\ at' \in 2..3
    BY <1>1 DEF TurnCols, Advances
  <2> SUFFICES ASSUME ~misses'
               PROVE  /\ "agent_turns" \in DOMAIN db' => \E k \in 4..6 : db'["agent_turns"].cols = Prefix(OldTurnCols, k)
                      /\ "traces" \in DOMAIN db' =>
                           \E k \in 4..6 : \/ db'["traces"].cols = Prefix(CREATE_LLM_TURNS, k)
                                           \/ db'["traces"].cols = Prefix(OldTurnCols, k)
    BY <2>1 DEF UpTurns
  <2>2. ~misses
    BY <1>1 DEF Advances
  <2>3. /\ "agent_turns" \in DOMAIN db => \E k \in 4..6 : db["agent_turns"].cols = Prefix(OldTurnCols, k)
        /\ "traces" \in DOMAIN db =>
             \E k \in 4..6 : \/ db["traces"].cols = Prefix(CREATE_LLM_TURNS, k)
                             \/ db["traces"].cols = Prefix(OldTurnCols, k)
    BY <1>0, <2>1, <2>2 DEF UpTurns
  <2> HIDE DEF Prefix
  <2> QED  BY <1>2, <1>4, <2>3 DEF Moves
<1>11. "llm_metrics" \in DOMAIN db' <=> "llm_metrics" \in DOMAIN db
  BY <1>3, <1>4 DEF Moves
<1>12. \A t \in {"llm_metrics", "llm_finish_metrics", "http_exchanges"} \intersect DOMAIN db' :
         t \in DOMAIN db /\ db'[t] = db[t]
  BY <1>3, <1>4 DEF Moves
<1>13. UpMetrics'
  BY <1>0, <1>1, <1>12 DEF UpMetrics, Advances, Duck
<1>14. UpRollup'
  <2>1. at \in 1..11
    OBVIOUS
  <2>2. "llm_metrics" \in DOMAIN db' => "llm_metrics" \in DOMAIN db /\ db'["llm_metrics"].rows = db["llm_metrics"].rows
    BY <1>12
  <2> QED  BY <1>0, <1>1, <1>5, <2>1, <2>2, EarlyRollup
<1>15. UpRows'
  BY <1>5 DEF KeepsHistory
<1> QED  BY <1>1, <1>4, <1>5, <1>6, <1>7, <1>8, <1>9, <1>10, <1>13, <1>14, <1>15 DEF UpBase

LEMMA TurnColumns ==
  ASSUME NEW k \in 4..6
  PROVE  /\ "call_ids" \in Range(Prefix(OldTurnCols, k)) /\ "span_ids" \notin Range(Prefix(OldTurnCols, k))
         /\ SpanIds(Prefix(OldTurnCols, k)) = Prefix(CREATE_LLM_TURNS, k)
         /\ "span_ids" \in Range(Prefix(CREATE_LLM_TURNS, k)) /\ "call_ids" \notin Range(Prefix(CREATE_LLM_TURNS, k))
<1>1. \A i \in 1..6 : i = 1 \/ i = 2 \/ i = 3 \/ i = 4 \/ i = 5 \/ i = 6
  OBVIOUS
<1>2. /\ OldTurnCols[3] = "call_ids" /\ \A i \in 1..6 : OldTurnCols[i] # "span_ids" /\ (i # 3 => OldTurnCols[i] # "call_ids")
      /\ CREATE_LLM_TURNS[3] = "span_ids" /\ \A i \in 1..6 : CREATE_LLM_TURNS[i] # "call_ids"
      /\ \A i \in 1..6 : i # 3 => CREATE_LLM_TURNS[i] = OldTurnCols[i]
  BY <1>1 DEF OldTurnCols, CREATE_LLM_TURNS
<1>3. /\ DOMAIN Prefix(OldTurnCols, k) = 1..k /\ \A i \in 1..k : Prefix(OldTurnCols, k)[i] = OldTurnCols[i]
      /\ DOMAIN Prefix(CREATE_LLM_TURNS, k) = 1..k
      /\ \A i \in 1..k : Prefix(CREATE_LLM_TURNS, k)[i] = CREATE_LLM_TURNS[i]
  BY DEF Prefix
<1>4. 3 \in 1..k /\ 1..k \subseteq 1..6
  OBVIOUS
<1>5. "call_ids" \in Range(Prefix(OldTurnCols, k)) /\ "span_ids" \notin Range(Prefix(OldTurnCols, k))
  BY <1>2, <1>3, <1>4 DEF Range
<1>6. "span_ids" \in Range(Prefix(CREATE_LLM_TURNS, k)) /\ "call_ids" \notin Range(Prefix(CREATE_LLM_TURNS, k))
  BY <1>2, <1>3, <1>4 DEF Range
<1>7. SpanIds(Prefix(OldTurnCols, k)) = [i \in 1..k |-> CREATE_LLM_TURNS[i]]
  BY <1>2, <1>3, <1>4 DEF SpanIds
<1> QED  BY <1>5, <1>6, <1>7 DEF Prefix

LEMMA RenameColumnKeeps ==
  ASSUME UpBase, InitStatement, at = 3
  PROVE  UpBase' /\ KeepsHistory /\ Stable
<1>0. UpType /\ UpFile /\ UpRows /\ UpNames /\ UpTables /\ UpSpans /\ UpTurns /\ UpMetrics /\ UpRollup
  BY DEF UpBase
<1>1. Advances /\ UpType' /\ filling' = filling /\ at' = 4
  BY <1>0, InitFrame DEF Advances
<1>2. db' = IF column_exists("traces", "call_ids") /\ ~column_exists("traces", "span_ids")
              THEN SetCols("traces", SpanIds(db["traces"].cols)) ELSE db
  <2>1. db' = After(RenameColumn)
    BY <1>0, InitFrame, ScriptStart
  <2> QED  BY <2>1, AfterRenameColumn
<1>3. /\ UpFile' /\ DOMAIN db' = DOMAIN db /\ \A t \in DOMAIN db : db'[t].rows = db[t].rows /\ (t # "traces" => db'[t] = db[t])
      /\ ~misses /\ "traces" \in DOMAIN db => \E k \in 4..6 : db'["traces"].cols = Prefix(CREATE_LLM_TURNS, k)
      /\ Stable
  <2>1. CASE column_exists("traces", "call_ids") /\ ~column_exists("traces", "span_ids")
    <3>1. UpFile' /\ Recolumns("traces", SpanIds(db["traces"].cols))
      BY <1>0, <1>2, <2>1, SetColsRecolumns
    <3>2. ASSUME ~misses PROVE \E k \in 4..6 : db'["traces"].cols = Prefix(CREATE_LLM_TURNS, k)
      <4>1. "traces" \in DOMAIN db /\ "call_ids" \in Range(db["traces"].cols)
        BY <2>1 DEF column_exists, table_exists
      <4>2. PICK k \in 4..6 : db["traces"].cols = Prefix(CREATE_LLM_TURNS, k) \/ db["traces"].cols = Prefix(OldTurnCols, k)
        BY <1>0, <3>2, <4>1 DEF UpTurns
      <4>3. db["traces"].cols = Prefix(OldTurnCols, k)
        BY <4>1, <4>2, TurnColumns
      <4> QED  BY <3>1, <4>1, <4>3, TurnColumns DEF Recolumns
    <3>3. Stable
      BY <2>1 DEF Stable, Migrated, column_exists, table_exists, Canonical
    <3> QED  BY <3>1, <3>2, <3>3 DEF Recolumns
  <2>2. CASE ~(column_exists("traces", "call_ids") /\ ~column_exists("traces", "span_ids"))
    <3>1. db' = db
      BY <1>2, <2>2
    <3>2. ASSUME ~misses, "traces" \in DOMAIN db PROVE \E k \in 4..6 : db["traces"].cols = Prefix(CREATE_LLM_TURNS, k)
      <4>1. "call_ids" \notin Range(db["traces"].cols) \/ "span_ids" \in Range(db["traces"].cols)
        BY <2>2, <3>2 DEF column_exists, table_exists
      <4>2. PICK k \in 4..6 : db["traces"].cols = Prefix(CREATE_LLM_TURNS, k) \/ db["traces"].cols = Prefix(OldTurnCols, k)
        BY <1>0, <3>2 DEF UpTurns
      <4> QED  BY <4>1, <4>2, TurnColumns
    <3> QED  BY <1>0, <3>1, <3>2 DEF Stable, UpFile
  <2> QED  BY <2>1, <2>2
<1>5. KeepsHistory
  BY <1>0, <1>3, SameRowsKeepHistory
<1>7. UpNames'
  BY <1>0, <1>1, <1>3 DEF UpNames, Advances
<1>8. UpTables'
  BY <1>1 DEF UpTables
<1>9. UpSpans'
  <2>1. SpanCols = 2 /\ SpanCols' = 2
    BY <1>1 DEF SpanCols
  <2>2. \A t \in CallTables \intersect DOMAIN db : db'[t] = db[t]
    BY <1>3 DEF CallTables
  <2> QED  BY <1>0, <1>1, <1>3, <2>1, <2>2 DEF UpSpans, Duck, Advances, CallTables
<1>10. UpTurns'
  <2>1. TurnCols' = 4
    BY <1>1 DEF TurnCols
  <2>2. "agent_turns" \in DOMAIN db' => db'["agent_turns"] = db["agent_turns"]
    BY <1>3
  <2> HIDE DEF Prefix
  <2> QED  BY <1>0, <1>1, <1>3, <2>1, <2>2 DEF UpTurns, Advances
<1>13. UpMetrics'
  BY <1>0, <1>1, <1>3 DEF UpMetrics, Advances, Duck
<1>14. UpRollup'
  BY <1>0, <1>1, <1>3, <1>5, EarlyRollup
<1>15. UpRows'
  BY <1>5 DEF KeepsHistory
<1> QED  BY <1>1, <1>3, <1>5, <1>7, <1>8, <1>9, <1>10, <1>13, <1>14, <1>15 DEF UpBase

LEMMA WholePrefix ==
  /\ CREATE_LLM_CALLS = Prefix(CREATE_LLM_CALLS, 8) /\ CREATE_LLM_TURNS = Prefix(CREATE_LLM_TURNS, 6)
  /\ Canonical["spans"] = CREATE_LLM_CALLS /\ Canonical["traces"] = CREATE_LLM_TURNS
  /\ Canonical["llm_metrics"] = CREATE_LLM_METRICS
  /\ DOMAIN Canonical = {"spans", "llm_metrics", "traces", "llm_finish_metrics", "http_exchanges"}
  /\ CREATE_LLM_CALLS[8] = "kind"
<1>1. CREATE_LLM_CALLS = [i \in 1..8 |-> CREATE_LLM_CALLS[i]]
  BY DEF CREATE_LLM_CALLS
<1>2. CREATE_LLM_TURNS = [i \in 1..6 |-> CREATE_LLM_TURNS[i]]
  BY DEF CREATE_LLM_TURNS
<1>3. CREATE_LLM_CALLS[8] = "kind"
  BY DEF CREATE_LLM_CALLS
<1> QED  BY <1>1, <1>2, <1>3 DEF Prefix, Canonical

LEMMA CreatesKeep ==
  ASSUME UpBase, InitStatement, NEW n,
         \/ /\ Duck
            /\ \/ at = 4 /\ n = "spans"
               \/ at \in {5, 11} /\ n = "llm_metrics"
               \/ at = 6 /\ n = "llm_finish_metrics"
               \/ at = 7 /\ n = "traces"
               \/ at = 8 /\ n = "http_exchanges"
         \/ /\ ~Duck
            /\ \/ at = 5 /\ n = "spans"
               \/ at = 6 /\ n = "llm_metrics"
               \/ at = 7 /\ n = "llm_finish_metrics"
               \/ at = 8 /\ n = "traces"
               \/ at = 9 /\ n = "http_exchanges"
  PROVE  UpBase' /\ KeepsHistory /\ Stable
<1>0. UpType /\ UpFile /\ UpRows /\ UpNames /\ UpTables /\ UpSpans /\ UpTurns /\ UpMetrics /\ UpRollup
  BY DEF UpBase
<1>1. Advances /\ UpType' /\ filling' = filling /\ at \in 4..11 /\ at' \in 5..12 /\ (Duck' <=> Duck)
  <2>1. at \in 4..11
    OBVIOUS
  <2> QED  BY <1>0, <2>1, InitFrame DEF Advances, Duck
<1>2. db' = Created(n)
  <2>1. db' = After(Create(n))
    BY <1>0, InitFrame, DuckStatements, ChStatements
  <2> QED  BY <2>1, AfterCreate
<1>3. n \in FileTables /\ n \in DOMAIN Canonical /\ n \notin {"llm_calls", "agent_turns"}
  BY WholePrefix DEF FileTables
<1>4. UpFile' /\ Makes(n) /\ (n \in DOMAIN db => db' = db)
  BY <1>0, <1>2, <1>3, CreatedMakes
<1>5. KeepsHistory
  BY <1>0, <1>4, MakesKeepsHistory
<1>6. Stable
  BY <1>3, <1>4 DEF Stable, Migrated
<1>7. UpNames'
  <2>1. DOMAIN db' = DOMAIN db \union {n}
    BY <1>4 DEF Makes
  <2> QED  BY <1>0, <1>1, <1>3, <2>1 DEF UpNames, Advances, CallTables, TurnTables
<1>8. UpTables'
  <2>1. DOMAIN db' = DOMAIN db \union {n} /\ at' = at + 1
    BY <1>1, <1>4 DEF Makes, Advances
  <2>2. CASE Duck
    BY <1>0, <1>1, <2>1, <2>2 DEF UpTables
  <2>3. CASE ~Duck
    BY <1>0, <1>1, <2>1, <2>3 DEF UpTables
  <2> QED  BY <2>2, <2>3
<1>9. UpSpans'
  <2>1. SpanCols = 2 /\ SpanCols' = 2
    BY <1>1 DEF SpanCols
  <2>2. "llm_calls" \in DOMAIN db' => "llm_calls" \in DOMAIN db /\ db'["llm_calls"] = db["llm_calls"]
    BY <1>3, <1>4 DEF Makes
  <2>3. "spans" \in DOMAIN db' => \/ "spans" \in DOMAIN db /\ db'["spans"] = db["spans"]
                                  \/ db'["spans"].cols = CREATE_LLM_CALLS
    BY <1>4, WholePrefix DEF Makes
  <2>4. CREATE_LLM_CALLS = Prefix(CREATE_LLM_CALLS, 8) /\ 8 \in 2..8
    BY WholePrefix
  <2>5. "kind" \in Range(CREATE_LLM_CALLS)
    <3>1. 8 \in DOMAIN CREATE_LLM_CALLS
      BY DEF CREATE_LLM_CALLS
    <3> QED  BY <3>1, WholePrefix DEF Range
  <2>6. CASE Duck
    <3> HIDE DEF Prefix
    <3> QED  BY <1>0, <1>1, <2>1, <2>2, <2>3, <2>4, <2>6 DEF UpSpans, Advances
  <2>7. CASE ~Duck
    <3>1. ~(at <= 4) /\ misses' = misses
      BY <1>1, <2>7 DEF Advances
    <3>2. "spans" \in DOMAIN db' => "kind" \in Range(db'["spans"].cols)
      BY <1>0, <2>3, <2>5, <2>7, <3>1 DEF UpSpans
    <3>3. ~misses /\ "llm_calls" \notin DOMAIN db
      BY <1>0, <1>1, <2>7 DEF UpType, UpNames
    <3> QED  BY ONLY <1>1, <2>2, <2>7, <3>2, <3>3 DEF UpSpans
  <2> QED  BY <2>6, <2>7
<1>10. UpTurns'
  <2>1. TurnCols = 4 /\ TurnCols' = 4
    BY <1>1 DEF TurnCols
  <2>2. "agent_turns" \in DOMAIN db' => "agent_turns" \in DOMAIN db /\ db'["agent_turns"] = db["agent_turns"]
    BY <1>3, <1>4 DEF Makes
  <2>3. "traces" \in DOMAIN db' => \/ "traces" \in DOMAIN db /\ db'["traces"] = db["traces"]
                                   \/ db'["traces"].cols = CREATE_LLM_TURNS
    BY <1>4, WholePrefix DEF Makes
  <2>4. CREATE_LLM_TURNS = Prefix(CREATE_LLM_TURNS, 6) /\ 6 \in 4..6
    BY WholePrefix
  <2> HIDE DEF Prefix
  <2> QED  BY <1>0, <1>1, <2>1, <2>2, <2>3, <2>4 DEF UpTurns, Advances
<1>13. UpMetrics'
  <2>1. "llm_metrics" \in DOMAIN db' => \/ "llm_metrics" \in DOMAIN db /\ db'["llm_metrics"] = db["llm_metrics"]
                                        \/ db'["llm_metrics"].cols = CREATE_LLM_METRICS
    BY <1>4, WholePrefix DEF Makes
  <2>2. \A t \in {"llm_finish_metrics", "http_exchanges"} \intersect DOMAIN db' :
          (t \in DOMAIN db /\ db'[t] = db[t]) \/ db'[t].cols = Canonical[t]
    BY <1>4 DEF Makes
  <2>3. "llm_metrics" \in DOMAIN db' /\ at = 10 => FALSE
    BY DEF Duck
  <2> QED  BY <1>0, <1>1, <2>1, <2>2, <2>3 DEF UpMetrics, Advances, MetricLayouts
<1>14. UpRollup'
  <2>1. at \in 1..11
    BY <1>1
  <2>2. "llm_metrics" \in DOMAIN db' =>
           db'["llm_metrics"].rows = {} \/
           ("llm_metrics" \in DOMAIN db /\ db'["llm_metrics"].rows = db["llm_metrics"].rows)
    BY <1>4 DEF Makes
  <2> QED  BY <1>0, <1>1, <1>5, <2>1, <2>2, EarlyRollup
<1>15. UpRows'
  BY <1>5 DEF KeepsHistory
<1> QED  BY <1>1, <1>4, <1>5, <1>6, <1>7, <1>8, <1>9, <1>10, <1>13, <1>14, <1>15 DEF UpBase

LEMMA RollupLayouts ==
  /\ "finish_complete_count" \in Range(FirstRollup) /\ RemoveAt(FirstRollup, IndexIn("finish_complete_count", FirstRollup)) = SecondRollup
  /\ \A cols \in {SecondRollup, ThirdRollup, CREATE_LLM_METRICS} : "finish_complete_count" \notin Range(cols)
  /\ \A cols \in {FirstRollup, SecondRollup, ThirdRollup} :
       "ttft_p99" \in Range(cols) /\ ("ttft_stream_sum" \notin Range(cols) \/ IndexIn("ttft_stream_sum", cols) # IndexIn("ttft_p99", cols) + 1)
  /\ "ttft_stream_sum" \in Range(CREATE_LLM_METRICS) /\ "tool_surface" \in Range(CREATE_LLM_METRICS)
  /\ IndexIn("ttft_stream_sum", CREATE_LLM_METRICS) = IndexIn("ttft_p99", CREATE_LLM_METRICS) + 1
<1>1. /\ DOMAIN FirstRollup = 1..4 /\ FirstRollup[1] = "call_count" /\ FirstRollup[2] = "finish_complete_count"
      /\ FirstRollup[3] = "ttft_p99" /\ FirstRollup[4] = "e2e_sum"
  BY DEF FirstRollup
<1>2. /\ DOMAIN SecondRollup = 1..3 /\ SecondRollup[1] = "call_count"
      /\ SecondRollup[2] = "ttft_p99" /\ SecondRollup[3] = "e2e_sum"
  BY DEF SecondRollup
<1>3. /\ DOMAIN ThirdRollup = 1..5 /\ ThirdRollup[1] = "call_count" /\ ThirdRollup[2] = "ttft_p99"
      /\ ThirdRollup[3] = "e2e_sum" /\ ThirdRollup[4] = "ttft_stream_sum" /\ ThirdRollup[5] = "tool_surface"
  BY DEF ThirdRollup
<1>4. /\ DOMAIN CREATE_LLM_METRICS = 1..5 /\ CREATE_LLM_METRICS[1] = "call_count" /\ CREATE_LLM_METRICS[2] = "ttft_p99"
      /\ CREATE_LLM_METRICS[3] = "ttft_stream_sum" /\ CREATE_LLM_METRICS[4] = "e2e_sum" /\ CREATE_LLM_METRICS[5] = "tool_surface"
  BY DEF CREATE_LLM_METRICS
<1>5. "finish_complete_count" \in Range(FirstRollup)
  BY <1>1 DEF Range
<1>6. RemoveAt(FirstRollup, IndexIn("finish_complete_count", FirstRollup)) = SecondRollup
  <2> DEFINE Cs == {"call_count", "finish_complete_count", "ttft_p99", "e2e_sum"}
  <2>1. IndexIn("finish_complete_count", FirstRollup) = 2
    BY <1>1 DEF IndexIn
  <2>2. Len(FirstRollup) = 4
    BY DEF FirstRollup
  <2>3. PICK u : u = SubSeq(FirstRollup, 1, 1)
    OBVIOUS
  <2>4. PICK v : v = SubSeq(FirstRollup, 3, 4)
    OBVIOUS
  <2>5. u \in Seq(Cs) /\ Len(u) = 1 /\ u[1] = "call_count"
    <3>1. \A i \in 1..1 : FirstRollup[i] \in Cs
      BY <1>1
    <3>2. u \in Seq(Cs) /\ Len(u) = 1 /\ \A i \in 1..1 : u[i] = FirstRollup[1 + i - 1]
      BY <2>3, <3>1, SubSeqProperties
    <3> QED  BY <1>1, <3>2
  <2>6. v \in Seq(Cs) /\ Len(v) = 2 /\ v[1] = "ttft_p99" /\ v[2] = "e2e_sum"
    <3>1. \A i \in 3..4 : FirstRollup[i] \in Cs
      BY <1>1
    <3>2. v \in Seq(Cs) /\ Len(v) = 2 /\ \A i \in 1..2 : v[i] = FirstRollup[3 + i - 1]
      BY <2>4, <3>1, SubSeqProperties
    <3> QED  BY <1>1, <3>2
  <2>7. PICK w : w = u \o v
    OBVIOUS
  <2>8. w \in Seq(Cs) /\ Len(w) = 3 /\ \A i \in 1..3 : w[i] = IF i <= 1 THEN u[i] ELSE v[i - 1]
    <3>1. /\ u \o v \in Seq(Cs) /\ Len(u \o v) = Len(u) + Len(v)
          /\ \A i \in 1 .. Len(u) + Len(v) : (u \o v)[i] = IF i <= Len(u) THEN u[i] ELSE v[i - Len(u)]
      BY ONLY <2>5, <2>6, ConcatProperties
    <3> QED  BY <2>5, <2>6, <2>7, <3>1
  <2>9. w[1] = "call_count" /\ w[2] = "ttft_p99" /\ w[3] = "e2e_sum"
    BY <2>5, <2>6, <2>8
  <2>10. SecondRollup \in Seq(Cs) /\ Len(SecondRollup) = 3
    BY DEF SecondRollup
  <2>11. \A i \in 1..3 : w[i] = SecondRollup[i]
    BY <1>2, <2>9
  <2>12. w = SecondRollup
    BY <2>8, <2>10, <2>11, SeqEqual
  <2>13. RemoveAt(FirstRollup, 2) = w
    BY <2>2, <2>3, <2>4, <2>7 DEF RemoveAt
  <2> QED  BY <2>1, <2>12, <2>13
<1>7. \A cols \in {SecondRollup, ThirdRollup, CREATE_LLM_METRICS} : "finish_complete_count" \notin Range(cols)
  BY <1>2, <1>3, <1>4 DEF Range
<1>8. \A cols \in {FirstRollup, SecondRollup, ThirdRollup} : "ttft_p99" \in Range(cols)
  BY <1>1, <1>2, <1>3 DEF Range
<1>9. \A cols \in {FirstRollup, SecondRollup} : "ttft_stream_sum" \notin Range(cols)
  BY <1>1, <1>2 DEF Range
<1>10. IndexIn("ttft_stream_sum", ThirdRollup) = 4 /\ IndexIn("ttft_p99", ThirdRollup) = 2
  BY <1>3 DEF IndexIn
<1>11. IndexIn("ttft_stream_sum", CREATE_LLM_METRICS) = 3 /\ IndexIn("ttft_p99", CREATE_LLM_METRICS) = 2
  BY <1>4 DEF IndexIn
<1>12. "ttft_stream_sum" \in Range(CREATE_LLM_METRICS) /\ "tool_surface" \in Range(CREATE_LLM_METRICS)
  BY <1>4 DEF Range
<1>13. \A cols \in {FirstRollup, SecondRollup, ThirdRollup} :
         "ttft_stream_sum" \notin Range(cols) \/ IndexIn("ttft_stream_sum", cols) # IndexIn("ttft_p99", cols) + 1
  BY <1>9, <1>10
<1> QED  BY <1>5, <1>6, <1>7, <1>8, <1>11, <1>12, <1>13

\* Dropping a column and dropping the whole rollup: only llm_metrics changes.
LEMMA RollupStatementsKeep ==
  ASSUME UpBase, InitStatement, Duck, at \in {9, 10}
  PROVE  UpBase' /\ KeepsHistory /\ Stable
<1>0. UpType /\ UpFile /\ UpRows /\ UpNames /\ UpTables /\ UpSpans /\ UpTurns /\ UpMetrics /\ UpRollup
  BY DEF UpBase
<1>1. Advances /\ UpType' /\ filling' = filling /\ at' \in 10..11 /\ at' = at + 1 /\ Duck'
  BY <1>0, InitFrame DEF Advances, Duck
<1>2. /\ UpFile' /\ KeepsHistory /\ Stable
      /\ \A t \in DOMAIN db \ {"llm_metrics"} : t \in DOMAIN db' /\ db'[t] = db[t]
      /\ DOMAIN db' \subseteq DOMAIN db /\ (at = 9 => "llm_metrics" \in DOMAIN db')
      /\ "llm_metrics" \in DOMAIN db' =>
           /\ db'["llm_metrics"].rows = db["llm_metrics"].rows
           /\ ~misses => /\ db'["llm_metrics"].cols \in MetricLayouts
                         /\ at = 10 => db'["llm_metrics"].cols = CREATE_LLM_METRICS
  <2>1. CASE at = 9
    <3>1. db' = Without("llm_metrics", "finish_complete_count")
      <4>1. db' = After(DuckScript[9])
        BY <1>0, <2>1, InitFrame
      <4> QED  BY <4>1, DuckStatements, AfterOthers
    <3>2. "llm_metrics" \in DOMAIN db
      BY <1>0, <2>1 DEF UpTables
    <3>3. ~misses => db["llm_metrics"].cols \in MetricLayouts
      BY <1>0, <3>2 DEF UpMetrics
    <3>4. CASE "finish_complete_count" \in Range(db["llm_metrics"].cols)
      <4> PICK new : new = RemoveAt(db["llm_metrics"].cols, IndexIn("finish_complete_count", db["llm_metrics"].cols))
        OBVIOUS
      <4>1. db' = SetCols("llm_metrics", new)
        BY <3>1, <3>4 DEF Without
      <4>2. UpFile' /\ Recolumns("llm_metrics", new)
        BY <1>0, <4>1, SetColsRecolumns
      <4>3. KeepsHistory
        BY <1>0, <4>2, RecolumnsKeepsHistory
      <4>4. ~misses => new = SecondRollup
        BY <3>3, <3>4, RollupLayouts DEF MetricLayouts
      <4>5. ~Migrated
        BY <3>4, RollupLayouts, WholePrefix DEF Migrated
      <4> QED  BY <2>1, <3>2, <4>2, <4>3, <4>4, <4>5 DEF Recolumns, Stable, MetricLayouts
    <3>5. CASE "finish_complete_count" \notin Range(db["llm_metrics"].cols)
      <4>1. db' = db
        BY <3>1, <3>5 DEF Without
      <4>2. KeepsHistory
        BY <1>0, <4>1, SameRowsKeepHistory
      <4> QED  BY <1>0, <2>1, <3>2, <3>3, <4>1, <4>2 DEF Stable, UpFile
    <3> QED  BY <3>4, <3>5
  <2>2. CASE at = 10
    <3>1. db' = IF needs_canonical_rebuild THEN [t \in DOMAIN db \ {"llm_metrics"} |-> db[t]] ELSE db
      <4>1. db' = After(DuckScript[10])
        BY <1>0, <2>2, InitFrame
      <4> QED  BY <4>1, DuckStatements, AfterOthers
    <3>2. "llm_metrics" \in DOMAIN db
      BY <1>0, <2>2 DEF UpTables
    <3>3. ~misses => db["llm_metrics"].cols \in MetricLayouts
      BY <1>0, <3>2 DEF UpMetrics
    <3>4. CASE needs_canonical_rebuild
      <4>1. UpFile' /\ Drops("llm_metrics")
        BY <1>0, <3>1, <3>4, DropDrops
      <4>2. KeepsHistory
        BY <1>0, <4>1, DropsKeepsHistory
      <4>3. ~Migrated
        BY <3>4, RollupLayouts, WholePrefix DEF Migrated, needs_canonical_rebuild
      <4> QED  BY <2>2, <4>1, <4>2, <4>3 DEF Drops, Stable
    <3>5. CASE ~needs_canonical_rebuild
      <4>1. db' = db
        BY <3>1, <3>5
      <4>2. KeepsHistory
        BY <1>0, <4>1, SameRowsKeepHistory
      <4>3. ~misses => db["llm_metrics"].cols = CREATE_LLM_METRICS
        BY <3>2, <3>3, <3>5, RollupLayouts DEF needs_canonical_rebuild, MetricLayouts, table_exists
      <4> QED  BY <1>0, <2>2, <3>3, <4>1, <4>2, <4>3 DEF Stable, UpFile
    <3> QED  BY <3>4, <3>5
  <2> QED  BY <2>1, <2>2
<1>7. UpNames'
  BY <1>0, <1>1, <1>2 DEF UpNames, Advances
<1>8. UpTables'
  BY <1>0, <1>1, <1>2 DEF UpTables, Advances
<1>9. UpSpans'
  <2>1. SpanCols = 2 /\ SpanCols' = 2
    BY <1>1 DEF SpanCols
  <2>2. \A t \in CallTables \intersect DOMAIN db' : t \in DOMAIN db /\ db'[t] = db[t]
    BY <1>2 DEF CallTables
  <2> HIDE DEF Prefix
  <2> QED  BY <1>0, <1>1, <2>1, <2>2 DEF UpSpans, Advances, CallTables
<1>10. UpTurns'
  <2>1. TurnCols = 4 /\ TurnCols' = 4
    BY <1>1 DEF TurnCols
  <2>2. \A t \in TurnTables \intersect DOMAIN db' : t \in DOMAIN db /\ db'[t] = db[t]
    BY <1>2 DEF TurnTables
  <2> HIDE DEF Prefix
  <2> QED  BY <1>0, <1>1, <2>1, <2>2 DEF UpTurns, Advances, TurnTables
<1>13. UpMetrics'
  BY <1>0, <1>1, <1>2 DEF UpMetrics, Advances
<1>14. UpRollup'
  <2>1. at \in 1..11
    OBVIOUS
  <2>2. "llm_metrics" \in DOMAIN db' => "llm_metrics" \in DOMAIN db /\ db'["llm_metrics"].rows = db["llm_metrics"].rows
    BY <1>2
  <2> QED  BY <1>0, <1>1, <1>2, <2>1, <2>2, EarlyRollup
<1>15. UpRows'
  BY <1>2 DEF KeepsHistory
<1> QED  BY <1>1, <1>2, <1>7, <1>8, <1>9, <1>10, <1>13, <1>14, <1>15 DEF UpBase

LEMMA SetRowsSame ==
  ASSUME UpFile, NEW n \in DOMAIN db, NEW rs, rs = db[n].rows
  PROVE  SetRows(n, rs) = db
<1>1. db[n] = [cols |-> db[n].cols, rows |-> rs]
  BY DEF UpFile, Table
<1>2. SetRows(n, rs) = [t \in DOMAIN db |-> IF t = n THEN [cols |-> db[n].cols, rows |-> rs] ELSE db[t]]
  BY DEF SetRows
<1>3. \A t \in DOMAIN db : (IF t = n THEN [cols |-> db[n].cols, rows |-> rs] ELSE db[t]) = db[t]
  BY <1>1
<1>4. SetRows(n, rs) = [t \in DOMAIN db |-> db[t]]
  BY <1>2, <1>3
<1> QED  BY <1>4 DEF UpFile

\* Finding out whether to fill, and filling: only the rows of llm_metrics change.
LEMMA FillingKeeps ==
  ASSUME UpBase, InitStatement, Duck, at \in {12, 13, 14}
  PROVE  UpBase' /\ KeepsHistory /\ Stable
<1>0. UpType /\ UpFile /\ UpRows /\ UpNames /\ UpTables /\ UpSpans /\ UpTurns /\ UpMetrics /\ UpRollup
  BY DEF UpBase
<1>1. Advances /\ UpType' /\ at' \in 13..15 /\ at' = at + 1 /\ Duck'
  BY <1>0, InitFrame DEF Advances, Duck
<1>2. {"llm_metrics", "spans", "traces", "llm_finish_metrics", "http_exchanges"} \subseteq DOMAIN db
  BY <1>0 DEF UpTables
<1> DEFINE R == db["llm_metrics"].rows
           S == db["spans"].rows
           G == IF at = 13 THEN "10s" ELSE "1m"
           Fill == SetRows("llm_metrics", R \union backfill_sql(S, G))
<1>3. db' = IF at # 12 /\ filling THEN Fill ELSE db
  <2>1. CASE at = 12
    <3>1. db' = After(DuckScript[12])
      BY <1>0, <2>1, InitFrame
    <3> QED  BY <2>1, <3>1, DuckStatements, AfterOthers
  <2>2. CASE at = 13
    <3>1. db' = After(DuckScript[13])
      BY <1>0, <2>2, InitFrame
    <3> QED  BY <2>2, <3>1, DuckStatements, AfterBackfill
  <2>3. CASE at = 14
    <3>1. db' = After(DuckScript[14])
      BY <1>0, <2>3, InitFrame
    <3> QED  BY <2>3, <3>1, DuckStatements, AfterBackfill
  <2> QED  BY <2>1, <2>2, <2>3
<1>4. filling' = IF at = 12 THEN R = {} /\ S # {} ELSE filling
  BY <1>0, InitFrame DEF rollup_empty_but_calls_present
<1>5. /\ UpFile' /\ KeepsHistory /\ DOMAIN db' = DOMAIN db /\ \A t \in DOMAIN db \ {"llm_metrics"} : db'[t] = db[t]
      /\ db'["llm_metrics"].cols = db["llm_metrics"].cols
      /\ db'["llm_metrics"].rows = IF at # 12 /\ filling THEN R \union backfill_sql(S, G) ELSE R
  <2>1. CASE at # 12 /\ filling
    <3> HIDE DEF R, S, G
    <3>1. UpFile' /\ Refills("llm_metrics", R \union backfill_sql(S, G))
      BY <1>0, <1>3, <2>1, SetRowsRefills
    <3>2. KeepsHistory
      BY <1>0, <3>1, RefillsKeepsHistory
    <3> QED  BY <1>2, <2>1, <3>1, <3>2 DEF Refills
  <2>2. CASE ~(at # 12 /\ filling)
    <3>1. db' = db
      BY <1>3, <2>2
    <3>2. KeepsHistory
      BY <1>0, <3>1, SameRowsKeepHistory
    <3> QED  BY <1>0, <2>2, <3>1, <3>2 DEF UpFile
  <2> QED  BY <2>1, <2>2
<1>6. ~misses /\ ~cut =>
        /\ filling => History # {} /\ S = History /\ R = Filled
        /\ ~(filling /\ at = 14) => R \in {{}, Rollup, Rebuilt}
        /\ R # {} => StoredCalls = History
        /\ at > 12 /\ ~filling => R # {} \/ S = {}
  BY <1>0, <1>2 DEF UpRollup
<1>7. Stable
  <2> SUFFICES ASSUME Migrated, filling => Rebuilt = {}, ~misses, ~cut, at # 12, filling PROVE db' = db
    BY <1>3 DEF Stable
  <2>1. backfill_sql(S, G) \subseteq Rebuilt
    BY <1>6 DEF Rebuilt
  <2>2. R \union backfill_sql(S, G) = R
    BY <2>1
  <2> HIDE DEF R, S, G
  <2>3. SetRows("llm_metrics", R) = db
    BY <1>0, <1>2, SetRowsSame DEF R
  <2> QED  BY <1>3, <2>2, <2>3
<1>8. UpRollup'
  <2> SUFFICES ASSUME ~misses, ~cut
               PROVE  /\ (filling => History # {} /\ db["spans"].rows = History /\ db["llm_metrics"].rows = Filled)'
                      /\ (~(filling /\ at = 14) => db["llm_metrics"].rows \in {{}, Rollup, Rebuilt})'
                      /\ (db["llm_metrics"].rows # {} => StoredCalls = History)'
                      /\ (~filling => db["llm_metrics"].rows # {} \/ db["spans"].rows = {})'
    BY <1>1, <1>2, <1>5 DEF UpRollup, Advances
  <2>1. db'["spans"].rows = S /\ StoredCalls' = StoredCalls
    BY <1>2, <1>5 DEF KeepsHistory
  <2>2. CASE at = 12
    <3>1. ~filling
      BY <1>0, <2>2 DEF UpType
    <3>2. db'["llm_metrics"].rows = R /\ Filled' = {} /\ Filled' = {} /\ at' = 13
      BY <1>1, <1>5, <2>2 DEF Filled
    <3>3. S \in {{}, History}
      BY <1>0, <1>2 DEF UpRows, CallTables
    <3>4. filling' = (R = {} /\ S # {})
      BY <1>4, <2>2
    <3> QED  BY <1>6, <2>1, <2>2, <3>1, <3>2, <3>3, <3>4 DEF Rollup, Rebuilt
  <2>3. CASE at # 12 /\ filling
    <3>1. filling'
      BY <1>4, <2>3
    <3>2. History # {} /\ S = History /\ R = Filled
      BY <1>6, <2>3
    <3>3. db'["llm_metrics"].rows = Filled'
      <4>1. CASE at = 13
        <5>1. R = {} /\ Filled' = backfill_sql(History, "10s") /\ G = "10s"
          BY <1>1, <3>2, <4>1 DEF Filled
        <5> QED  BY <1>5, <2>3, <3>2, <5>1
      <4>2. CASE at = 14
        <5>1. R = backfill_sql(History, "10s") /\ Filled' = Rebuilt /\ G = "1m"
          BY <1>1, <3>2, <4>2 DEF Filled, Rebuilt
        <5> QED  BY <1>5, <2>3, <3>2, <5>1 DEF Rebuilt
      <4> QED  BY <2>3, <4>1, <4>2
    <3>4. StoredCalls = History
      <4>1. "spans" \in DOMAIN db /\ db["spans"].rows = History
        BY <1>2, <3>2
      <4>2. \A t \in {"llm_calls", "spans"} \intersect DOMAIN db : db[t].rows \subseteq History
        BY <1>0 DEF UpRows, CallTables
      <4>3. \A x : x \in StoredCalls => x \in History
        BY <4>2 DEF StoredCalls
      <4>4. \A x : x \in History => x \in StoredCalls
        BY <4>1 DEF StoredCalls
      <4> QED  BY <4>3, <4>4
    <3>5. (~(filling /\ at = 14) => db["llm_metrics"].rows \in {{}, Rollup, Rebuilt})'
      <4>1. CASE at = 13
        BY <1>1, <3>1, <4>1
      <4>2. CASE at = 14
        <5>1. Filled' = Rebuilt'
          BY <1>1, <4>2 DEF Filled
        <5> QED  BY <3>3, <5>1
      <4> QED  BY <2>3, <4>1, <4>2
    <3> QED  BY <2>1, <3>1, <3>2, <3>3, <3>4, <3>5
  <2>4. CASE at # 12 /\ ~filling
    <3>1. ~filling' /\ db'["llm_metrics"].rows = R
      BY <1>4, <1>5, <2>4
    <3>2. at > 12 /\ Rollup' = Rollup /\ Rebuilt' = Rebuilt
      BY <2>4 DEF Rollup, Rebuilt
    <3> QED  BY <1>6, <2>1, <2>4, <3>1, <3>2
  <2> QED  BY <2>2, <2>3, <2>4
<1> HIDE DEF R, S, G
<1>9. UpNames'
  BY <1>0, <1>1, <1>5 DEF UpNames, Advances
<1>10. UpTables'
  BY <1>0, <1>1, <1>2, <1>5 DEF UpTables
<1>11. UpSpans'
  <2>1. SpanCols = 2 /\ SpanCols' = 2
    BY <1>1 DEF SpanCols
  <2>2. \A t \in CallTables \intersect DOMAIN db' : t \in DOMAIN db /\ db'[t] = db[t]
    BY <1>5 DEF CallTables
  <2> HIDE DEF Prefix
  <2> QED  BY <1>0, <1>1, <2>1, <2>2 DEF UpSpans, Advances, CallTables
<1>12. UpTurns'
  <2>1. TurnCols = 4 /\ TurnCols' = 4
    BY <1>1 DEF TurnCols
  <2>2. \A t \in TurnTables \intersect DOMAIN db' : t \in DOMAIN db /\ db'[t] = db[t]
    BY <1>5 DEF TurnTables
  <2> HIDE DEF Prefix
  <2> QED  BY <1>0, <1>1, <2>1, <2>2 DEF UpTurns, Advances, TurnTables
<1>13. UpMetrics'
  BY <1>0, <1>1, <1>2, <1>5 DEF UpMetrics, Advances
<1>14. UpRows'
  BY <1>5 DEF KeepsHistory
<1> QED  BY <1>1, <1>5, <1>7, <1>8, <1>9, <1>10, <1>11, <1>12, <1>13, <1>14 DEF UpBase

\* A column that is the next one, or is there already.
LEMMA AddToPrefix ==
  ASSUME NEW C, NEW n \in Nat, \A i \in 1..n, j \in 1..n : C[i] = C[j] => i = j,
         NEW k \in 0..n, NEW j \in 1..n, k >= j - 1
  PROVE  /\ C[j] \in Range(Prefix(C, k)) => k >= j
         /\ C[j] \notin Range(Prefix(C, k)) => Append(Prefix(C, k), C[j]) = Prefix(C, j)
<1>1. DOMAIN Prefix(C, k) = 1..k /\ \A i \in 1..k : Prefix(C, k)[i] = C[i]
  BY DEF Prefix
<1>2. C[j] \in Range(Prefix(C, k)) <=> j \in 1..k
  BY <1>1 DEF Range
<1>3. ASSUME j \notin 1..k PROVE Append(Prefix(C, k), C[j]) = Prefix(C, j)
  <2>1. k = j - 1
    BY <1>3
  <2>2. Len(Prefix(C, k)) = k
    BY <1>1, LenProperties DEF Prefix
  <2>3. Append(Prefix(C, k), C[j]) = [i \in 1..(k + 1) |-> IF i = k + 1 THEN C[j] ELSE Prefix(C, k)[i]]
    BY <1>1, <2>2, AppendProperties
  <2>4. [i \in 1..(k + 1) |-> IF i = k + 1 THEN C[j] ELSE Prefix(C, k)[i]] = [i \in 1..j |-> C[i]]
    BY <1>1, <2>1
  <2> QED  BY <2>3, <2>4 DEF Prefix
<1> QED  BY <1>2, <1>3

LEMMA ColumnsDiffer ==
  /\ \A i \in 1..8, j \in 1..8 : CREATE_LLM_CALLS[i] = CREATE_LLM_CALLS[j] => i = j
  /\ \A i \in 1..6, j \in 1..6 : CREATE_LLM_TURNS[i] = CREATE_LLM_TURNS[j] => i = j
  /\ CREATE_LLM_CALLS[3] = "is_agent_request" /\ CREATE_LLM_CALLS[4] = "tool_surface"
  /\ CREATE_LLM_CALLS[5] = "body_bytes_dropped" /\ CREATE_LLM_CALLS[6] = "process_pid"
  /\ CREATE_LLM_CALLS[7] = "process_exe" /\ CREATE_LLM_CALLS[8] = "kind"
  /\ CREATE_LLM_TURNS[5] = "tool_surfaces_json" /\ CREATE_LLM_TURNS[6] = "suspicious_skills_json"
<1>1. \A i \in 1..8 : i = 1 \/ i = 2 \/ i = 3 \/ i = 4 \/ i = 5 \/ i = 6 \/ i = 7 \/ i = 8
  OBVIOUS
<1>2. /\ CREATE_LLM_CALLS[1] = "id" /\ CREATE_LLM_CALLS[2] = "bodies"
      /\ CREATE_LLM_CALLS[3] = "is_agent_request" /\ CREATE_LLM_CALLS[4] = "tool_surface"
      /\ CREATE_LLM_CALLS[5] = "body_bytes_dropped" /\ CREATE_LLM_CALLS[6] = "process_pid"
      /\ CREATE_LLM_CALLS[7] = "process_exe" /\ CREATE_LLM_CALLS[8] = "kind"
  BY DEF CREATE_LLM_CALLS
<1>3. /\ CREATE_LLM_TURNS[1] = "turn_id" /\ CREATE_LLM_TURNS[2] = "status" /\ CREATE_LLM_TURNS[3] = "span_ids"
      /\ CREATE_LLM_TURNS[4] = "metadata" /\ CREATE_LLM_TURNS[5] = "tool_surfaces_json"
      /\ CREATE_LLM_TURNS[6] = "suspicious_skills_json"
  BY DEF CREATE_LLM_TURNS
<1>4. \A i \in 1..8, j \in 1..8 : CREATE_LLM_CALLS[i] = CREATE_LLM_CALLS[j] => i = j
  BY <1>1, <1>2
<1>5. \A i \in 1..6, j \in 1..6 : CREATE_LLM_TURNS[i] = CREATE_LLM_TURNS[j] => i = j
  BY <1>1, <1>3
<1> QED  BY <1>2, <1>3, <1>4, <1>5

LEMMA WithEffect ==
  ASSUME UpFile, UpRows, NEW n \in DOMAIN db, NEW c, db' = With(n, c)
  PROVE  /\ UpFile' /\ KeepsHistory /\ DOMAIN db' = DOMAIN db
         /\ \A t \in DOMAIN db : db'[t].rows = db[t].rows /\ (t # n => db'[t] = db[t])
         /\ c \in Range(db[n].cols) => db' = db
         /\ c \notin Range(db[n].cols) => db'[n].cols = Append(db[n].cols, c)
<1>1. CASE c \in Range(db[n].cols)
  <2>1. db' = db
    BY <1>1 DEF With
  <2>2. KeepsHistory
    BY <2>1, SameRowsKeepHistory
  <2> QED  BY <1>1, <2>1, <2>2 DEF UpFile
<1>2. CASE c \notin Range(db[n].cols)
  <2>1. db' = SetCols(n, Append(db[n].cols, c))
    BY <1>2 DEF With
  <2>2. UpFile' /\ Recolumns(n, Append(db[n].cols, c))
    BY <2>1, SetColsRecolumns
  <2>3. KeepsHistory
    BY <2>2, RecolumnsKeepsHistory
  <2> QED  BY <1>2, <2>2, <2>3 DEF Recolumns
<1> QED  BY <1>1, <1>2

\* What is left to show of a statement after the filling.
LEMMA LateKeeps ==
  ASSUME UpBase, InitStatement, Duck, at \in 15..24, UpFile', KeepsHistory, DOMAIN db' = DOMAIN db, Stable,
         \A t \in DOMAIN db \ {"traces"} : db'[t].rows = db[t].rows,
         \A t \in {"llm_finish_metrics", "http_exchanges"} \intersect DOMAIN db : db'[t] = db[t],
         ~misses => db'["llm_metrics"].cols = db["llm_metrics"].cols,
         UpSpans', UpTurns'
  PROVE  UpBase' /\ KeepsHistory /\ Stable
<1>0. UpType /\ UpFile /\ UpRows /\ UpNames /\ UpTables /\ UpSpans /\ UpTurns /\ UpMetrics /\ UpRollup
  BY DEF UpBase
<1>1. Advances /\ UpType' /\ at' \in 16..25 /\ at' = at + 1 /\ Duck' /\ filling' = filling
  BY <1>0, InitFrame DEF Advances, Duck
<1>2. {"llm_metrics", "spans", "traces", "llm_finish_metrics", "http_exchanges"} \subseteq DOMAIN db
  BY <1>0 DEF UpTables
<1>3. UpNames'
  BY <1>0, <1>1 DEF UpNames, Advances
<1>4. UpTables'
  BY <1>0, <1>1, <1>2 DEF UpTables
<1>5. UpMetrics'
  BY <1>0, <1>1, <1>2 DEF UpMetrics, Advances
<1>6. UpRollup'
  <2>1. Filled' = Filled /\ Rebuilt' = Rebuilt /\ Rollup' = Rollup
    BY <1>1 DEF Filled, Rebuilt, Rollup
  <2>2. db'["spans"].rows = db["spans"].rows /\ db'["llm_metrics"].rows = db["llm_metrics"].rows /\ StoredCalls' = StoredCalls
    BY <1>2 DEF KeepsHistory
  <2>3. at # 14 /\ at' # 14 /\ at # 0 /\ at' # 0 /\ at > 12 /\ at' > 12
    BY <1>1
  <2> QED  BY <1>0, <1>1, <1>2, <2>1, <2>2, <2>3 DEF UpRollup, Advances
<1>7. UpRows'
  BY DEF KeepsHistory
<1> QED  BY <1>1, <1>3, <1>4, <1>5, <1>6, <1>7 DEF UpBase

LEMMA RewriteKeeps ==
  ASSUME UpBase, InitStatement, Duck, at = 15
  PROVE  UpBase' /\ KeepsHistory /\ Stable
<1>0. UpType /\ UpFile /\ UpRows /\ UpNames /\ UpTables /\ UpSpans /\ UpTurns /\ UpMetrics /\ UpRollup
  BY DEF UpBase
<1>1. Advances /\ at' = 16 /\ Duck'
  BY <1>0, InitFrame DEF Advances, Duck
<1>2. "traces" \in DOMAIN db /\ "llm_metrics" \in DOMAIN db
  BY <1>0 DEF UpTables
<1>3. db' = SetRows("traces", Resettled(db["traces"].rows))
  <2>1. db' = After(DuckScript[15])
    BY <1>0, InitFrame
  <2> QED  BY <2>1, DuckStatements, AfterOthers
<1>4. UpFile' /\ Refills("traces", Resettled(db["traces"].rows))
  BY <1>0, <1>3, SetRowsRefills
<1>5. KeepsHistory /\ \A r \in db'["traces"].rows : r.status \in FinalStatus
  BY <1>0, <1>2, <1>4, RewriteKeepsHistory
<1>6. DOMAIN db' = DOMAIN db /\ (\A t \in DOMAIN db \ {"traces"} : db'[t] = db[t]) /\ db'["traces"].cols = db["traces"].cols
  BY <1>2, <1>4 DEF Refills
<1>7. Stable
  <2> SUFFICES ASSUME Migrated PROVE db' = db
    BY DEF Stable
  <2> PICK rows : rows = db["traces"].rows
    OBVIOUS
  <2>1. rows \in SUBSET TurnRows /\ \A r \in rows : r.status \in FinalStatus
    BY <1>0, <1>2 DEF Migrated, UpRows, TurnTables
  <2>2. Resettled(rows) = rows
    BY <2>1, ResettledRows
  <2>3. SetRows("traces", rows) = db
    BY <1>0, <1>2, SetRowsSame
  <2> QED  BY <1>3, <2>2, <2>3
<1>8. UpSpans'
  <2>1. SpanCols = 2 /\ SpanCols' = 2
    BY <1>1 DEF SpanCols
  <2>2. \A t \in CallTables \intersect DOMAIN db' : t \in DOMAIN db /\ db'[t] = db[t]
    BY <1>6 DEF CallTables
  <2> HIDE DEF Prefix
  <2> QED  BY <1>0, <1>1, <2>1, <2>2 DEF UpSpans, Advances, CallTables
<1>9. UpTurns'
  <2>1. TurnCols = 4 /\ TurnCols' = 4
    BY <1>1 DEF TurnCols
  <2>2. "agent_turns" \in DOMAIN db' => "agent_turns" \in DOMAIN db /\ db'["agent_turns"] = db["agent_turns"]
    BY <1>6
  <2> HIDE DEF Prefix
  <2> QED  BY <1>0, <1>1, <1>2, <1>5, <1>6, <2>1, <2>2 DEF UpTurns, Advances
<1> QED  BY <1>2, <1>4, <1>5, <1>6, <1>7, <1>8, <1>9, LateKeeps

\* The appended columns of spans: each statement finds the ones before it.
LEMMA SpanColumnsKeep ==
  ASSUME UpBase, InitStatement, Duck, at \in {16, 17, 18, 19, 20, 24}
  PROVE  UpBase' /\ KeepsHistory /\ Stable
<1>0. UpType /\ UpFile /\ UpRows /\ UpNames /\ UpTables /\ UpSpans /\ UpTurns /\ UpMetrics /\ UpRollup
  BY DEF UpBase
<1>1. Advances /\ at' = at + 1 /\ Duck'
  BY <1>0, InitFrame DEF Advances, Duck
<1>2. PICK j \in 3..8 : j = (IF at = 24 THEN 8 ELSE at - 13) /\ db' = With("spans", CREATE_LLM_CALLS[j])
  <2>1. db' = After(DuckScript[at])
    BY <1>0, InitFrame
  <2>2. \E j \in 3..8 : j = (IF at = 24 THEN 8 ELSE at - 13) /\ DuckScript[at] = Add("spans", CREATE_LLM_CALLS[j])
    <3>1. CASE at = 16
      <4>1. DuckScript[at] = Add("spans", CREATE_LLM_CALLS[3])
        BY <3>1, DuckAdds, ColumnsDiffer
      <4> QED  BY <3>1, <4>1
    <3>2. CASE at = 17
      <4>1. DuckScript[at] = Add("spans", CREATE_LLM_CALLS[4])
        BY <3>2, DuckAdds, ColumnsDiffer
      <4> QED  BY <3>2, <4>1
    <3>3. CASE at = 18
      <4>1. DuckScript[at] = Add("spans", CREATE_LLM_CALLS[5])
        BY <3>3, DuckAdds, ColumnsDiffer
      <4> QED  BY <3>3, <4>1
    <3>4. CASE at = 19
      <4>1. DuckScript[at] = Add("spans", CREATE_LLM_CALLS[6])
        BY <3>4, DuckAdds, ColumnsDiffer
      <4> QED  BY <3>4, <4>1
    <3>5. CASE at = 20
      <4>1. DuckScript[at] = Add("spans", CREATE_LLM_CALLS[7])
        BY <3>5, DuckAdds, ColumnsDiffer
      <4> QED  BY <3>5, <4>1
    <3>6. CASE at = 24
      <4>1. DuckScript[at] = Add("spans", CREATE_LLM_CALLS[8])
        BY <3>6, DuckAdds, ColumnsDiffer
      <4> QED  BY <3>6, <4>1
    <3> QED  BY <3>1, <3>2, <3>3, <3>4, <3>5, <3>6
  <2> QED  BY <2>1, <2>2, AfterAdd
<1>3. "spans" \in DOMAIN db /\ "llm_metrics" \in DOMAIN db
  BY <1>0 DEF UpTables
<1>4. PICK c : c = CREATE_LLM_CALLS[j]
  OBVIOUS
<1>5. /\ UpFile' /\ KeepsHistory /\ DOMAIN db' = DOMAIN db
      /\ \A t \in DOMAIN db : db'[t].rows = db[t].rows /\ (t # "spans" => db'[t] = db[t])
      /\ c \in Range(db["spans"].cols) => db' = db
      /\ c \notin Range(db["spans"].cols) => db'["spans"].cols = Append(db["spans"].cols, c)
  BY <1>0, <1>2, <1>3, <1>4, WithEffect
<1>6. Stable
  <2> SUFFICES ASSUME Migrated PROVE c \in Range(db["spans"].cols)
    BY <1>5 DEF Stable
  <2>1. db["spans"].cols = CREATE_LLM_CALLS
    BY WholePrefix DEF Migrated
  <2>2. DOMAIN CREATE_LLM_CALLS = 1..8
    BY DEF CREATE_LLM_CALLS
  <2> QED  BY <1>4, <2>1, <2>2 DEF Range
<1>7. UpSpans'
  <2>1. SpanCols = j - 1 /\ SpanCols' = j
    BY <1>1, <1>2 DEF SpanCols
  <2> SUFFICES ASSUME ~misses'
               PROVE  /\ "llm_calls" \in DOMAIN db' => \E k \in 2..8 : db'["llm_calls"].cols = Prefix(CREATE_LLM_CALLS, k)
                      /\ \E k \in j..8 : db'["spans"].cols = Prefix(CREATE_LLM_CALLS, k)
    BY <1>1, <2>1 DEF UpSpans
  <2>2. ~misses
    BY <1>1 DEF Advances
  <2>3. "llm_calls" \in DOMAIN db' => \E k \in 2..8 : db'["llm_calls"].cols = Prefix(CREATE_LLM_CALLS, k)
    BY <1>0, <1>5, <2>2 DEF UpSpans
  <2>4. PICK k \in (j - 1)..8 : db["spans"].cols = Prefix(CREATE_LLM_CALLS, k)
    BY <1>0, <1>3, <2>1, <2>2 DEF UpSpans
  <2>5. /\ c \in Range(Prefix(CREATE_LLM_CALLS, k)) => k >= j
        /\ c \notin Range(Prefix(CREATE_LLM_CALLS, k)) => Append(Prefix(CREATE_LLM_CALLS, k), c) = Prefix(CREATE_LLM_CALLS, j)
    <3>1. k \in 0..8 /\ j \in 1..8 /\ k >= j - 1 /\ 8 \in Nat
      OBVIOUS
    <3>2. \A x \in 1..8, y \in 1..8 : CREATE_LLM_CALLS[x] = CREATE_LLM_CALLS[y] => x = y
      BY ColumnsDiffer
    <3> QED  BY ONLY <1>4, <3>1, <3>2, AddToPrefix
  <2>6. \E i \in j..8 : db'["spans"].cols = Prefix(CREATE_LLM_CALLS, i)
    <3>1. CASE c \in Range(db["spans"].cols)
      <4>1. k \in j..8 /\ db'["spans"].cols = Prefix(CREATE_LLM_CALLS, k)
        BY <1>5, <2>4, <2>5, <3>1
      <4> QED  BY <4>1
    <3>2. CASE c \notin Range(db["spans"].cols)
      <4>1. j \in j..8 /\ db'["spans"].cols = Prefix(CREATE_LLM_CALLS, j)
        BY <1>5, <2>4, <2>5, <3>2
      <4> QED  BY <4>1
    <3> QED  BY <3>1, <3>2
  <2> QED  BY <2>3, <2>6
<1>8. UpTurns'
  <2>1. TurnCols' = TurnCols
    BY <1>1 DEF TurnCols
  <2>2. \A t \in TurnTables \intersect DOMAIN db' : t \in DOMAIN db /\ db'[t] = db[t]
    BY <1>5 DEF TurnTables
  <2>3. "traces" \in DOMAIN db
    BY <1>0 DEF UpTables
  <2>4. at > 15 /\ at' > 15 /\ ~(at <= 3) /\ ~(at' <= 3) /\ misses' = misses
    BY <1>1 DEF Advances
  <2>5. db'["traces"] = db["traces"] /\ "traces" \in DOMAIN db'
    BY <1>5, <2>2, <2>3 DEF TurnTables
  <2>6. "agent_turns" \in DOMAIN db' => "agent_turns" \in DOMAIN db /\ db'["agent_turns"] = db["agent_turns"]
    BY <2>2 DEF TurnTables
  <2> HIDE DEF Prefix
  <2> QED  BY ONLY <1>0, <1>1, Duck, <2>1, <2>3, <2>4, <2>5, <2>6 DEF UpTurns
<1>9. at \in 15..24
  OBVIOUS
<1>10. db'["llm_metrics"].cols = db["llm_metrics"].cols
  BY <1>3, <1>5
<1> QED  BY <1>5, <1>6, <1>7, <1>8, <1>9, <1>10, LateKeeps

\* The appended columns of traces.
LEMMA TurnColumnsKeep ==
  ASSUME UpBase, InitStatement, Duck, at \in {21, 22}
  PROVE  UpBase' /\ KeepsHistory /\ Stable
<1>0. UpType /\ UpFile /\ UpRows /\ UpNames /\ UpTables /\ UpSpans /\ UpTurns /\ UpMetrics /\ UpRollup
  BY DEF UpBase
<1>1. Advances /\ at' = at + 1 /\ Duck'
  BY <1>0, InitFrame DEF Advances, Duck
<1>2. PICK j \in 5..6 : j = at - 16 /\ db' = With("traces", CREATE_LLM_TURNS[j])
  <2>1. db' = After(DuckScript[at])
    BY <1>0, InitFrame
  <2>2. CASE at = 21
    <3>1. DuckScript[at] = Add("traces", CREATE_LLM_TURNS[5])
      BY <2>2, DuckAdds, ColumnsDiffer
    <3> QED  BY <2>1, <2>2, <3>1, AfterAdd
  <2>3. CASE at = 22
    <3>1. DuckScript[at] = Add("traces", CREATE_LLM_TURNS[6])
      BY <2>3, DuckAdds, ColumnsDiffer
    <3> QED  BY <2>1, <2>3, <3>1, AfterAdd
  <2> QED  BY <2>2, <2>3
<1>3. "traces" \in DOMAIN db /\ "llm_metrics" \in DOMAIN db
  BY <1>0 DEF UpTables
<1>4. PICK c : c = CREATE_LLM_TURNS[j]
  OBVIOUS
<1>5. /\ UpFile' /\ KeepsHistory /\ DOMAIN db' = DOMAIN db
      /\ \A t \in DOMAIN db : db'[t].rows = db[t].rows /\ (t # "traces" => db'[t] = db[t])
      /\ c \in Range(db["traces"].cols) => db' = db
      /\ c \notin Range(db["traces"].cols) => db'["traces"].cols = Append(db["traces"].cols, c)
  BY <1>0, <1>2, <1>3, <1>4, WithEffect
<1>6. Stable
  <2> SUFFICES ASSUME Migrated PROVE c \in Range(db["traces"].cols)
    BY <1>5 DEF Stable
  <2>1. db["traces"].cols = CREATE_LLM_TURNS
    BY WholePrefix DEF Migrated
  <2>2. DOMAIN CREATE_LLM_TURNS = 1..6
    BY DEF CREATE_LLM_TURNS
  <2> QED  BY <1>4, <2>1, <2>2 DEF Range
<1>7. UpTurns'
  <2>1. TurnCols = j - 1 /\ TurnCols' = j /\ ~(at <= 3) /\ at > 15
    BY <1>1, <1>2 DEF TurnCols
  <2> SUFFICES ASSUME ~misses'
               PROVE  /\ "agent_turns" \in DOMAIN db' => \E k \in 4..6 : db'["agent_turns"].cols = Prefix(OldTurnCols, k)
                      /\ \E k \in 4..6 : k >= j /\ db'["traces"].cols = Prefix(CREATE_LLM_TURNS, k)
                      /\ \A r \in db'["traces"].rows : r.status \in FinalStatus
    BY <1>1, <2>1 DEF UpTurns
  <2>2. ~misses
    BY <1>1 DEF Advances
  <2>3. "agent_turns" \in DOMAIN db' => \E k \in 4..6 : db'["agent_turns"].cols = Prefix(OldTurnCols, k)
    BY <1>0, <1>5, <2>2 DEF UpTurns
  <2>4. PICK k \in 4..6 : k >= j - 1 /\ db["traces"].cols = Prefix(CREATE_LLM_TURNS, k)
    BY <1>0, <1>3, <2>1, <2>2 DEF UpTurns
  <2>5. /\ c \in Range(Prefix(CREATE_LLM_TURNS, k)) => k >= j
        /\ c \notin Range(Prefix(CREATE_LLM_TURNS, k)) => Append(Prefix(CREATE_LLM_TURNS, k), c) = Prefix(CREATE_LLM_TURNS, j)
    <3>1. k \in 0..6 /\ j \in 1..6 /\ k >= j - 1 /\ 6 \in Nat
      BY <2>4
    <3>2. \A x \in 1..6, y \in 1..6 : CREATE_LLM_TURNS[x] = CREATE_LLM_TURNS[y] => x = y
      BY ColumnsDiffer
    <3> QED  BY ONLY <1>4, <3>1, <3>2, AddToPrefix
  <2>6. \E i \in 4..6 : i >= j /\ db'["traces"].cols = Prefix(CREATE_LLM_TURNS, i)
    <3>1. CASE c \in Range(db["traces"].cols)
      <4>1. k \in 4..6 /\ k >= j /\ db'["traces"].cols = Prefix(CREATE_LLM_TURNS, k)
        BY <1>5, <2>4, <2>5, <3>1
      <4> QED  BY <4>1
    <3>2. CASE c \notin Range(db["traces"].cols)
      <4>1. j \in 4..6 /\ j >= j /\ db'["traces"].cols = Prefix(CREATE_LLM_TURNS, j)
        BY <1>5, <2>4, <2>5, <3>2
      <4> QED  BY <4>1
    <3> QED  BY <3>1, <3>2
  <2>7. \A r \in db'["traces"].rows : r.status \in FinalStatus
    BY <1>0, <1>3, <1>5, <2>1, <2>2 DEF UpTurns
  <2> QED  BY <2>3, <2>6, <2>7
<1>8. UpSpans'
  <2>1. SpanCols' = SpanCols
    BY <1>1 DEF SpanCols
  <2>2. "llm_calls" \in DOMAIN db' => "llm_calls" \in DOMAIN db /\ db'["llm_calls"] = db["llm_calls"]
    BY <1>5
  <2>3. "spans" \in DOMAIN db' => "spans" \in DOMAIN db /\ db'["spans"] = db["spans"]
    BY <1>5
  <2>4. misses' = misses
    BY <1>1 DEF Advances
  <2> HIDE DEF Prefix
  <2> QED  BY ONLY <1>0, <1>1, Duck, <2>1, <2>2, <2>3, <2>4 DEF UpSpans
<1>9. at \in 15..24
  OBVIOUS
<1>10. db'["llm_metrics"].cols = db["llm_metrics"].cols
  BY <1>3, <1>5
<1> QED  BY <1>5, <1>6, <1>7, <1>8, <1>9, <1>10, LateKeeps

\* The tool_surface of llm_metrics: the rebuilt table has it.
LEMMA MetricColumnKeeps ==
  ASSUME UpBase, InitStatement, Duck, at = 23
  PROVE  UpBase' /\ KeepsHistory /\ Stable
<1>0. UpType /\ UpFile /\ UpRows /\ UpNames /\ UpTables /\ UpSpans /\ UpTurns /\ UpMetrics /\ UpRollup
  BY DEF UpBase
<1>1. Advances /\ at' = 24 /\ Duck'
  BY <1>0, InitFrame DEF Advances, Duck
<1>2. db' = With("llm_metrics", "tool_surface")
  <2>1. db' = After(DuckScript[23])
    BY <1>0, InitFrame
  <2> QED  BY <2>1, DuckAdds, AfterAdd
<1>3. "traces" \in DOMAIN db /\ "llm_metrics" \in DOMAIN db
  BY <1>0 DEF UpTables
<1>5. /\ UpFile' /\ KeepsHistory /\ DOMAIN db' = DOMAIN db
      /\ \A t \in DOMAIN db : db'[t].rows = db[t].rows /\ (t # "llm_metrics" => db'[t] = db[t])
      /\ "tool_surface" \in Range(db["llm_metrics"].cols) => db' = db
  BY <1>0, <1>2, <1>3, WithEffect
<1>6. Stable
  BY <1>5, RollupLayouts, WholePrefix DEF Stable, Migrated
<1>7. UpTurns'
  <2>1. TurnCols' = TurnCols /\ ~(at <= 3) /\ ~(at' <= 3) /\ at > 15 /\ at' > 15 /\ misses' = misses
    BY <1>1 DEF TurnCols, Advances
  <2>2. "agent_turns" \in DOMAIN db' => "agent_turns" \in DOMAIN db /\ db'["agent_turns"] = db["agent_turns"]
    BY <1>5
  <2>3. db'["traces"] = db["traces"]
    BY <1>3, <1>5
  <2> HIDE DEF Prefix
  <2> QED  BY ONLY <1>0, <1>1, <1>3, Duck, <2>1, <2>2, <2>3 DEF UpTurns
<1>8. UpSpans'
  <2>1. SpanCols' = SpanCols
    BY <1>1 DEF SpanCols
  <2>2. "llm_calls" \in DOMAIN db' => "llm_calls" \in DOMAIN db /\ db'["llm_calls"] = db["llm_calls"]
    BY <1>5
  <2>3. "spans" \in DOMAIN db' => "spans" \in DOMAIN db /\ db'["spans"] = db["spans"]
    BY <1>5
  <2>4. misses' = misses
    BY <1>1 DEF Advances
  <2> HIDE DEF Prefix
  <2> QED  BY ONLY <1>0, <1>1, Duck, <2>1, <2>2, <2>3, <2>4 DEF UpSpans
<1>10. ~misses => db'["llm_metrics"].cols = db["llm_metrics"].cols
  <2>1. ~misses => db["llm_metrics"].cols = CREATE_LLM_METRICS
    BY <1>0, <1>3 DEF UpMetrics
  <2> QED  BY <1>5, <2>1, RollupLayouts
<1> QED  BY <1>5, <1>6, <1>7, <1>8, <1>10, LateKeeps

LEMMA RangeOfAppend ==
  ASSUME NEW S, NEW s \in Seq(S), NEW c \in S
  PROVE  c \in Range(Append(s, c))
<1>1. Append(s, c) \in Seq(S) /\ Len(Append(s, c)) = Len(s) + 1 /\ Append(s, c)[Len(s) + 1] = c
  BY AppendProperties
<1>2. Len(s) + 1 \in DOMAIN Append(s, c)
  BY <1>1, LenProperties
<1> QED  BY <1>1, <1>2 DEF Range

\* ClickHouse's one migration: the table that is there gets its last column.
LEMMA KindColumnKeeps ==
  ASSUME UpBase, InitStatement, ~Duck, at = 4
  PROVE  UpBase' /\ KeepsHistory /\ Stable
<1>0. UpType /\ UpFile /\ UpRows /\ UpNames /\ UpTables /\ UpSpans /\ UpTurns /\ UpMetrics /\ UpRollup
  BY DEF UpBase
<1>1. Advances /\ at' = 5 /\ ~Duck' /\ filling' = filling /\ UpType'
  BY <1>0, InitFrame DEF Advances, Duck
<1>2. db' = IF "spans" \in DOMAIN db THEN With("spans", "kind") ELSE db
  <2>1. db' = After(ChScript[4])
    BY <1>0, InitFrame
  <2> QED  BY <2>1, ChStatements, AfterOthers
<1>3. /\ UpFile' /\ KeepsHistory /\ DOMAIN db' = DOMAIN db
      /\ \A t \in DOMAIN db : db'[t].rows = db[t].rows /\ (t # "spans" => db'[t] = db[t])
      /\ "spans" \in DOMAIN db => "kind" \in Range(db'["spans"].cols)
      /\ Stable
  <2>1. CASE "spans" \in DOMAIN db
    <3>1. db' = With("spans", "kind")
      BY <1>2, <2>1
    <3>2. /\ UpFile' /\ KeepsHistory /\ DOMAIN db' = DOMAIN db
          /\ \A t \in DOMAIN db : db'[t].rows = db[t].rows /\ (t # "spans" => db'[t] = db[t])
          /\ "kind" \in Range(db["spans"].cols) => db' = db
          /\ "kind" \notin Range(db["spans"].cols) => db'["spans"].cols = Append(db["spans"].cols, "kind")
      BY <1>0, <2>1, <3>1, WithEffect
    <3>3. "kind" \in Range(db'["spans"].cols)
      <4>1. CASE "kind" \in Range(db["spans"].cols)
        BY <3>2, <4>1
      <4>2. CASE "kind" \notin Range(db["spans"].cols)
        <5>1. PICK k \in 2..8 : db["spans"].cols = Prefix(CREATE_LLM_CALLS, k)
          BY <1>0, <2>1, <4>2 DEF UpSpans
        <5>2. PICK S : S = Range(CREATE_LLM_CALLS) \union {"kind"}
          OBVIOUS
        <5>3. Prefix(CREATE_LLM_CALLS, k) \in Seq(S)
          <6>1. \A i \in 1..k : CREATE_LLM_CALLS[i] \in S
            <7>1. DOMAIN CREATE_LLM_CALLS = 1..8
              BY DEF CREATE_LLM_CALLS
            <7> QED  BY <5>2, <7>1 DEF Range
          <6>2. k \in Nat
            OBVIOUS
          <6> QED  BY <6>1, <6>2 DEF Prefix
        <5>4. "kind" \in S
          BY <5>2
        <5>5. "kind" \in Range(Append(Prefix(CREATE_LLM_CALLS, k), "kind"))
          BY <5>3, <5>4, RangeOfAppend
        <5> QED  BY <3>2, <4>2, <5>1, <5>5
      <4> QED  BY <4>1, <4>2
    <3>4. Stable
      BY <3>2 DEF Stable, Migrated
    <3> QED  BY <3>2, <3>3, <3>4
  <2>2. CASE "spans" \notin DOMAIN db
    <3>1. db' = db
      BY <1>2, <2>2
    <3>2. KeepsHistory
      BY <1>0, <3>1, SameRowsKeepHistory
    <3> QED  BY <1>0, <2>2, <3>1, <3>2 DEF Stable, UpFile
  <2> QED  BY <2>1, <2>2
<1>4. UpNames'
  BY <1>0, <1>1, <1>3 DEF UpNames, Advances
<1>5. UpTables'
  BY <1>1 DEF UpTables
<1>6. UpSpans'
  <2>1. "llm_calls" \in DOMAIN db' => "llm_calls" \in DOMAIN db /\ db'["llm_calls"] = db["llm_calls"]
    BY <1>3
  <2>2. "spans" \in DOMAIN db' => "kind" \in Range(db'["spans"].cols)
    BY <1>3
  <2>3. misses' = misses
    BY <1>1 DEF Advances
  <2> HIDE DEF Prefix
  <2> QED  BY ONLY <1>0, <1>1, <2>1, <2>2, <2>3 DEF UpSpans
<1>7. UpTurns'
  <2>1. \A t \in TurnTables \intersect DOMAIN db' : t \in DOMAIN db /\ db'[t] = db[t]
    BY <1>3 DEF TurnTables
  <2>2. misses' = misses /\ ~(at <= 3)
    BY <1>1 DEF Advances
  <2> HIDE DEF Prefix
  <2> QED  BY <1>0, <1>1, <2>1, <2>2 DEF UpTurns, TurnTables
<1>8. UpMetrics'
  BY <1>0, <1>1, <1>3 DEF UpMetrics
<1>9. UpRollup'
  BY <1>1 DEF UpRollup
<1>10. UpRows'
  BY <1>3 DEF KeepsHistory
<1> QED  BY <1>1, <1>3, <1>4, <1>5, <1>6, <1>7, <1>8, <1>9, <1>10 DEF UpBase

\* Every statement of either script.
LEMMA StatementKeeps ==
  ASSUME UpBase, InitStatement
  PROVE  UpBase' /\ KeepsHistory /\ Stable
<1>0. UpType
  BY DEF UpBase
<1>1. CASE at \in 1..3
  <2>1. at \in {1, 2} \/ at = 3
    BY <1>1
  <2> QED  BY <2>1, RenamesKeep, RenameColumnKeeps
<1>2. CASE Duck /\ at \notin 1..3
  <2>1. at \in 4..24
    BY <1>0, <1>2, InitFrame
  <2>2. CASE at \in {4, 5, 6, 7, 8, 11}
    <3>1. CASE at = 4
      BY <1>2, <3>1, CreatesKeep
    <3>2. CASE at \in {5, 11}
      BY <1>2, <3>2, CreatesKeep
    <3>3. CASE at = 6
      BY <1>2, <3>3, CreatesKeep
    <3>4. CASE at = 7
      BY <1>2, <3>4, CreatesKeep
    <3>5. CASE at = 8
      BY <1>2, <3>5, CreatesKeep
    <3> QED  BY <2>2, <3>1, <3>2, <3>3, <3>4, <3>5
  <2>3. CASE at \in {9, 10}
    BY <1>2, <2>3, RollupStatementsKeep
  <2>4. CASE at \in {12, 13, 14}
    BY <1>2, <2>4, FillingKeeps
  <2>5. CASE at = 15
    BY <1>2, <2>5, RewriteKeeps
  <2>6. CASE at \in {16, 17, 18, 19, 20, 24}
    BY <1>2, <2>6, SpanColumnsKeep
  <2>7. CASE at \in {21, 22}
    BY <1>2, <2>7, TurnColumnsKeep
  <2>8. CASE at = 23
    BY <1>2, <2>8, MetricColumnKeeps
  <2>9. \/ at \in {4, 5, 6, 7, 8, 11} \/ at \in {9, 10} \/ at \in {12, 13, 14} \/ at = 15
        \/ at \in {16, 17, 18, 19, 20, 24} \/ at \in {21, 22} \/ at = 23
    BY <2>1
  <2> QED  BY <2>2, <2>3, <2>4, <2>5, <2>6, <2>7, <2>8, <2>9
<1>3. CASE ~Duck /\ at \notin 1..3
  <2>1. at \in 4..9
    BY <1>0, <1>3, InitFrame
  <2>2. CASE at = 4
    BY <1>3, <2>2, KindColumnKeeps
  <2>3. CASE at = 5
    BY <1>3, <2>3, CreatesKeep
  <2>4. CASE at = 6
    BY <1>3, <2>4, CreatesKeep
  <2>5. CASE at = 7
    BY <1>3, <2>5, CreatesKeep
  <2>6. CASE at = 8
    BY <1>3, <2>6, CreatesKeep
  <2>7. CASE at = 9
    BY <1>3, <2>7, CreatesKeep
  <2>8. at = 4 \/ at = 5 \/ at = 6 \/ at = 7 \/ at = 8 \/ at = 9
    BY <2>1
  <2> QED  BY <2>2, <2>3, <2>4, <2>5, <2>6, <2>7, <2>8
<1> QED  BY <1>1, <1>2, <1>3

\* The process is gone, or has just come up: the file is as it was.
LEMMA DownKeeps ==
  ASSUME UpBase, db' = db, dialect' = dialect, misses' = misses, filling' \in BOOLEAN, cut' \in BOOLEAN,
         at' \in {0, 1}, at' = 1 => ~filling' /\ at = 0, ~Duck => ~cut' /\ ~filling',
         ~cut' => ~cut /\ ~(filling /\ at = 14)
  PROVE  UpBase'
<1>0. UpType /\ UpFile /\ UpRows /\ UpNames /\ UpTables /\ UpSpans /\ UpTurns /\ UpMetrics /\ UpRollup
  BY DEF UpBase
<1>1. (Duck' <=> Duck) /\ Serving' = Serving /\ Serving \in Nat /\ 1 <= Serving /\ StoredCalls' = StoredCalls
  BY ScriptLengths DEF Duck, Serving, Script, StoredCalls
<1>2. UpType'
  <2>1. at' \in 0..Serving'
    BY <1>1
  <2>2. ~(filling' /\ at' # 0)
    OBVIOUS
  <2> QED  BY <1>0, <1>1, <2>1, <2>2 DEF UpType
<1>3. UpFile' /\ UpRows'
  BY <1>0 DEF UpFile, UpRows
<1>4. UpNames'
  BY <1>0 DEF UpNames
<1>5. UpTables'
  BY DEF UpTables
<1>6. UpSpans'
  <2>1. SpanCols' = 2 /\ SpanCols \in 2..8 /\ at' <= 4
    BY <1>0, <1>1, ScriptLengths DEF SpanCols, UpType
  <2>2. Duck /\ ~misses /\ "spans" \in DOMAIN db => \E k \in 2..8 : db["spans"].cols = Prefix(CREATE_LLM_CALLS, k)
    BY <1>0, <2>1 DEF UpSpans
  <2> HIDE DEF Prefix
  <2> QED  BY <1>0, <1>1, <2>1, <2>2 DEF UpSpans
<1>7. UpTurns'
  <2>1. TurnCols' = 4 /\ at' <= 3 /\ ~(at' > 15)
    BY DEF TurnCols
  <2>2. ~misses /\ "traces" \in DOMAIN db =>
          \E k \in 4..6 : db["traces"].cols = Prefix(CREATE_LLM_TURNS, k) \/ db["traces"].cols = Prefix(OldTurnCols, k)
    BY <1>0 DEF UpTurns
  <2> HIDE DEF Prefix
  <2> QED  BY <1>0, <1>1, <2>1, <2>2 DEF UpTurns
<1>8. UpMetrics'
  BY <1>0, <1>1 DEF UpMetrics
<1>9. UpRollup'
  <2>1. at' # 14 /\ ~(at' > 12) /\ (at' # 0 => ~filling') /\ Rollup' = Rollup /\ Rebuilt' = Rebuilt
    BY DEF Rollup, Rebuilt
  <2> SUFFICES ASSUME (Duck /\ ~misses /\ ~cut /\ "llm_metrics" \in DOMAIN db)'
               PROVE  db["llm_metrics"].rows \in {{}, Rollup, Rebuilt} /\ (db["llm_metrics"].rows # {} => StoredCalls = History)
    BY <1>1, <2>1 DEF UpRollup
  <2> QED  BY <1>0, <1>1 DEF UpRollup
<1> QED  BY <1>2, <1>3, <1>4, <1>5, <1>6, <1>7, <1>8, <1>9 DEF UpBase

\* A statement that fails: fatal ones take the process down, the others are
\* skipped, which only DuckDB's migrations are.
LEMMA FailureKeeps ==
  ASSUME UpBase, StatementFails
  PROVE  UpBase' /\ db' = db /\ (at' = 0 \/ misses')
<1>0. UpType /\ UpFile /\ UpRows /\ UpNames /\ UpTables /\ UpSpans /\ UpTurns /\ UpMetrics /\ UpRollup
  BY DEF UpBase
<1>1. dialect' = dialect /\ db' = db /\ filling' = filling /\ cut' = cut
  BY DEF StatementFails
<1>2. CASE Fatal(Script[at])
  <2>1. at' = 0 /\ misses' = misses
    BY <1>2 DEF StatementFails
  <2>2. ~(filling /\ at = 14)
    <3> SUFFICES ASSUME filling, at = 14 PROVE FALSE
      OBVIOUS
    <3>1. Duck
      BY <1>0 DEF UpType
    <3>2. Script[at] = [op |-> "backfill", gran |-> "1m"]
      BY <3>1, DuckStatements DEF Script, Duck
    <3> QED  BY <1>2, <3>1, <3>2 DEF Fatal, Duck
  <2>3. filling' \in BOOLEAN /\ cut' \in BOOLEAN /\ (~Duck => ~cut' /\ ~filling')
    BY <1>0, <1>1 DEF UpType
  <2> QED  BY <1>1, <2>1, <2>2, <2>3, DownKeeps
<1>3. CASE ~Fatal(Script[at])
  <2>1. at' = at + 1 /\ misses' = TRUE
    BY <1>3 DEF StatementFails
  <2>2. Duck /\ Duck' /\ Script = DuckScript /\ Script' = DuckScript
    <3>1. dialect = "duckdb"
      BY <1>0, <1>3 DEF Fatal, UpType
    <3> QED  BY <1>1, <3>1 DEF Duck, Script
  <2>3. at \in 1..24 /\ at' \in 2..25 /\ Serving' = 25
    BY <2>1, <2>2, ScriptLengths DEF StatementFails, Serving
  <2>4. DuckScript[at].op \notin {"create", "drop_misordered"}
    BY <1>3, <2>2 DEF Fatal
  <2>5. at \notin {4, 5, 6, 7, 8, 10, 11}
    BY <2>4, DuckStatements DEF Create
  <2>6. UpTables'
    BY <1>0, <1>1, <2>1, <2>2, <2>3, <2>5 DEF UpTables
  <2>7. UpType'
    <3>1. at' \in 0..Serving' /\ misses' \in BOOLEAN
      BY <2>1, <2>3
    <3>2. filling' => at' > 12
      <4> SUFFICES ASSUME filling PROVE at' > 12
        BY <1>1
      <4>1. at > 12
        BY <1>0, <2>3 DEF UpType
      <4> QED  BY <2>1, <2>3, <4>1
    <3> QED  BY <1>0, <1>1, <2>2, <3>1, <3>2 DEF UpType
  <2>8. UpFile' /\ UpRows'
    BY <1>0, <1>1 DEF UpFile, UpRows
  <2>9. UpNames' /\ UpSpans' /\ UpTurns'
    BY <2>1, <2>2 DEF UpNames, UpSpans, UpTurns
  <2>10. UpMetrics' /\ UpRollup'
    BY <1>0, <1>1, <2>1 DEF UpMetrics, UpRollup
  <2> QED  BY <1>1, <2>1, <2>6, <2>7, <2>8, <2>9, <2>10 DEF UpBase
<1> QED  BY <1>2, <1>3

LEMMA CrashKeeps ==
  ASSUME UpBase, Crash
  PROVE  UpBase' /\ db' = db
<1>0. UpType /\ UpTables
  BY DEF UpBase
<1>1. dialect' = dialect /\ db' = db /\ filling' = filling /\ misses' = misses /\ at' = 0
      /\ cut' = (cut \/ (at \in 1..Len(Script) /\ filling))
  BY DEF Crash
<1>2. filling' \in BOOLEAN /\ cut' \in BOOLEAN /\ (~Duck => ~cut' /\ ~filling')
  BY <1>0, <1>1 DEF UpType
<1>3. ~cut' => ~cut /\ ~(filling /\ at = 14)
  <2> SUFFICES ASSUME ~cut', filling, at = 14 PROVE FALSE
    BY <1>1
  <2>1. Duck
    BY <1>0 DEF UpType
  <2>2. at \in 1..Len(Script)
    <3>1. Script = DuckScript
      BY <2>1 DEF Script, Duck
    <3>2. Len(Script) = 24
      BY <3>1, ScriptLengths
    <3> QED  BY <3>2
  <2> QED  BY <1>1, <2>2
<1> QED  BY <1>1, <1>2, <1>3, DownKeeps

LEMMA OpenUpKeeps ==
  ASSUME UpBase, open_with_pool
  PROVE  UpBase' /\ db' = db
<1>0. UpType
  BY DEF UpBase
<1>1. /\ dialect' = dialect /\ db' = db /\ filling' = FALSE /\ misses' = misses /\ cut' = cut /\ at = 0 /\ at' = 1
  BY DEF open_with_pool
<1>2. cut' \in BOOLEAN /\ (~Duck => ~cut') /\ (~cut' => ~cut /\ ~(filling /\ at = 14))
  BY <1>0, <1>1 DEF UpType
<1> QED  BY <1>1, <1>2, DownKeeps

LEMMA OldTurnRows == OldTurns \in SUBSET TurnRows
<1> PICK st : st = <<"complete", "length", "failed">>
  OBVIOUS
<1>1. DOMAIN st = 1..3 /\ st[1] = "complete" /\ st[2] = "length" /\ st[3] = "failed"
  OBVIOUS
<1>2. \A i \in 1..3 : [turn |-> i, status |-> st[i]] \in TurnRows
  BY <1>1 DEF TurnRows
<1>3. OldTurns = {[turn |-> i, status |-> st[i]] : i \in 1..3}
  BY <1>1 DEF OldTurns, Rows
<1> QED  BY <1>2, <1>3

\* The files of earlier releases.
NoFile == [t \in {} |-> {}]
FirstFile ==
  [agent_turns |-> Table(<<"turn_id", "status", "call_ids", "metadata">>, OldTurns),
   llm_calls   |-> Table(<<"id", "bodies">>, History),
   llm_metrics |-> Table(FirstRollup, Rollup)]
SecondFile ==
  [agent_turns |-> Table(<<"turn_id", "status", "call_ids", "metadata", "tool_surfaces_json">>, OldTurns),
   llm_calls   |-> Table(<<"id", "bodies", "is_agent_request", "tool_surface">>, History),
   llm_metrics |-> Table(ThirdRollup, Rollup)]
ThirdFile ==
  [agent_turns |-> Table(OldTurnCols, OldTurns),
   llm_calls   |-> Table(<<"id", "bodies", "is_agent_request", "tool_surface", "body_bytes_dropped">>, History),
   llm_metrics |-> Table(CREATE_LLM_METRICS, Rollup)]
Current(tabs) ==
  [t \in tabs |-> Table(Canonical[t], CASE t = "spans" -> History [] t = "traces" -> OldTurns
                                        [] t = "llm_metrics" -> Rollup [] OTHER -> {})]

LEMMA LegacyCases ==
  ASSUME NEW f \in LegacyFiles
  PROVE  \/ f = NoFile \/ f = FirstFile \/ f = SecondFile \/ f = ThirdFile
         \/ f = Current({"spans", "traces", "llm_metrics", "llm_finish_metrics", "http_exchanges"})
         \/ f = Current({"spans", "traces", "llm_finish_metrics", "http_exchanges"})
<1>1. \A t \in {"spans", "traces", "llm_finish_metrics", "http_exchanges"} :
        Table(Canonical[t], CASE t = "spans" -> History [] t = "traces" -> OldTurns [] OTHER -> {})
          = Table(Canonical[t], CASE t = "spans" -> History [] t = "traces" -> OldTurns
                                  [] t = "llm_metrics" -> Rollup [] OTHER -> {})
  OBVIOUS
<1> QED
  BY <1>1 DEF LegacyFiles, NoFile, FirstFile, SecondFile, ThirdFile, Current, FirstRollup, ThirdRollup, OldTurnCols

LEMMA LegacyPrefixes ==
  /\ <<"turn_id", "status", "call_ids", "metadata">> = Prefix(OldTurnCols, 4)
  /\ <<"turn_id", "status", "call_ids", "metadata", "tool_surfaces_json">> = Prefix(OldTurnCols, 5)
  /\ OldTurnCols = Prefix(OldTurnCols, 6)
  /\ <<"id", "bodies">> = Prefix(CREATE_LLM_CALLS, 2)
  /\ <<"id", "bodies", "is_agent_request", "tool_surface">> = Prefix(CREATE_LLM_CALLS, 4)
  /\ <<"id", "bodies", "is_agent_request", "tool_surface", "body_bytes_dropped">> = Prefix(CREATE_LLM_CALLS, 5)
<1>1. <<"turn_id", "status", "call_ids", "metadata">> = Prefix(OldTurnCols, 4)
  BY DEF Prefix, OldTurnCols
<1>2. <<"turn_id", "status", "call_ids", "metadata", "tool_surfaces_json">> = Prefix(OldTurnCols, 5)
  BY DEF Prefix, OldTurnCols
<1>3. OldTurnCols = Prefix(OldTurnCols, 6)
  BY DEF Prefix, OldTurnCols
<1>4. <<"id", "bodies">> = Prefix(CREATE_LLM_CALLS, 2)
  BY DEF Prefix, CREATE_LLM_CALLS
<1>5. <<"id", "bodies", "is_agent_request", "tool_surface">> = Prefix(CREATE_LLM_CALLS, 4)
  BY DEF Prefix, CREATE_LLM_CALLS
<1>6. <<"id", "bodies", "is_agent_request", "tool_surface", "body_bytes_dropped">> = Prefix(CREATE_LLM_CALLS, 5)
  BY DEF Prefix, CREATE_LLM_CALLS
<1> QED  BY <1>1, <1>2, <1>3, <1>4, <1>5, <1>6

\* What they have in common.
Legacy(f) ==
  /\ f = [t \in DOMAIN f |-> f[t]] /\ DOMAIN f \subseteq FileTables
  /\ \A t \in DOMAIN f : f[t] = Table(f[t].cols, f[t].rows)
  /\ ~(CallTables \subseteq DOMAIN f) /\ ~(TurnTables \subseteq DOMAIN f)
  /\ \A t \in CallTables \intersect DOMAIN f :
       f[t].rows = History /\ \E k \in 2..8 : f[t].cols = Prefix(CREATE_LLM_CALLS, k)
  /\ \A t \in TurnTables \intersect DOMAIN f : f[t].rows = OldTurns
  /\ "agent_turns" \in DOMAIN f => \E k \in 4..6 : f["agent_turns"].cols = Prefix(OldTurnCols, k)
  /\ "traces" \in DOMAIN f => f["traces"].cols = CREATE_LLM_TURNS
  /\ "llm_metrics" \in DOMAIN f => /\ f["llm_metrics"].rows = Rollup /\ f["llm_metrics"].cols \in MetricLayouts
                                   /\ CallTables \intersect DOMAIN f # {}
  /\ \A t \in {"llm_finish_metrics", "http_exchanges"} \intersect DOMAIN f : f[t].cols = Canonical[t]

LEMMA OldFile ==
  ASSUME NEW f, NEW kt \in 4..6, NEW kc \in 2..8, NEW tc, NEW cc, NEW mc \in MetricLayouts,
         tc = Prefix(OldTurnCols, kt), cc = Prefix(CREATE_LLM_CALLS, kc),
         f = [agent_turns |-> Table(tc, OldTurns), llm_calls |-> Table(cc, History), llm_metrics |-> Table(mc, Rollup)]
  PROVE  Legacy(f)
<1>1. /\ DOMAIN f = {"agent_turns", "llm_calls", "llm_metrics"} /\ f["agent_turns"] = Table(tc, OldTurns)
      /\ f["llm_calls"] = Table(cc, History) /\ f["llm_metrics"] = Table(mc, Rollup) /\ f = [t \in DOMAIN f |-> f[t]]
  OBVIOUS
<1>2. /\ f["agent_turns"].cols = tc /\ f["agent_turns"].rows = OldTurns
      /\ f["llm_calls"].cols = cc /\ f["llm_calls"].rows = History
      /\ f["llm_metrics"].cols = mc /\ f["llm_metrics"].rows = Rollup
  BY <1>1 DEF Table
<1>3. DOMAIN f \subseteq FileTables /\ ~(CallTables \subseteq DOMAIN f) /\ ~(TurnTables \subseteq DOMAIN f)
      /\ CallTables \intersect DOMAIN f = {"llm_calls"} /\ TurnTables \intersect DOMAIN f = {"agent_turns"}
      /\ {"llm_finish_metrics", "http_exchanges"} \intersect DOMAIN f = {} /\ "traces" \notin DOMAIN f
  BY <1>1 DEF FileTables, CallTables, TurnTables
<1>4. \A t \in DOMAIN f : f[t] = Table(f[t].cols, f[t].rows)
  BY <1>1, <1>2
<1> HIDE DEF Prefix
<1> QED  BY <1>1, <1>2, <1>3, <1>4 DEF Legacy

LEMMA CurrentFile ==
  ASSUME NEW f, NEW tabs,
         \/ tabs = {"spans", "traces", "llm_metrics", "llm_finish_metrics", "http_exchanges"}
         \/ tabs = {"spans", "traces", "llm_finish_metrics", "http_exchanges"},
         f = Current(tabs)
  PROVE  Legacy(f)
<1>1. DOMAIN f = tabs /\ f = [t \in DOMAIN f |-> f[t]]
  BY DEF Current
<1>2. \A t \in tabs : f[t] = Table(Canonical[t], CASE t = "spans" -> History [] t = "traces" -> OldTurns
                                                  [] t = "llm_metrics" -> Rollup [] OTHER -> {})
  BY DEF Current
<1>3. /\ f["spans"] = Table(CREATE_LLM_CALLS, History) /\ f["traces"] = Table(CREATE_LLM_TURNS, OldTurns)
      /\ "llm_metrics" \in tabs => f["llm_metrics"] = Table(CREATE_LLM_METRICS, Rollup)
      /\ \A t \in {"llm_finish_metrics", "http_exchanges"} : f[t] = Table(Canonical[t], {})
  BY <1>2, WholePrefix
<1>4. /\ f["spans"].cols = Prefix(CREATE_LLM_CALLS, 8) /\ f["spans"].rows = History
      /\ f["traces"].cols = CREATE_LLM_TURNS /\ f["traces"].rows = OldTurns
      /\ "llm_metrics" \in tabs => f["llm_metrics"].cols = CREATE_LLM_METRICS /\ f["llm_metrics"].rows = Rollup
      /\ \A t \in {"llm_finish_metrics", "http_exchanges"} : f[t].cols = Canonical[t]
  BY <1>3, WholePrefix DEF Table
<1>5. \A t \in DOMAIN f : f[t] = Table(f[t].cols, f[t].rows)
  BY <1>1, <1>2 DEF Table
<1>6. /\ DOMAIN f \subseteq FileTables /\ ~(CallTables \subseteq DOMAIN f) /\ ~(TurnTables \subseteq DOMAIN f)
      /\ CallTables \intersect DOMAIN f = {"spans"} /\ TurnTables \intersect DOMAIN f = {"traces"}
      /\ "agent_turns" \notin DOMAIN f
  BY <1>1 DEF FileTables, CallTables, TurnTables
<1>7. CREATE_LLM_METRICS \in MetricLayouts /\ 8 \in 2..8
  BY DEF MetricLayouts
<1> HIDE DEF Prefix
<1> QED  BY <1>1, <1>4, <1>5, <1>6, <1>7 DEF Legacy

LEMMA LegacyFacts ==
  ASSUME NEW f \in LegacyFiles
  PROVE  Legacy(f)
<1>1. CASE f = NoFile
  <2>1. DOMAIN f = {} /\ f = [t \in DOMAIN f |-> f[t]]
    BY <1>1 DEF NoFile
  <2> QED  BY <2>1 DEF Legacy, CallTables, TurnTables
<1>2. CASE f = FirstFile
  <2>1. FirstRollup \in MetricLayouts /\ 4 \in 4..6 /\ 2 \in 2..8
    BY DEF MetricLayouts
  <2> QED  BY <1>2, <2>1, LegacyPrefixes, OldFile DEF FirstFile
<1>3. CASE f = SecondFile
  <2>1. ThirdRollup \in MetricLayouts /\ 5 \in 4..6 /\ 4 \in 2..8
    BY DEF MetricLayouts
  <2> QED  BY <1>3, <2>1, LegacyPrefixes, OldFile DEF SecondFile
<1>4. CASE f = ThirdFile
  <2>1. CREATE_LLM_METRICS \in MetricLayouts /\ 6 \in 4..6 /\ 5 \in 2..8
    BY DEF MetricLayouts
  <2> QED  BY <1>4, <2>1, LegacyPrefixes, OldFile DEF ThirdFile
<1>5. CASE f = Current({"spans", "traces", "llm_metrics", "llm_finish_metrics", "http_exchanges"})
  BY <1>5, CurrentFile
<1>6. CASE f = Current({"spans", "traces", "llm_finish_metrics", "http_exchanges"})
  BY <1>6, CurrentFile
<1> QED  BY <1>1, <1>2, <1>3, <1>4, <1>5, <1>6, LegacyCases

LEMMA FileStarts == DuckInit => UpBase /\ UpServed
<1> SUFFICES ASSUME DuckInit PROVE UpBase /\ UpServed
  OBVIOUS
<1>1. /\ dialect \in {"duckdb", "clickhouse"} /\ at = 0 /\ filling = FALSE /\ misses = FALSE /\ cut = FALSE /\ served = Null
      /\ db \in LegacyFiles
  BY DEF DuckInit, ChFiles
<1>2. Legacy(db)
  BY <1>1, LegacyFacts
<1>3. Serving \in Nat /\ Serving # 0
  BY ScriptLengths DEF Serving, Script
<1>4. UpType
  <2>1. at \in 0..Serving
    BY <1>1, <1>3
  <2>2. misses \in BOOLEAN /\ cut \in BOOLEAN /\ filling \in BOOLEAN
    BY <1>1
  <2> QED  BY <1>1, <2>1, <2>2 DEF UpType
<1>5. UpFile
  BY <1>2 DEF Legacy, UpFile
<1>6. UpRows
  BY <1>2, OldTurnRows DEF Legacy, UpRows
<1>7. UpNames
  BY <1>1, <1>2 DEF Legacy, UpNames
<1>8. UpTables
  BY <1>1 DEF UpTables
<1>9. UpSpans
  <2>1. SpanCols = 2
    BY <1>1 DEF SpanCols
  <2>2. \A t \in CallTables \intersect DOMAIN db : \E k \in 2..8 : db[t].cols = Prefix(CREATE_LLM_CALLS, k)
    BY <1>2 DEF Legacy
  <2> HIDE DEF Prefix
  <2> QED  BY <1>1, <2>1, <2>2 DEF UpSpans, CallTables
<1>10. UpTurns
  <2>1. TurnCols = 4 /\ 6 \in 4..6
    BY <1>1 DEF TurnCols
  <2>2. /\ "agent_turns" \in DOMAIN db => \E k \in 4..6 : db["agent_turns"].cols = Prefix(OldTurnCols, k)
        /\ "traces" \in DOMAIN db => db["traces"].cols = Prefix(CREATE_LLM_TURNS, 6)
    BY <1>2, WholePrefix DEF Legacy
  <2> HIDE DEF Prefix
  <2> QED  BY <1>1, <2>1, <2>2 DEF UpTurns
<1>11. UpMetrics
  BY <1>1, <1>2 DEF Legacy, UpMetrics
<1>12. UpRollup
  <2>1. "llm_metrics" \in DOMAIN db => db["llm_metrics"].rows = Rollup /\ StoredCalls = History
    <3> SUFFICES ASSUME "llm_metrics" \in DOMAIN db PROVE db["llm_metrics"].rows = Rollup /\ StoredCalls = History
      OBVIOUS
    <3>1. PICK u \in CallTables \intersect DOMAIN db : db[u].rows = History
      BY <1>2 DEF Legacy
    <3>2. \A t \in CallTables \intersect DOMAIN db : db[t].rows = History
      BY <1>2 DEF Legacy
    <3>3. StoredCalls = History
      BY <3>1, <3>2 DEF StoredCalls, CallTables
    <3> QED  BY <1>2, <3>3 DEF Legacy
  <2> QED  BY <1>1, <2>1 DEF UpRollup
<1>13. UpServed
  BY <1>1, <1>3 DEF UpServed
<1> QED  BY <1>4, <1>5, <1>6, <1>7, <1>8, <1>9, <1>10, <1>11, <1>12, <1>13 DEF UpBase

-----------------------------------------------------------------------------
(* The queries and the swap of the connections leave the file alone. *)

LEMMA ConnectionsApart ==
  ASSUME ConnectionNext
  PROVE  UNCHANGED <<dialect, db, filling, misses, cut, served, at>>
<1>1. CASE \E r \in Readers : acquire_permit(r) \/ ReadStep(r)
  BY <1>1 DEF acquire_permit, ReadStep, acquire_snapshot, acquire_pop, PooledConn_drop, drop_permit, tables
<1>2. CASE Invalidate \/ WriterPanics \/ OpenFails
  BY <1>2 DEF Invalidate, WriterPanics, OpenFails, tables
<1>3. CASE Recovery
  BY <1>3 DEF Recovery, SweepNotices, SwapWriter, replace_all, tables
<1> QED  BY <1>1, <1>2, <1>3 DEF ConnectionNext

LEMMA SameFileKeeps ==
  ASSUME UpBase, UpServed, UNCHANGED <<dialect, db, filling, misses, cut, served, at>>
  PROVE  UpBase' /\ UpServed' /\ StoredCalls' = StoredCalls /\ StoredTurns' = StoredTurns
<1>0. UpType /\ UpFile /\ UpRows /\ UpNames /\ UpTables /\ UpSpans /\ UpTurns /\ UpMetrics /\ UpRollup
  BY DEF UpBase
<1>1. /\ (Duck' <=> Duck) /\ Serving' = Serving /\ StoredCalls' = StoredCalls /\ StoredTurns' = StoredTurns
      /\ SpanCols' = SpanCols /\ TurnCols' = TurnCols /\ Filled' = Filled
  BY DEF Duck, Serving, Script, StoredCalls, StoredTurns, SpanCols, TurnCols, Filled
<1>2. UpType' /\ UpFile' /\ UpRows' /\ UpNames' /\ UpTables'
  BY <1>0, <1>1 DEF UpType, UpFile, UpRows, UpNames, UpTables
<1>3. UpSpans' /\ UpTurns'
  BY <1>0, <1>1 DEF UpSpans, UpTurns
<1>4. UpMetrics' /\ UpRollup'
  BY <1>0, <1>1 DEF UpMetrics, UpRollup
<1>5. UpServed'
  <2>1. Migrated' <=> Migrated
    BY <1>1 DEF Migrated
  <2> QED  BY <1>1, <2>1 DEF UpServed
<1> QED  BY <1>1, <1>2, <1>3, <1>4, <1>5 DEF UpBase

LEMMA ServingAt == (Duck => Serving = 25) /\ (~Duck => Serving = 10)
<1>1. CASE Duck
  <2>1. Script = DuckScript
    BY <1>1 DEF Script, Duck
  <2> QED  BY <1>1, <2>1, ScriptLengths DEF Serving
<1>2. CASE ~Duck
  <2>1. Script = ChScript
    BY <1>2 DEF Script, Duck
  <2> QED  BY <1>2, <2>1, ScriptLengths DEF Serving
<1> QED  BY <1>1, <1>2

\* A file that is served, unless statements were skipped.
LEMMA ServedColumns ==
  ASSUME UpBase, at = Serving, ~misses
  PROVE  /\ DOMAIN Canonical \subseteq DOMAIN db /\ "agent_turns" \notin DOMAIN db /\ "llm_calls" \notin DOMAIN db
         /\ "span_ids" \in Range(db["traces"].cols) /\ "kind" \in Range(db["spans"].cols)
         /\ Duck => /\ \A t \in DOMAIN Canonical : db[t].cols = Canonical[t]
                    /\ \A r \in db["traces"].rows : r.status \in FinalStatus
<1>0. UpType /\ UpNames /\ UpTables /\ UpSpans /\ UpTurns /\ UpMetrics
  BY DEF UpBase
<1>1. (Duck => at = 25) /\ (~Duck => at = 10)
  BY ServingAt
<1>2. DOMAIN Canonical = {"spans", "llm_metrics", "traces", "llm_finish_metrics", "http_exchanges"}
  BY DEF Canonical
<1>3. DOMAIN Canonical \subseteq DOMAIN db
  BY <1>0, <1>1, <1>2 DEF UpTables
<1>4. "agent_turns" \notin DOMAIN db /\ "llm_calls" \notin DOMAIN db
  BY <1>0, <1>1 DEF UpNames
<1>5. "kind" \in Range(CREATE_LLM_CALLS)
  <2>1. CREATE_LLM_CALLS[8] = "kind" /\ 8 \in DOMAIN CREATE_LLM_CALLS
    BY DEF CREATE_LLM_CALLS
  <2> QED  BY <2>1 DEF Range
<1>6. \A k \in 4..6 : "span_ids" \in Range(Prefix(CREATE_LLM_TURNS, k))
  <2> TAKE k \in 4..6
  <2>1. DOMAIN Prefix(CREATE_LLM_TURNS, k) = 1..k /\ Prefix(CREATE_LLM_TURNS, k)[3] = "span_ids" /\ 3 \in 1..k
    BY DEF Prefix, CREATE_LLM_TURNS
  <2> QED  BY <2>1 DEF Range
<1>7. \E k \in 4..6 : db["traces"].cols = Prefix(CREATE_LLM_TURNS, k) /\ (Duck => k >= TurnCols)
  <2>1. "traces" \in DOMAIN db /\ ~(at <= 3)
    BY <1>1, <1>2, <1>3
  <2> HIDE DEF Prefix
  <2> QED  BY <1>0, <2>1 DEF UpTurns
<1>8. "span_ids" \in Range(db["traces"].cols)
  <2> HIDE DEF Prefix
  <2> QED  BY <1>6, <1>7
<1>9. CASE Duck
  <2>1. SpanCols = 8 /\ TurnCols = 6
    BY <1>1, <1>9 DEF SpanCols, TurnCols
  <2>2. db["spans"].cols = CREATE_LLM_CALLS
    <3>1. \E k \in 8..8 : db["spans"].cols = Prefix(CREATE_LLM_CALLS, k)
      <4> HIDE DEF Prefix
      <4> QED  BY <1>0, <1>2, <1>3, <1>9, <2>1 DEF UpSpans
    <3>2. db["spans"].cols = Prefix(CREATE_LLM_CALLS, 8)
      BY <3>1
    <3> QED  BY <3>2, WholePrefix
  <2>3. db["traces"].cols = CREATE_LLM_TURNS
    <3> PICK k \in 4..6 : db["traces"].cols = Prefix(CREATE_LLM_TURNS, k) /\ k >= TurnCols
      BY <1>7, <1>9
    <3>1. k = 6
      BY <2>1
    <3> QED  BY <3>1, WholePrefix
  <2>4. db["llm_metrics"].cols = CREATE_LLM_METRICS
    BY <1>0, <1>1, <1>2, <1>3, <1>9 DEF UpMetrics
  <2>5. db["llm_finish_metrics"].cols = Canonical["llm_finish_metrics"] /\ db["http_exchanges"].cols = Canonical["http_exchanges"]
    BY <1>0, <1>2, <1>3 DEF UpMetrics
  <2>6. /\ Canonical["spans"] = CREATE_LLM_CALLS /\ Canonical["traces"] = CREATE_LLM_TURNS
        /\ Canonical["llm_metrics"] = CREATE_LLM_METRICS
    BY DEF Canonical
  <2>7. \A t \in DOMAIN Canonical : db[t].cols = Canonical[t]
    BY <1>2, <2>2, <2>3, <2>4, <2>5, <2>6
  <2>8. \A r \in db["traces"].rows : r.status \in FinalStatus
    BY <1>0, <1>1, <1>9 DEF UpTurns
  <2> QED  BY <1>3, <1>4, <1>5, <1>8, <2>2, <2>7, <2>8
<1>10. CASE ~Duck
  <2>1. "kind" \in Range(db["spans"].cols)
    BY <1>0, <1>1, <1>2, <1>3, <1>10 DEF UpSpans
  <2> QED  BY <1>3, <1>4, <1>8, <1>10, <2>1
<1> QED  BY <1>9, <1>10

\* Its rollup is the live or the rebuilt one of its calls, or there are none.
LEMMA ServedRollup ==
  ASSUME UpBase, at = Serving, ~misses, ~cut, Duck
  PROVE  \/ db["llm_metrics"].rows \in {Rollup, Rebuilt} /\ db["spans"].rows = History
         \/ db["llm_metrics"].rows = {} /\ db["spans"].rows = {}
<1>1. UpType /\ UpRollup /\ "llm_metrics" \in DOMAIN db /\ "spans" \in DOMAIN db /\ "llm_calls" \notin DOMAIN db
  BY ServedColumns DEF UpBase, Canonical
<1>2. at = 25
  BY ServingAt
<1>3. StoredCalls = db["spans"].rows
  BY <1>1 DEF StoredCalls
<1>4. CASE filling
  BY <1>1, <1>2, <1>4 DEF UpRollup, Filled
<1>5. CASE ~filling
  BY <1>1, <1>2, <1>3, <1>5 DEF UpRollup
<1> QED  BY <1>4, <1>5

LEMMA ServedMigrated ==
  UpBase /\ at = Serving /\ ~misses /\ ~cut => Migrated
<1> SUFFICES ASSUME UpBase, at = Serving, ~misses, ~cut PROVE Migrated
  OBVIOUS
<1>1. Duck /\ db["llm_metrics"].rows = {} => db["spans"].rows = {} \/ Rebuilt = {}
  <2> SUFFICES ASSUME Duck, db["llm_metrics"].rows = {} PROVE db["spans"].rows = {} \/ Rebuilt = {}
    OBVIOUS
  <2>1. UpRollup /\ at = 25 /\ "llm_metrics" \in DOMAIN db
    BY ServedColumns, ServingAt, WholePrefix DEF UpBase
  <2>2. filling => Rebuilt = {}
    BY <2>1 DEF UpRollup, Filled
  <2> QED  BY <2>1, <2>2 DEF UpRollup
<1> QED  BY <1>1, ServedColumns DEF Migrated

-----------------------------------------------------------------------------
(* The steps. *)

LEMMA StatementServes ==
  ASSUME UpBase, UpServed, InitStatement, UpBase', (at = Serving /\ ~misses /\ ~cut => Migrated)', Stable
  PROVE  UpServed'
<1> SUFFICES ASSUME ~misses', ~cut'
             PROVE  /\ at' = Serving' => db' = served'
                    /\ served' # Null => db' = served' /\ Migrated' /\ (filling' /\ at' \notin {0, Serving'} => Rebuilt' = {})
  BY DEF UpServed
<1>1. /\ dialect' = dialect /\ ~misses /\ ~cut /\ at \in 1..Len(Script) /\ Rebuilt' = Rebuilt
      /\ served' = IF at' = Serving' /\ served = Null THEN db' ELSE served
  BY DEF InitStatement, Serving, Script, Rebuilt
<1>2. CASE served = Null
  <2>1. CASE at' = Serving'
    BY <1>1, <1>2, <2>1
  <2>2. CASE at' # Serving'
    BY <1>1, <1>2, <2>2
  <2> QED  BY <2>1, <2>2
<1>3. CASE served # Null
  <2>1. at \notin {0, Serving}
    <3>1. Len(Script) \in Nat
      BY ScriptLengths DEF Script
    <3> QED  BY <1>1, <3>1 DEF Serving
  <2>2. db = served /\ Migrated /\ (filling => Rebuilt = {})
    BY <1>1, <1>3, <2>1 DEF UpServed
  <2>3. db' = db /\ served' = served
    BY <1>1, <1>3, <2>2 DEF Stable
  <2>4. Migrated'
    BY <1>1, <2>2, <2>3 DEF Migrated, Duck
  <2>5. filling' => Rebuilt = {}
    <3> SUFFICES ASSUME filling' PROVE Rebuilt = {}
      OBVIOUS
    <3>1. CASE Script[at].op = "check_rollup"
      <4>1. rollup_empty_but_calls_present
        BY <3>1 DEF InitStatement
      <4>2. Duck
        BY <1>1 DEF UpBase, UpType, Duck
      <4> QED  BY <2>2, <4>1, <4>2 DEF Migrated, rollup_empty_but_calls_present
    <3>2. CASE Script[at].op # "check_rollup"
      BY <2>2, <3>2 DEF InitStatement
    <3> QED  BY <3>1, <3>2
  <2> QED  BY <1>1, <2>2, <2>3, <2>4, <2>5
<1> QED  BY <1>2, <1>3

\* Down, up again, or on with a statement skipped: the file is what it was.
LEMMA StopServes ==
  ASSUME UpBase, UpServed, open_with_pool \/ StatementFails \/ Crash
  PROVE  UpServed'
<1> SUFFICES ASSUME ~misses', ~cut'
             PROVE  /\ at' # Serving'
                    /\ served' # Null => db' = served' /\ Migrated' /\ (filling' /\ at' # 0 => Rebuilt' = {})
  BY DEF UpServed
<1>1. dialect' = dialect /\ db' = db /\ (at' = 0 \/ (at' = 1 /\ ~filling')) /\ served' = served /\ ~misses /\ ~cut
  <2>1. CASE open_with_pool
    BY <2>1 DEF open_with_pool
  <2>2. CASE StatementFails
    <3>1. at' = 0
      BY <2>2, FailureKeeps
    <3>2. at \in 1..Len(Script) /\ Len(Script) \in Nat
      BY <2>2, ScriptLengths DEF StatementFails, Script
    <3>3. Fatal(Script[at])
      <4> SUFFICES ASSUME ~Fatal(Script[at]) PROVE FALSE
        OBVIOUS
      <4> QED  BY <2>2, <3>1, <3>2 DEF StatementFails
    <3> QED  BY <2>2, <3>1, <3>3 DEF StatementFails
  <2>3. CASE Crash
    <3>1. ~cut
      <4>1. cut => cut'
        BY ONLY <2>3, Zenon DEF Crash
      <4> QED  BY <4>1
    <3> QED  BY <2>3, <3>1 DEF Crash
  <2> QED  BY <2>1, <2>2, <2>3
<1>2. at' # Serving'
  <2>1. Serving' \in {10, 25}
    <3>1. Serving \in {10, 25} /\ Serving' = Serving
      BY <1>1, ServingAt DEF Serving, Script
    <3> QED  BY <3>1
  <2> QED  BY <1>1, <2>1
<1>3. served # Null => db = served /\ Migrated
  BY <1>1 DEF UpServed
<1>4. Migrated' <=> Migrated
  BY <1>1 DEF Migrated, Duck
<1> QED  BY <1>1, <1>2, <1>3, <1>4

UpNext == UpgradeNext \/ ConnectionNext

LEMMA StepKeeps ==
  ASSUME UpBase, UpServed, [UpNext]_duckVars
  PROVE  /\ UpBase' /\ ((at = Serving /\ ~misses /\ ~cut => Migrated)' => UpServed')
         /\ StoredCalls' = StoredCalls /\ StoredTurns' = StoredTurns
<1>1. CASE InitStatement
  <2>1. UpBase' /\ KeepsHistory /\ Stable
    BY <1>1, StatementKeeps
  <2>2. (at = Serving /\ ~misses /\ ~cut => Migrated)' => UpServed'
    BY <1>1, <2>1, StatementServes
  <2> QED  BY <2>1, <2>2 DEF KeepsHistory
<1>2. CASE open_with_pool \/ StatementFails \/ Crash
  <2>1. UpBase' /\ db' = db
    BY <1>2, OpenUpKeeps, FailureKeeps, CrashKeeps
  <2>2. UpServed'
    BY <1>2, StopServes
  <2>3. StoredCalls' = StoredCalls /\ StoredTurns' = StoredTurns
    BY <2>1 DEF StoredCalls, StoredTurns
  <2> QED  BY <2>1, <2>2, <2>3
<1>3. CASE ConnectionNext \/ UNCHANGED duckVars
  <2>1. UNCHANGED <<dialect, db, filling, misses, cut, served, at>>
    BY <1>3, ConnectionsApart DEF duckVars, tables
  <2> QED  BY <2>1, SameFileKeeps
<1> QED  BY <1>1, <1>2, <1>3 DEF UpNext, UpgradeNext

\* The inductive invariant of the upgrade: what each statement of init has
\* established by the time the next one runs, across crashes and restarts.
THEOREM UpgradeInvariant == DuckSpec => [](UpBase /\ UpServed)
<1>1. DuckInit => UpBase /\ UpServed
  BY FileStarts
<1>2. UpBase => (at = Serving /\ ~misses /\ ~cut => Migrated)
  BY ServedMigrated
<1>3. UpBase /\ UpServed /\ [UpNext]_duckVars
        => UpBase' /\ ((at = Serving /\ ~misses /\ ~cut => Migrated)' => UpServed')
  BY StepKeeps
<1> QED  BY <1>1, <1>2, <1>3, PTL DEF DuckSpec, UpNext

\* Whichever release made the file, wherever earlier upgrades of it died: once
\* init has run without a skipped statement the appenders find the columns in
\* their order, the calls and turns are all there under the names the reads
\* use, and a further start changes nothing (schema.rs init).
THEOREM UpgradeKeepsTheFile == DuckSpec => [](ColumnsAligned /\ HistoryKept /\ RestartChangesNothing)
<1>1. UpBase /\ UpServed => ColumnsAligned /\ HistoryKept /\ RestartChangesNothing
  <2> SUFFICES ASSUME UpBase, UpServed PROVE ColumnsAligned /\ HistoryKept /\ RestartChangesNothing
    OBVIOUS
  <2>1. ColumnsAligned
    <3> SUFFICES ASSUME at = Serving, ~misses, Duck, NEW t \in DOMAIN Canonical
                 PROVE  t \in DOMAIN db /\ db[t].cols = Canonical[t]
      BY DEF ColumnsAligned, Duck, table_exists
    <3> QED  BY ServedColumns
  <2>2. StoredCalls \in {{}, History}
    <3>1. \A t \in CallTables \intersect DOMAIN db : db[t].rows \in {{}, History}
      BY DEF UpBase, UpRows
    <3> QED  BY <3>1 DEF StoredCalls, CallTables
  <2>3. ASSUME at = Serving, ~misses
        PROVE  /\ db["spans"].rows = StoredCalls
               /\ {r.turn : r \in db["traces"].rows} = StoredTurns
               /\ column_exists("traces", "span_ids") /\ column_exists("spans", "kind")
               /\ dialect = "duckdb" => \A r \in db["traces"].rows : r.status \in {"complete", "incomplete"}
    <3>1. "spans" \in DOMAIN db /\ "traces" \in DOMAIN db /\ "agent_turns" \notin DOMAIN db /\ "llm_calls" \notin DOMAIN db
      BY <2>3, ServedColumns, WholePrefix
    <3>2. db["spans"].rows = StoredCalls
      BY <3>1 DEF StoredCalls
    <3>3. {r.turn : r \in db["traces"].rows} = StoredTurns
      <4>1. {"agent_turns", "traces"} \intersect DOMAIN db = {"traces"}
        BY <3>1
      <4>2. UNION {db[t].rows : t \in {"traces"}} = db["traces"].rows
        OBVIOUS
      <4> QED  BY <4>1, <4>2 DEF StoredTurns
    <3>4. column_exists("traces", "span_ids") /\ column_exists("spans", "kind")
      BY <2>3, <3>1, ServedColumns DEF column_exists, table_exists
    <3> QED  BY <2>3, <3>2, <3>3, <3>4, ServedColumns DEF Duck, FinalStatus
  <2>4. RestartChangesNothing
    BY DEF UpServed, RestartChangesNothing
  <2> QED  BY <2>1, <2>2, <2>3, <2>4 DEF HistoryKept
<1> QED  BY <1>1, UpgradeInvariant, PTL

\* With them the rollup counts every stored call once, provided the live and
\* the rebuilt rollup of the history do (RollupsCount, which TLC evaluates).
THEOREM UpgradesAreSound ==
  ASSUME RollupsCount
  PROVE  DuckSpec => []UpgradeSound
<1>1. UpBase => RollupRestored
  <2> SUFFICES ASSUME UpBase, at = Serving, ~misses, ~cut, Duck
               PROVE  RollupCounts(db["llm_metrics"].rows, db["spans"].rows)
    BY DEF RollupRestored, Duck
  <2>1. RollupCounts({}, {}) /\ RollupCounts(Rollup, History) /\ RollupCounts(Rebuilt, History)
    BY DEF RollupsCount, Rebuilt
  <2>2. \/ db["llm_metrics"].rows \in {Rollup, Rebuilt} /\ db["spans"].rows = History
        \/ db["llm_metrics"].rows = {} /\ db["spans"].rows = {}
    BY ServedRollup
  <2>3. CASE db["llm_metrics"].rows = Rollup /\ db["spans"].rows = History
    BY <2>1, <2>3
  <2>4. CASE db["llm_metrics"].rows = Rebuilt /\ db["spans"].rows = History
    BY <2>1, <2>4
  <2>5. CASE db["llm_metrics"].rows = {} /\ db["spans"].rows = {}
    BY <2>1, <2>5
  <2> QED  BY <2>2, <2>3, <2>4, <2>5
<1>2. ColumnsAligned /\ HistoryKept /\ RestartChangesNothing /\ RollupRestored => UpgradeSound
  BY DEF UpgradeSound
<1> QED  BY <1>1, <1>2, UpgradeInvariant, UpgradeKeepsTheFile, PTL

\* No step of any start, crash, skipped statement or query adds or loses a call
\* or a turn of the file.
THEOREM NoStepLosesHistory ==
  DuckSpec => [][StoredCalls' = StoredCalls /\ StoredTurns' = StoredTurns]_duckVars
<1>1. UpBase /\ UpServed /\ [UpNext]_duckVars => StoredCalls' = StoredCalls /\ StoredTurns' = StoredTurns
  BY StepKeeps
<1> QED  BY <1>1, UpgradeInvariant, PTL DEF DuckSpec, UpNext

=============================================================================
