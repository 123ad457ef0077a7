----------------------------- MODULE AgLakeClient -----------------------------
(***************************************************************************)
(* The three conversations AglakeBackend holds with the daemon: writes     *)
(* over HEC, searches over the session-guarded API, and the retention      *)
(* push.  They share no state in the client, so each behaviour explores    *)
(* one of them while the others are at rest: an empty batch, no search     *)
(* begun, retention left to the daemon.                                    *)
(***************************************************************************)
EXTENDS HecClient, SearchClient

(* apply_retention: a policy of cutoffs becomes a TTL per index, pushed to *)
(* the daemon one index at a time.  The daemon enforces the TTLs; an index *)
(* exists once it has been written.                                        *)

CONSTANTS
    Now,                \* the instant of the sweep
    Cutoffs,            \* cutoffs a policy may carry
    BodyTtls,           \* body_retention_days in the unit of the TTLs, 0 = off
    MaxPushFailures,    \* bound: pushes or listings that fail
    Unset               \* no cutoff, no TTL

VARIABLES
    policy,     \* [spans, traces, http, metrics]: a cutoff or Unset
    bodyTtl,    \* storage.aglake.body_retention_days
    manage,     \* storage.aglake.manage_retention
    known,      \* indexes the daemon has
    ttl,        \* ttl[ix]: the TTL in force
    rpc,        \* "idle" or "pushing"
    targets,    \* what is left of the current plan
    listing,    \* the TTLs the daemon listed at the start of the sweep
    failures

rvars == <<policy, bodyTtl, manage, known, ttl, rpc, targets, listing, failures>>

Indexes == {"spans", "bodies", "traces", "http", "http_bodies", "metrics", "finish"}

Policies == [spans : Cutoffs \cup {Unset}, traces : Cutoffs \cup {Unset},
             http : Cutoffs \cup {Unset}, metrics : Cutoffs \cup {Unset}]

(* plan's `ttl`: a cutoff that is not in the past has no TTL, since zero   *)
(* would freeze everything at once.                                        *)
ttl_of(cutoff) == IF cutoff = Unset \/ cutoff >= Now THEN Unset ELSE Now - cutoff

Or(a, b) == IF a # Unset THEN a ELSE b

(* plan: bodies take their own TTL when one is configured and otherwise    *)
(* the TTL of the entity they belong to.                                   *)
plan(p, body) ==
    LET own == IF body > 0 THEN body ELSE Unset
        all == << <<"spans", ttl_of(p.spans)>>,
                  <<"bodies", Or(own, ttl_of(p.spans))>>,
                  <<"traces", ttl_of(p.traces)>>,
                  <<"http", ttl_of(p.http)>>,
                  <<"http_bodies", Or(own, ttl_of(p.http))>>,
                  <<"metrics", ttl_of(p.metrics)>>,
                  <<"finish", ttl_of(p.metrics)>> >>
    IN SelectSeq(all, LAMBDA t : t[2] # Unset)

RetentionInit ==
    /\ policy \in Policies
    /\ bodyTtl \in BodyTtls
    /\ manage \in BOOLEAN
    /\ known \in {{"spans", "bodies"}, Indexes}
    /\ ttl = [ix \in Indexes |-> Unset]
    /\ rpc = "idle"
    /\ targets = <<>>
    /\ listing = ttl
    /\ failures = 0

(* An index springs into existence on its first write (external).          *)
FirstWrite ==
    /\ manage /\ known # Indexes
    /\ known' = Indexes
    /\ UNCHANGED <<policy, bodyTtl, manage, ttl, rpc, targets, listing, failures>>

(* apply_retention up to the listing: nothing is pushed when retention is  *)
(* left to the daemon, when the plan is empty, or when the listing fails.  *)
SweepStart ==
    /\ rpc = "idle" /\ manage /\ plan(policy, bodyTtl) # <<>>
    /\ \/ /\ rpc' = "pushing"
          /\ targets' = SelectSeq(plan(policy, bodyTtl), LAMBDA t : t[1] \in known)
          /\ listing' = ttl
          /\ UNCHANGED failures
       \/ /\ failures < MaxPushFailures
          /\ failures' = failures + 1
          /\ UNCHANGED <<rpc, targets, listing>>
    /\ UNCHANGED <<policy, bodyTtl, manage, known, ttl>>

(* One index: a TTL that is already right is skipped; a failed push is     *)
(* reported and the sweep goes on with the next index.                     *)
PushTtl ==
    /\ rpc = "pushing" /\ targets # <<>>
    /\ LET t == Head(targets)
       IN \/ /\ listing[t[1]] = t[2]
             /\ UNCHANGED <<ttl, failures>>
          \/ /\ listing[t[1]] # t[2]
             /\ ttl' = [ttl EXCEPT ![t[1]] = t[2]]
             /\ UNCHANGED failures
          \/ /\ listing[t[1]] # t[2]
             /\ failures < MaxPushFailures
             /\ failures' = failures + 1
             /\ UNCHANGED ttl
    /\ targets' = Tail(targets)
    /\ UNCHANGED <<policy, bodyTtl, manage, known, rpc, listing>>

SweepEnd ==
    /\ rpc = "pushing" /\ targets = <<>>
    /\ rpc' = "idle"
    /\ UNCHANGED <<policy, bodyTtl, manage, known, ttl, targets, listing, failures>>

RetentionNext == FirstWrite \/ SweepStart \/ PushTtl \/ SweepEnd

(* The retention task sweeps for ever, and traffic reaches every index.    *)
RetentionFairness ==
    /\ WF_rvars(SweepStart) /\ WF_rvars(PushTtl) /\ WF_rvars(SweepEnd)
    /\ WF_rvars(FirstWrite)


(* No index is ever told to freeze what it has just been given.            *)
NoInstantFreeze == \A ix \in Indexes : ttl[ix] # Unset => ttl[ix] > 0

(* What the policy asks for is in force in the end, index by index, in     *)
(* spite of failed listings, failed pushes and indexes that did not exist  *)
(* when the first sweeps ran; and unless bodies have a TTL of their own    *)
(* they then expire together with the entity they belong to.               *)
PolicyInForce ==
    manage =>
      <>[](/\ \A t \in Range(plan(policy, bodyTtl)) : ttl[t[1]] = t[2]
           /\ bodyTtl = 0 => ttl["bodies"] = ttl["spans"] /\ ttl["http_bodies"] = ttl["http"])

-----------------------------------------------------------------------------
(* The three conversations together. *)

clientVars == <<hvars, svars, rvars>>

WriterAtRest ==
    /\ calls = <<>> /\ useAck = FALSE
    /\ limit = CHOOSE l \in DaemonLimits : \A k \in DaemonLimits : k <= l
    /\ HecInit

SearchAtRest ==
    /\ source = "none" /\ session = Unknown /\ lock = None /\ freeSearches = 1
    /\ spc = [r \in Searches |-> "done"]
    /\ replace = [r \in Searches |-> "never"]
    /\ presented = [r \in Searches |-> None] /\ res = [r \in Searches |-> None]
    /\ begun = [r \in Searches |-> 0]
    /\ catalog = FALSE /\ live = {0} /\ minted = 1
    /\ logins = 0 /\ loginFailures = 0 /\ invalidations = 0

RetentionAtRest ==
    /\ manage = FALSE /\ bodyTtl = 0 /\ known = Indexes
    /\ policy = [spans |-> Unset, traces |-> Unset, http |-> Unset, metrics |-> Unset]
    /\ RetentionInit

ClientAtRest == WriterAtRest /\ SearchAtRest /\ RetentionAtRest

ClientInit ==
    \/ HecInit /\ SearchAtRest /\ RetentionAtRest
    \/ WriterAtRest /\ SearchInit /\ RetentionAtRest
    \/ WriterAtRest /\ SearchAtRest /\ manage = TRUE /\ RetentionInit

ClientNext ==
    \/ HecNext /\ UNCHANGED <<svars, rvars>>
    \/ SearchNext /\ UNCHANGED <<hvars, rvars>>
    \/ RetentionNext /\ UNCHANGED <<hvars, svars>>

ClientSpec == ClientInit /\ [][ClientNext]_clientVars

ClientFairness == HecFairness /\ SearchFairness /\ RetentionFairness

-----------------------------------------------------------------------------
(* What a flush promises: success means on disk, a second copy exists only *)
(* where the ack question could not see, and no body stands without its    *)
(* span but for a reason of its own (client.rs send_chunk, calls.rs).      *)
FlushSound == HecTypeOK /\ SuccessIsDurable /\ DuplicateOnlyInAckGap /\ OrphanBodyHasReason

(* What a search promises: concurrent searches share one login per dead    *)
(* session, and a 401 is passed on only when the session died under the    *)
(* search (client.rs AuthState, send_authenticated).                       *)
SearchSound == SearchTypeOK /\ SingleFlight /\ UnauthorizedOnlyIfRaced

(* Every flush and every search returns and the retention policy comes     *)
(* into force, without an instant freeze, whatever fails on the way.       *)
AgLakeSettles == FlushReturns /\ SearchesReturn /\ PolicyInForce /\ []NoInstantFreeze
=============================================================================
