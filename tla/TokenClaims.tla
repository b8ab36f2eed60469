----------------------------- MODULE TokenClaims -----------------------------
(***************************************************************************)
(* The claimed token ids of the authorization server: the claim            *)
(* (service.rs, store/pg/tokens.rs), the cleanup task of every replica     *)
(* (cleanup.rs) and the supervisor that restarts it (tasks.rs).            *)
(*                                                                         *)
(* `now` is the clock by which lakeFS judges a token.  A replica reads its *)
(* own clock, which may run behind; that it does not run ahead is the      *)
(* assumption (a natural number of ticks) under which the id of a valid    *)
(* token is never removed.  The cleanup reads the clock first and deletes  *)
(* later, so the cutoff it uses may be old.                                *)
(***************************************************************************)
EXTENDS Integers

CONSTANTS
    Tokens, Expiry,     \* Expiry[t]: the expiry the claim of t carries
    Replicas, Lag,      \* Lag[r]: how far the clock of r runs behind
    CleanupOn,          \* replicas whose cleanup interval is not zero
    MaxTime,            \* bound on the clock
    MaxFailures         \* bound on failed deletes and panics

ASSUME TokenAssumption ==
    /\ Expiry \in [Tokens -> Nat]
    /\ Lag \in [Replicas -> Nat]
    /\ CleanupOn \subseteq Replicas
    /\ MaxTime \in Nat
    /\ MaxFailures \in Nat

VARIABLES
    claimed_token_ids,  \* the table: token id to expiry
    now,
    cleaner,            \* cleaner[r]: where the cleanup task of r is
    cutoff,             \* cutoff[r]: the time its current delete was given
    failures

tokenVars == <<claimed_token_ids, now, cleaner, cutoff, failures>>

Init ==
    /\ claimed_token_ids = [t \in {} |-> 0]
    /\ now = 0
    /\ cleaner = [r \in Replicas |->
                    IF r \in CleanupOn THEN "waiting" ELSE "off"]
    /\ cutoff = [r \in Replicas |-> 0]
    /\ failures = 0

\* Fault: the row holds the time of the claim instead of the expiry.
ClaimTokenId_StoresNow(t) ==
    /\ t \notin DOMAIN claimed_token_ids
    /\ claimed_token_ids' =
          [k \in DOMAIN claimed_token_ids \cup {t} |->
              IF k = t THEN now ELSE claimed_token_ids[k]]
    /\ UNCHANGED <<now, cleaner, cutoff, failures>>

\* POST /auth/tokenid/claim.  A second claim answers 400 and changes nothing,
\* also when the first has expired and was not removed yet.
ClaimTokenId(t) ==
    /\ t \notin DOMAIN claimed_token_ids
    /\ claimed_token_ids' =
          [k \in DOMAIN claimed_token_ids \cup {t} |->
              IF k = t THEN Expiry[t] ELSE claimed_token_ids[k]]
    /\ UNCHANGED <<now, cleaner, cutoff, failures>>

\* The ticker of the cleanup fires and the task reads its clock.
CleanupTick(r) ==
    /\ cleaner[r] = "waiting"
    /\ cleaner' = [cleaner EXCEPT ![r] = "deleting"]
    /\ cutoff' = [cutoff EXCEPT ![r] = now - Lag[r]]
    /\ UNCHANGED <<claimed_token_ids, now, failures>>

\* Fault: the row of a token in its last tick is removed.
DeleteExpiredTokenIds_OneEarly(r) ==
    /\ cleaner[r] = "deleting"
    /\ claimed_token_ids' =
          [t \in {k \in DOMAIN claimed_token_ids :
                    claimed_token_ids[k] > cutoff[r] + 1} |->
              claimed_token_ids[t]]
    /\ cleaner' = [cleaner EXCEPT ![r] = "waiting"]
    /\ UNCHANGED <<now, cutoff, failures>>

\* The delete: rows whose expiry is not after the cutoff.
DeleteExpiredTokenIds(r) ==
    /\ cleaner[r] = "deleting"
    /\ claimed_token_ids' =
          [t \in {k \in DOMAIN claimed_token_ids :
                    claimed_token_ids[k] > cutoff[r]} |->
              claimed_token_ids[t]]
    /\ cleaner' = [cleaner EXCEPT ![r] = "waiting"]
    /\ UNCHANGED <<now, cutoff, failures>>

\* A failed delete is logged, and the loop waits for the next tick.
DeleteFails(r) ==
    /\ cleaner[r] = "deleting"
    /\ failures < MaxFailures
    /\ failures' = failures + 1
    /\ cleaner' = [cleaner EXCEPT ![r] = "waiting"]
    /\ UNCHANGED <<claimed_token_ids, now, cutoff>>

\* The task panics; its supervisor sees the end of the task.
CleanupPanics(r) ==
    /\ cleaner[r] \in {"waiting", "deleting"}
    /\ failures < MaxFailures
    /\ failures' = failures + 1
    /\ cleaner' = [cleaner EXCEPT ![r] = "ended"]
    /\ UNCHANGED <<claimed_token_ids, now, cutoff>>

\* Fault: a panic is taken for a cancelled task.
Supervise_GivesUp(r) ==
    /\ cleaner[r] = "ended"
    /\ UNCHANGED tokenVars

\* supervise: a task that ended is started again after a delay.
Supervise(r) ==
    /\ cleaner[r] = "ended"
    /\ cleaner' = [cleaner EXCEPT ![r] = "waiting"]
    /\ UNCHANGED <<claimed_token_ids, now, cutoff, failures>>

Tick ==
    /\ now < MaxTime
    /\ now' = now + 1
    /\ UNCHANGED <<claimed_token_ids, cleaner, cutoff, failures>>

Cleanup(r) == CleanupTick(r) \/ DeleteExpiredTokenIds(r) \/ Supervise(r)

Next ==
    \/ Tick
    \/ \E t \in Tokens : ClaimTokenId(t)
    \/ \E r \in Replicas : Cleanup(r) \/ DeleteFails(r) \/ CleanupPanics(r)

\* Time passes, and the runtime runs every task that is due.
Fairness ==
    /\ WF_tokenVars(Tick)
    /\ \A r \in Replicas : WF_tokenVars(Cleanup(r))

Spec == Init /\ [][Next]_tokenVars /\ Fairness

-----------------------------------------------------------------------------
(* Properties. *)

\* The table keeps each id with the expiry of its claim, and no cutoff is
\* ahead of the clock of lakeFS.
TypeOK ==
    /\ DOMAIN claimed_token_ids \subseteq Tokens
    /\ claimed_token_ids = [t \in DOMAIN claimed_token_ids |-> Expiry[t]]
    /\ now \in 0 .. MaxTime
    /\ cleaner \in [Replicas -> {"off", "waiting", "deleting", "ended"}]
    /\ cutoff \in [Replicas -> Int]
    /\ \A r \in Replicas : cutoff[r] <= now
    /\ failures \in 0 .. MaxFailures

\* The ids of valid tokens that are claimed.
LiveClaims == {t \in DOMAIN claimed_token_ids : now < Expiry[t]}

Registry == INSTANCE OneTimeTokens WITH used <- LiveClaims

\* A valid token is claimed at most once, whatever the cleanup tasks of the
\* replicas do in between: they are invisible to the promise made to lakeFS.
SingleUse == Registry!Spec

\* The table does not only grow: an expired id is removed in the end, though
\* deletes fail and tasks panic, as long as one replica has the cleanup on.
ExpiredClaimsRemoved ==
    \A t \in Tokens :
        (t \in DOMAIN claimed_token_ids /\ Expiry[t] <= now)
            ~> t \notin DOMAIN claimed_token_ids

=============================================================================
