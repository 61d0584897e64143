---------------------------- MODULE LedgerDomain ----------------------------
(***************************************************************************)
(* The pure transitions of the execution budget ledger                     *)
(* (turnstile_core/domain/ledger.py and domain/budget_completion.py).      *)
(*                                                                         *)
(* A budget scope (a person or an application, in one month) is one        *)
(* storage partition.  Its row S is a summary of integer balances; every   *)
(* admitted request has one row A there.  The transitions below map a      *)
(* summary and an attempt to their successors; modules that use them add   *)
(* the storage protocol (ETags, batches, unknown outcomes).                *)
(*                                                                         *)
(* Abstractions.  A balance is an integer number of budget units (tokens,  *)
(* or USD in units of 10^-14, both fixed point in the code).  Identities,  *)
(* epochs, price snapshots and timestamps, which the code compares for     *)
(* equality and rejects when different, are left out: an attempt is        *)
(* addressed by its scope and request.  An evidence document is reduced    *)
(* to its kind, its total and its idempotency key.                         *)
(***************************************************************************)
EXTENDS Integers

AttemptStates == {"none", "reserved", "dispatching", "uncertain",
                  "upper_bound", "settled", "cancelled", "released"}

\* States in which the reservation counts in active_reserved.
HeldStates == {"reserved", "dispatching", "uncertain"}

EvidenceKeys == {"none", "ack", "usage", "completion", "rejection", "resolution"}

Summary == [version: Nat, revision: Nat, limit: Nat, enforce: BOOLEAN,
            enabled: BOOLEAN, confirmed: Int, active: Int, upper: Int]

Attempt == [state: AttemptStates, bound: Nat, actual: Nat, rank: 0..3,
            revision: Nat, key: EvidenceKeys,
            completed: BOOLEAN, rejected: BOOLEAN, resolved: BOOLEAN]

\* A settlement task's decision on one attempt.
Charge == [rank: 2..3, revision: Nat \ {0}, total: Nat, key: EvidenceKeys]

\* The row does not exist.
NoAttempt == [state |-> "none", bound |-> 0, actual |-> 0, rank |-> 0,
              revision |-> 0, key |-> "none", completed |-> FALSE,
              rejected |-> FALSE, resolved |-> FALSE]

NewAttempt(state, bound) == [NoAttempt EXCEPT !.state = state, !.bound = bound]

\* What an attempt contributes to each balance.
ActiveShare(a) == IF a.state \in HeldStates THEN a.bound ELSE 0
UpperShare(a) == IF a.state = "upper_bound" THEN a.bound ELSE 0
ConfirmedShare(a) == IF a.state = "settled" THEN a.actual ELSE 0

Available(s) == s.limit - s.confirmed - s.active - s.upper

\* Every summary write takes a new version (_advance_summary); the balances
\* are validated non-negative when the row is rebuilt.
Advance(s, confirmed, active, upper) ==
    [s EXCEPT !.version = @ + 1, !.confirmed = confirmed,
              !.active = active, !.upper = upper]

--------------------------------------------------------------------------
(* Admission: reserve_ledger, and its twin in the gateway policy. *)

\* "" admits; the other values are the denial codes.
AdmissionError(s, bound) ==
    LET unreserved == s.limit - s.confirmed - s.upper
    IN  CASE ~ s.enabled -> "budget_consumer_disabled"
          [] s.enabled /\ (~ s.enforce \/ bound <= Available(s)) -> ""
          [] s.enabled /\ s.enforce /\ bound > Available(s) ->
               IF unreserved <= 0 THEN "budget_exhausted"
               ELSE IF bound <= unreserved THEN "budget_temporarily_reserved"
               ELSE "budget_request_bound_exceeds_balance"

ReservedSummary(s, bound) == Advance(s, s.confirmed, s.active + bound, s.upper)

--------------------------------------------------------------------------
(* State transitions of an attempt: transition_ledger_attempt. *)

TransitionAllowed(from, to) ==
    CASE to = "dispatching" -> from = "reserved"
      [] to = "uncertain" -> from = "dispatching"
      [] to = "upper_bound" -> from \in HeldStates
      [] to = "cancelled" -> from = "reserved"

TransitionedSummary(s, a, to) ==
    Advance(s, s.confirmed,
            s.active - (IF to \in {"upper_bound", "cancelled"} THEN a.bound ELSE 0),
            s.upper + (IF to = "upper_bound" THEN a.bound ELSE 0))

TransitionedAttempt(a, to) == [a EXCEPT !.state = to]

--------------------------------------------------------------------------
(* Release approved by a person: resolve_ledger. *)

ResolveOutcome(a) ==
    IF a.resolved \/ a.state \in {"settled", "cancelled"} THEN "ignored"
    ELSE IF a.state \in HeldStates \union {"upper_bound"} THEN "applied"
    ELSE "conflict"

ResolvedSummary(s, a) ==
    Advance(s, s.confirmed,
            s.active - (IF a.state # "upper_bound" THEN a.bound ELSE 0),
            s.upper - (IF a.state = "upper_bound" THEN a.bound ELSE 0))

ResolvedAttempt(a) ==
    [a EXCEPT !.state = "released", !.actual = 0, !.rank = 2,
              !.revision = IF @ < 1 THEN 1 ELSE @,
              !.key = "resolution", !.resolved = TRUE]

--------------------------------------------------------------------------
(* Settlement of a durable task: settle_ledger.  "ignored" returns the rows *)
(* unchanged, "conflict" raises and leaves them for review.                 *)

SettleOutcome(a, c) ==
    IF c.key = "resolution" THEN ResolveOutcome(a)
    ELSE IF a.completed
         THEN IF c.rank = 3 /\ c.total # a.actual THEN "conflict" ELSE "ignored"
    ELSE IF c.rank < a.rank THEN "ignored"
    ELSE IF (a.resolved \/ a.rejected) /\ c.rank = 2
         THEN IF c.total # 0 THEN "conflict" ELSE "ignored"
    ELSE IF c.rank > a.rank THEN "applied"
    ELSE IF c.revision < a.revision THEN "ignored"
    ELSE IF c.revision = a.revision
         THEN IF c.total # a.actual \/ c.key # a.key THEN "conflict" ELSE "ignored"
    ELSE "applied"

SettledSummary(s, a, c) ==
    IF c.key = "resolution" THEN ResolvedSummary(s, a)
    ELSE Advance(s, s.confirmed + c.total - a.actual,
                 s.active - ActiveShare(a), s.upper - UpperShare(a))

SettledAttempt(a, c) ==
    IF c.key = "resolution" THEN ResolvedAttempt(a)
    ELSE [a EXCEPT !.state = "settled", !.actual = c.total, !.rank = c.rank,
                   !.revision = IF @ < c.revision THEN c.revision ELSE @,
                   !.key = c.key]

--------------------------------------------------------------------------
(* Complete evidence from the producer, counters or a terminal rejection:   *)
(* completion_transaction, and COMPLETION in the gateway policy.            *)

CompleteOutcome(a, rejection, total) ==
    IF rejection /\ a.state = "released" THEN "ignored"
    ELSE IF rejection /\ a.state = "settled" /\ a.rank = 3 THEN "ignored"
    ELSE IF rejection /\ a.state = "settled" /\ a.actual # 0 THEN "conflict"
    ELSE IF rejection /\ a.state = "settled" /\ a.rejected THEN "ignored"
    ELSE IF a.completed THEN IF a.actual # total THEN "conflict" ELSE "ignored"
    ELSE IF a.state = "settled" /\ a.rank = 3 /\ a.actual # total THEN "conflict"
    ELSE "applied"

\* Mutant: a charge that replaces an upper bound leaves the bound counted.
MutCompletedSummary(s, a, total) ==
    Advance(s, s.confirmed + total - ConfirmedShare(a), s.active - ActiveShare(a), s.upper)

CompletedSummary(s, a, total) ==
    Advance(s, s.confirmed + total - ConfirmedShare(a),
            s.active - ActiveShare(a), s.upper - UpperShare(a))

CompletedAttempt(a, rejection, total) ==
    [a EXCEPT !.state = "settled", !.actual = total,
              !.rank = IF rejection THEN 2 ELSE 3,
              !.revision = IF @ < 1 THEN 1 ELSE @,
              !.key = IF rejection THEN "rejection" ELSE "completion",
              !.rejected = @ \/ rejection, !.completed = @ \/ ~ rejection]

--------------------------------------------------------------------------
(* A policy revision: update_ledger_policy.  Older revisions change nothing. *)

PolicySummary(s, revision, limit, enforce, enabled) ==
    IF revision <= s.revision THEN s
    ELSE [s EXCEPT !.version = @ + 1, !.revision = revision, !.limit = limit,
                   !.enforce = enforce, !.enabled = enabled]
=============================================================================
