---------------------------- MODULE ReplayTable ----------------------------
(***************************************************************************)
(* The table inside scep.ReplayCache and what one call of Check does to it, *)
(* as functions of the table: a partial function from message keys (the    *)
(* hash of transactionID and senderNonce) to the instant the entry expires. *)
(* ReplayCache runs these operators under concurrency on their own;        *)
(* Enrollment runs them as the second step of a SCEP request.              *)
(***************************************************************************)
EXTENDS Naturals, FiniteSets

CONSTANTS ReplayKeys,      \* keys of the messages that exist (replayKey)
          ReplayTTL,       \* how long a recorded pair is refused
          ReplayMaxSize    \* entries the table may hold

\* NewReplayCache replaces a non-positive argument by its default.
ASSUME ReplayTTLAssumption == ReplayTTL \in Nat \ {0}
ASSUME ReplayMaxSizeAssumption == ReplayMaxSize \in Nat \ {0}
ASSUME ReplayKeysAssumption == IsFiniteSet(ReplayKeys)

EmptyTable == [k \in {} |-> 0]

Entries(seen) == Cardinality(DOMAIN seen)

\* Mutated form: an expired entry still refuses.
IsReplayIgnoringExpiry(seen, k, now) == k \in DOMAIN seen

\* The refusal test of Check: recorded, and not yet expired at `now`.
IsReplay(seen, k, now) == k \in DOMAIN seen /\ now < seen[k]

\* Mutated form: live entries are dropped with the expired ones.
UnexpiredOffByTTL(seen, now) == {k \in DOMAIN seen : now + ReplayTTL < seen[k]}

\* The entries evictLocked keeps: those `now` is strictly before.
Unexpired(seen, now) == {k \in DOMAIN seen : now < seen[k]}

\* Dropping the expired entries did not make room, so evictLocked clears.
Overflows(seen, now) ==
    /\ Entries(seen) >= ReplayMaxSize
    /\ Cardinality(Unexpired(seen, now)) >= ReplayMaxSize

\* Mutated form: a table full of live entries is left full.
EvictWithoutClear(seen, now) == [k \in Unexpired(seen, now) |-> seen[k]]

EvictLocked(seen, now) ==
    IF Overflows(seen, now)
    THEN EmptyTable
    ELSE [k \in Unexpired(seen, now) |-> seen[k]]

RoomFor(seen, now) ==
    IF Entries(seen) >= ReplayMaxSize THEN EvictLocked(seen, now) ELSE seen

\* Mutated forms: the pair is not recorded; it is recorded for two TTLs.
RecordNothing(seen, k, now) == RoomFor(seen, now)

RecordTwiceTTL(seen, k, now) ==
    [j \in DOMAIN RoomFor(seen, now) \cup {k} |->
        IF j = k THEN now + ReplayTTL + ReplayTTL ELSE seen[j]]

\* The table after a fresh pair is recorded: make room, then write its expiry.
Record(seen, k, now) ==
    [j \in DOMAIN RoomFor(seen, now) \cup {k} |->
        IF j = k THEN now + ReplayTTL ELSE seen[j]]
=============================================================================
