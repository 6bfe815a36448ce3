------------------------------- MODULE Limits -------------------------------
(***************************************************************************)
(* Rate and concurrency limits (internal/limits/limits.go), the middleware   *)
(* in front of the EST and the SCEP handler, which share one Limiter. A      *)
(* request takes a token from its client's bucket, then one from the global  *)
(* bucket, then a slot, waiting for the slot until its timer or its client   *)
(* gives up. The client buckets live in a bounded table that makes room by   *)
(* dropping idle buckets or, failing that, the one longest unused.           *)
(*                                                                         *)
(* `allow` reads the clock before it takes the mutex, so a request may act   *)
(* on an instant MaxStale old. Tokens are whole, rates are tokens per tick.   *)
(* A limiter configured off (a negative value) admits all and keeps nothing. *)
(***************************************************************************)
EXTENDS Integers, Sequences, FiniteSets

CONSTANTS
    Reqs,            \* the requests that arrive, one goroutine each
    Clients,         \* source addresses
    PerClientRate, PerClientBurst,   \* Config.PerClientRate, .PerClientBurst
    GlobalRate, GlobalBurst,         \* Config.GlobalRate, .GlobalBurst
    MaxClients,      \* Config.MaxClients
    SweepBudget,     \* buckets one eviction looks at
    MaxConcurrent,   \* Config.MaxConcurrent
    MaxStale,        \* bound on the age of an instant read before the lock
    MaxClock         \* bound on the clock

ASSUME RatesAssumption ==
    /\ PerClientRate \in Nat \ {0} /\ PerClientBurst \in Nat \ {0}
    /\ GlobalRate \in Nat \ {0} /\ GlobalBurst \in Nat \ {0}
ASSUME SizesAssumption ==
    /\ MaxClients \in Nat \ {0} /\ SweepBudget \in Nat \ {0}
    /\ MaxConcurrent \in Nat \ {0}
ASSUME TimeAssumption == MaxStale \in Nat /\ MaxClock \in Nat

-----------------------------------------------------------------------------
(* Buckets                                                                 *)

Bucket == [tokens : Nat, last : Nat]

Full(now, burst) == [tokens |-> burst, last |-> now]

Smaller(x, y) == IF x < y THEN x ELSE y

\* Mutated form: the cap at the burst is missing.
RefillUncapped(b, now, rate, burst) ==
    IF now > b.last THEN [tokens |-> b.tokens + (now - b.last) * rate, last |-> now]
    ELSE b

\* An instant before the last refill adds nothing and does not turn `last` back.
Refill(b, now, rate, burst) ==
    IF now > b.last
    THEN [tokens |-> Smaller(burst, b.tokens + (now - b.last) * rate), last |-> now]
    ELSE b

HasToken(b, now, rate, burst) == Refill(b, now, rate, burst).tokens >= 1

\* Mutated form: the token is taken whether or not there is one.
TakeInDebt(b, now, rate, burst) ==
    LET filled == Refill(b, now, rate, burst) IN [filled EXCEPT !.tokens = @ - 1]

\* The refill is kept also when no token is left.
Take(b, now, rate, burst) ==
    LET filled == Refill(b, now, rate, burst)
    IN IF filled.tokens >= 1 THEN [filled EXCEPT !.tokens = @ - 1] ELSE filled

\* bucket.idle: refilled to the brim by now.
BucketIdle(b, now, rate, burst) ==
    b.tokens + (IF now > b.last THEN (now - b.last) * rate ELSE 0) >= burst

-----------------------------------------------------------------------------

VARIABLES
    clock,
    buckets,   \* perClient.buckets
    global,    \* global.buckets, at most the one bucket of key ""
    sem,       \* slots taken
    pc,        \* where each request is
    addr,      \* its client
    now,       \* the instant its `allow` read
    private,   \* history: for each client, a bucket nothing was done to but by itself
    favoured,  \* history: clients whose bucket was evicted when not idle
    opened,    \* history: buckets opened for each client
    log        \* history: when each client's requests were admitted

limiter == <<buckets, global, sem>>
history == <<private, favoured, opened, log>>
vars == <<clock, limiter, pc, addr, now, history>>

Empty == [k \in {} |-> Full(0, 0)]
Nobody == "nobody"

Init ==
    /\ clock = 0
    /\ buckets = Empty /\ global = Empty /\ sem = 0
    /\ pc = [r \in Reqs |-> "idle"]
    /\ addr = [r \in Reqs |-> Nobody]
    /\ now = [r \in Reqs |-> 0]
    /\ private = [c \in Clients |-> Full(0, PerClientBurst)]
    /\ favoured = {}
    /\ opened = [c \in Clients |-> 0]
    /\ log = [c \in Clients |-> <<>>]

\* The table with key k's bucket set to b.
With(table, k, b) == [j \in DOMAIN table \cup {k} |-> IF j = k THEN b ELSE table[j]]
Without(table, gone) == [j \in DOMAIN table \ gone |-> table[j]]

\* Mutated form: a new bucket is opened without its tokens.
BucketOpenedEmpty(table, k, t, burst) ==
    IF k \in DOMAIN table THEN table[k] ELSE Full(t, 0)

\* The bucket `allow` works on: the one there is, or a full one.
BucketOf(table, k, t, burst) == IF k \in DOMAIN table THEN table[k] ELSE Full(t, burst)

IdleAmong(sample, t) ==
    {c \in sample : BucketIdle(buckets[c], t, PerClientRate, PerClientBurst)}

LongestUnused(sample) ==
    {c \in sample : \A d \in sample : buckets[c].last <= buckets[d].last}

\* Map iteration starts anywhere and stops after SweepBudget entries.
Samples ==
    {s \in SUBSET DOMAIN buckets :
        Cardinality(s) = Smaller(SweepBudget, Cardinality(DOMAIN buckets))}

\* Mutated form: at the bound, nothing is evicted unless idle.
EvictIdleOnly(c, t) ==
    IF c \in DOMAIN buckets \/ Cardinality(DOMAIN buckets) < MaxClients THEN {{}}
    ELSE {IdleAmong(s, t) : s \in Samples}

\* What the entry of client c at t may evict: nothing if there is room, else
\* the idle ones of a sample, else one of those longest unused.
Evictions(c, t) ==
    IF c \in DOMAIN buckets \/ Cardinality(DOMAIN buckets) < MaxClients THEN {{}}
    ELSE UNION {IF IdleAmong(s, t) # {} THEN {IdleAmong(s, t)}
                ELSE {{d} : d \in LongestUnused(s)} : s \in Samples}

Goto(r, label) == pc' = [pc EXCEPT ![r] = label]

-----------------------------------------------------------------------------
(* Middleware                                                              *)

\* A request arrives, and `allow` reads the clock.
Arrive(r) ==
    /\ pc[r] = "idle"
    /\ \E c \in Clients : addr' = [addr EXCEPT ![r] = c]
    /\ now' = [now EXCEPT ![r] = clock]
    /\ Goto(r, "client")
    /\ UNCHANGED <<clock, limiter, history>>

\* perClient.allow under its mutex, whatever it answers.
TakeFromClient(r) ==
    \E gone \in Evictions(addr[r], now[r]) :
        /\ buckets' = With(Without(buckets, gone), addr[r],
                           Take(BucketOf(buckets, addr[r], now[r], PerClientBurst),
                                now[r], PerClientRate, PerClientBurst))
        /\ favoured' = favoured \cup (gone \ IdleAmong(gone, now[r]))
        /\ private' = [private EXCEPT ![addr[r]] =
                          Take(@, now[r], PerClientRate, PerClientBurst)]
        /\ opened' = IF addr[r] \in DOMAIN buckets THEN opened
                     ELSE [opened EXCEPT ![addr[r]] = @ + 1]

ClientHasToken(r) ==
    HasToken(BucketOf(buckets, addr[r], now[r], PerClientBurst), now[r],
             PerClientRate, PerClientBurst)

ClientRefused(r) ==
    /\ pc[r] = "client" /\ ~ClientHasToken(r)
    /\ TakeFromClient(r)
    /\ Goto(r, "refused")
    /\ UNCHANGED <<clock, global, sem, addr, now, log>>

\* Admitted by its own budget; global.allow reads the clock next.
ClientAdmitted(r) ==
    /\ pc[r] = "client" /\ ClientHasToken(r)
    /\ TakeFromClient(r)
    /\ log' = [log EXCEPT ![addr[r]] = Append(@, clock)]
    /\ now' = [now EXCEPT ![r] = clock]
    /\ Goto(r, "global")
    /\ UNCHANGED <<clock, global, sem, addr>>

GlobalBucket(r) == BucketOf(global, "", now[r], GlobalBurst)

TakeFromGlobal(r) ==
    global' = With(global, "", Take(GlobalBucket(r), now[r], GlobalRate, GlobalBurst))

GlobalRefused(r) ==
    /\ pc[r] = "global" /\ ~HasToken(GlobalBucket(r), now[r], GlobalRate, GlobalBurst)
    /\ TakeFromGlobal(r)
    /\ Goto(r, "refused")
    /\ UNCHANGED <<clock, buckets, sem, addr, now, history>>

GlobalAdmitted(r) ==
    /\ pc[r] = "global" /\ HasToken(GlobalBucket(r), now[r], GlobalRate, GlobalBurst)
    /\ TakeFromGlobal(r)
    /\ Goto(r, "acquire")
    /\ UNCHANGED <<clock, buckets, sem, addr, now, history>>

\* acquire's first select: a free slot is taken at once ...
AcquireNow(r) ==
    /\ pc[r] = "acquire" /\ sem < MaxConcurrent
    /\ sem' = sem + 1
    /\ Goto(r, "serving")
    /\ UNCHANGED <<clock, buckets, global, addr, now, history>>

\* ... and otherwise the timer is started.
AcquireWaits(r) ==
    /\ pc[r] = "acquire" /\ sem >= MaxConcurrent
    /\ Goto(r, "waiting")
    /\ UNCHANGED <<clock, limiter, addr, now, history>>

AcquireLater(r) ==
    /\ pc[r] = "waiting" /\ sem < MaxConcurrent
    /\ sem' = sem + 1
    /\ Goto(r, "serving")
    /\ UNCHANGED <<clock, buckets, global, addr, now, history>>

\* Mutated form: a waiter that gives up gives back a slot.
AcquireGivesUpReleasing(r) ==
    /\ pc[r] = "waiting"
    /\ sem' = sem - 1
    /\ Goto(r, "shed")
    /\ UNCHANGED <<clock, buckets, global, addr, now, history>>

\* The timer fires or the client goes away; with a slot free at the same moment
\* select takes either.
AcquireGivesUp(r) ==
    /\ pc[r] = "waiting"
    /\ Goto(r, "shed")
    /\ UNCHANGED <<clock, limiter, addr, now, history>>

\* The handler returns or panics, and the deferred release runs.
Release(r) ==
    /\ pc[r] = "serving"
    /\ sem' = sem - 1
    /\ Goto(r, "served")
    /\ UNCHANGED <<clock, buckets, global, addr, now, history>>

\* Time passes; no request stays longer than MaxStale between clock and lock.
Tick ==
    /\ clock < MaxClock
    /\ \A r \in Reqs : pc[r] \in {"client", "global"} => clock < now[r] + MaxStale
    /\ clock' = clock + 1
    /\ UNCHANGED <<limiter, pc, addr, now, history>>

\* A request on its way into the handler.
AdmissionStep(r) ==
    \/ ClientRefused(r) \/ ClientAdmitted(r) \/ GlobalRefused(r) \/ GlobalAdmitted(r)
    \/ AcquireNow(r) \/ AcquireWaits(r) \/ AcquireLater(r) \/ AcquireGivesUp(r)

Next ==
    \/ \E r \in Reqs : Arrive(r) \/ AdmissionStep(r) \/ Release(r)
    \/ Tick

Spec == Init /\ [][Next]_vars

-----------------------------------------------------------------------------
(* Correctness                                                             *)

Ended == {"refused", "shed", "served"}

(* The types of the limiter's tables and the requests' locals.               *)
TypeOK ==
    /\ clock \in Nat
    /\ DOMAIN buckets \subseteq Clients /\ DOMAIN global \subseteq {""}
    /\ \A c \in DOMAIN buckets : buckets[c] \in Bucket
    /\ \A k \in DOMAIN global : global[k] \in Bucket
    /\ sem \in 0..MaxConcurrent
    /\ pc \in [Reqs -> {"idle", "client", "global", "acquire", "waiting", "serving"}
                       \cup Ended]
    /\ addr \in [Reqs -> Clients \cup {Nobody}]
    /\ now \in [Reqs -> Nat]
    /\ private \in [Clients -> Bucket]
    /\ favoured \subseteq Clients
    /\ opened \in [Clients -> Nat]
    /\ log \in [Clients -> Seq(Nat)]

(* The slots taken are those of the requests inside the handler: a slot is    *)
(* neither lost nor given twice, also to a waiter that gets it as it gives up, *)
(* and no more than MaxConcurrent requests are inside at once.               *)
SlotsAccounted == sem = Cardinality({r \in Reqs : pc[r] = "serving"})

(* Tracking clients cannot itself exhaust memory: the table never outgrows    *)
(* MaxClients, however little an eviction finds idle in its sample.           *)
TrackedClientsBounded == Cardinality(DOMAIN buckets) <= MaxClients

(* In every stretch of time a client gets no more requests admitted than its  *)
(* burst and the rate over that stretch allow, unless its bucket was evicted   *)
(* when not idle. Instants read before the lock add their age at most once for *)
(* each bucket opened.                                                       *)
BudgetKept ==
    \A c \in Clients \ favoured :
        \A i, j \in DOMAIN log[c] : i <= j =>
            j - i + 1 <= PerClientBurst
                         + PerClientRate * (log[c][j] - log[c][i] + opened[c] * MaxStale)

PrivateHasToken(r) ==
    HasToken(private[addr[r]], now[r], PerClientRate, PerClientBurst)

(* Nobody is refused for what others did: a request the per-client limit      *)
(* refuses has used up its client's own budget, whatever was evicted when.    *)
OwnFaultOnly ==
    [][\A r \in Reqs : (pc[r] = "client" /\ pc'[r] = "refused") => ~PrivateHasToken(r)]_vars
=============================================================================
