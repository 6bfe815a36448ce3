---------------------------- MODULE LimitsProofs ----------------------------
(***************************************************************************)
(* Proofs about Limits, for any number of requests and clients, any sizes    *)
(* and any staleness of the instants.                                       *)
(***************************************************************************)
EXTENDS Limits, FiniteSetTheorems, TLAPS

-----------------------------------------------------------------------------
(* The in-flight slots                                                      *)

\* The requests inside the handler.
Inside == {r \in Reqs : pc[r] = "serving"}

\* As many requests are inside as slots are taken.
SlotInv ==
    /\ pc \in [Reqs -> {"idle", "client", "global", "acquire", "waiting", "serving"}
                       \cup Ended]
    /\ sem \in 0..MaxConcurrent
    /\ IsFiniteSet(Inside)
    /\ sem = Cardinality(Inside)

\* One more request is inside, and one more slot is taken.
LEMMA SlotTaken ==
    ASSUME SlotInv, NEW r \in Reqs, pc[r] # "serving", sem < MaxConcurrent,
           pc' = [pc EXCEPT ![r] = "serving"], sem' = sem + 1
    PROVE  SlotInv'
<1>1. Inside' = Inside \cup {r} /\ r \notin Inside
  BY DEF SlotInv, Inside
<1>2. IsFiniteSet(Inside') /\ Cardinality(Inside') = Cardinality(Inside) + 1
  BY <1>1, FS_AddElement DEF SlotInv
<1> QED  BY <1>2, SizesAssumption DEF SlotInv

\* Nobody enters or leaves, and no slot is taken or given back.
LEMMA SlotsSame ==
    ASSUME SlotInv, NEW r \in Reqs, pc[r] # "serving", sem' = sem,
           NEW label \in {"client", "global", "acquire", "waiting"} \cup Ended,
           pc' = [pc EXCEPT ![r] = label]
    PROVE  SlotInv'
<1>1. label # "serving"
  BY DEF Ended
<1>2. Inside' = Inside
  BY <1>1 DEF SlotInv, Inside
<1> QED  BY <1>2 DEF SlotInv

\* Every step keeps the slots accounted for.
LEMMA SlotStep == SlotInv /\ [Next]_vars => SlotInv'
<1> SUFFICES ASSUME SlotInv, [Next]_vars PROVE SlotInv'
  OBVIOUS
<1>1. CASE UNCHANGED vars
  BY <1>1 DEF vars, limiter, SlotInv, Inside
<1>2. CASE Tick
  BY <1>2 DEF Tick, limiter, SlotInv, Inside
<1>3. ASSUME NEW r \in Reqs, Arrive(r) PROVE SlotInv'
  BY <1>3, SlotsSame DEF Arrive, Goto, limiter
<1>4. ASSUME NEW r \in Reqs, ClientRefused(r) PROVE SlotInv'
  BY <1>4, SlotsSame DEF ClientRefused, Goto, Ended
<1>5. ASSUME NEW r \in Reqs, ClientAdmitted(r) PROVE SlotInv'
  BY <1>5, SlotsSame DEF ClientAdmitted, Goto
<1>6. ASSUME NEW r \in Reqs, GlobalRefused(r) PROVE SlotInv'
  BY <1>6, SlotsSame DEF GlobalRefused, Goto, Ended
<1>7. ASSUME NEW r \in Reqs, GlobalAdmitted(r) PROVE SlotInv'
  BY <1>7, SlotsSame DEF GlobalAdmitted, Goto
<1>8. ASSUME NEW r \in Reqs, AcquireNow(r) \/ AcquireLater(r) PROVE SlotInv'
  BY <1>8, SlotTaken DEF AcquireNow, AcquireLater, Goto
<1>9. ASSUME NEW r \in Reqs, AcquireWaits(r) PROVE SlotInv'
  BY <1>9, SlotsSame DEF AcquireWaits, Goto, limiter
<1>10. ASSUME NEW r \in Reqs, AcquireGivesUp(r) PROVE SlotInv'
  BY <1>10, SlotsSame DEF AcquireGivesUp, Goto, limiter, Ended
<1>11. ASSUME NEW r \in Reqs, Release(r) PROVE SlotInv'
  <2>1. pc[r] = "serving" /\ pc' = [pc EXCEPT ![r] = "served"] /\ sem' = sem - 1
    BY <1>11 DEF Release, Goto
  <2>2. Inside' = Inside \ {r} /\ r \in Inside
    BY <2>1 DEF SlotInv, Inside
  <2>3. /\ IsFiniteSet(Inside') /\ Cardinality(Inside') = Cardinality(Inside) - 1
        /\ Cardinality(Inside') \in Nat
    BY <2>2, FS_RemoveElement, FS_CardinalityType DEF SlotInv
  <2> QED  BY <2>1, <2>3, SizesAssumption DEF SlotInv, Ended
<1> QED
  BY <1>1, <1>2, <1>3, <1>4, <1>5, <1>6, <1>7, <1>8, <1>9, <1>10, <1>11
  DEF Next, AdmissionStep

\* At first nobody is inside.
LEMMA InitSlots == Init => SlotInv
<1> SUFFICES ASSUME Init PROVE SlotInv
  OBVIOUS
<1>1. Inside = {}
  BY DEF Init, Inside
<1> QED  BY <1>1, FS_EmptySet, SizesAssumption DEF Init, SlotInv

(* The slots taken are those of the requests inside the handler, for any       *)
(* number of requests that enter, wait, give up and return in any order.       *)
THEOREM SlotsKept == Spec => []SlotsAccounted
<1>1. SlotInv => SlotsAccounted
  BY DEF SlotInv, SlotsAccounted, Inside
<1> QED  BY <1>1, InitSlots, SlotStep, PTL DEF Spec

-----------------------------------------------------------------------------
(* The table of clients                                                     *)

\* The table is finite and within its bound.
TableInv ==
    /\ IsFiniteSet(DOMAIN buckets)
    /\ Cardinality(DOMAIN buckets) <= MaxClients

\* At the bound an eviction frees at least one bucket, whatever its sample holds.
LEMMA EvictionFrees ==
    ASSUME NEW c, NEW t, NEW gone \in Evictions(c, t),
           c \notin DOMAIN buckets, ~(Cardinality(DOMAIN buckets) < MaxClients)
    PROVE  gone \subseteq DOMAIN buckets /\ gone # {}
<1>1. PICK s \in Samples :
         gone \in (IF IdleAmong(s, t) # {} THEN {IdleAmong(s, t)}
                  ELSE {{d} : d \in LongestUnused(s)})
  BY DEF Evictions
<1>2. s \subseteq DOMAIN buckets
  BY DEF Samples
<1>3. CASE IdleAmong(s, t) # {}
  BY <1>1, <1>2, <1>3 DEF IdleAmong
<1>4. CASE IdleAmong(s, t) = {}
  BY <1>1, <1>2, <1>4 DEF LongestUnused
<1> QED  BY <1>3, <1>4

\* One pass of allow, eviction included, keeps the table within its bound.
LEMMA TakeKeepsBound ==
    ASSUME TableInv, NEW r \in Reqs, TakeFromClient(r)
    PROVE  TableInv'
<1> DEFINE D == DOMAIN buckets
           c == addr[r]
<1>1. PICK gone \in Evictions(c, now[r]) : DOMAIN buckets' = (D \ gone) \cup {c}
  BY DEF TakeFromClient, With, Without
<1>2. CASE c \in D
  <2>1. gone = {}
    BY <1>2 DEF Evictions
  <2>2. DOMAIN buckets' = D
    BY <1>1, <1>2, <2>1
  <2> QED  BY <2>2 DEF TableInv
<1>3. CASE c \notin D /\ Cardinality(D) < MaxClients
  <2>1. gone = {}
    BY <1>3 DEF Evictions
  <2>2. DOMAIN buckets' = D \cup {c}
    BY <1>1, <2>1
  <2>3. IsFiniteSet(D \cup {c}) /\ Cardinality(D \cup {c}) = Cardinality(D) + 1
    BY <1>3, FS_AddElement DEF TableInv
  <2>4. Cardinality(D) \in Nat
    BY FS_CardinalityType DEF TableInv
  <2> QED  BY <1>3, <2>2, <2>3, <2>4, SizesAssumption DEF TableInv
<1>4. CASE c \notin D /\ ~(Cardinality(D) < MaxClients)
  <2>1. gone \subseteq D /\ gone # {}
    BY <1>4, EvictionFrees
  <2>2. PICK d \in gone : TRUE
    BY <2>1
  <2>3. /\ IsFiniteSet(D \ {d}) /\ Cardinality(D \ {d}) = Cardinality(D) - 1
        /\ Cardinality(D) \in Nat
    BY <2>1, <2>2, FS_RemoveElement, FS_CardinalityType DEF TableInv
  <2>4. /\ IsFiniteSet(D \ gone) /\ Cardinality(D \ gone) <= Cardinality(D \ {d})
        /\ Cardinality(D \ gone) \in Nat
    <3>1. (D \ gone) \subseteq (D \ {d})
      BY <2>2
    <3> QED  BY <2>3, <3>1, FS_Subset, FS_CardinalityType
  <2>5. /\ IsFiniteSet((D \ gone) \cup {c})
        /\ Cardinality((D \ gone) \cup {c}) = Cardinality(D \ gone) + 1
    BY <1>4, <2>4, FS_AddElement
  <2> QED  BY <1>1, <2>3, <2>4, <2>5, SizesAssumption DEF TableInv
<1> QED  BY <1>2, <1>3, <1>4

\* Every step does.
LEMMA TableStep == TableInv /\ [Next]_vars => TableInv'
<1> SUFFICES ASSUME TableInv, [Next]_vars PROVE TableInv'
  OBVIOUS
<1>1. ASSUME NEW r \in Reqs, ClientRefused(r) \/ ClientAdmitted(r) PROVE TableInv'
  BY <1>1, TakeKeepsBound DEF ClientRefused, ClientAdmitted
<1>2. Next => \/ buckets' = buckets
              \/ \E r \in Reqs : ClientRefused(r) \/ ClientAdmitted(r)
  BY DEF Next, AdmissionStep, Arrive, GlobalRefused, GlobalAdmitted, AcquireNow,
         AcquireWaits, AcquireLater, AcquireGivesUp, Release, Tick, limiter
<1> QED  BY <1>1, <1>2 DEF vars, limiter, TableInv

(* Tracking clients never takes more than MaxClients buckets, whatever sample   *)
(* of whatever size an eviction looks at.                                     *)
THEOREM TableKept == Spec => []TrackedClientsBounded
<1>1. Init => TableInv
  <2> SUFFICES ASSUME Init PROVE TableInv
    OBVIOUS
  <2>1. DOMAIN buckets = {}
    BY DEF Init, Empty
  <2> QED  BY <2>1, FS_EmptySet, SizesAssumption DEF TableInv
<1>2. TableInv => TrackedClientsBounded
  BY DEF TableInv, TrackedClientsBounded
<1> QED  BY <1>1, <1>2, TableStep, PTL DEF Spec

-----------------------------------------------------------------------------
(* Buckets                                                                  *)

\* A refill moves the bucket on to the instant, unless it is past it, and adds no
\* more than the rate gives for that, and never beyond the burst.
LEMMA Refilled ==
    ASSUME NEW b \in Bucket, NEW t \in Nat, NEW rate \in Nat, NEW burst \in Nat,
           b.tokens <= burst,
           NEW f, f = Refill(b, t, rate, burst)
    PROVE  /\ f \in Bucket /\ f.tokens \in Nat /\ f.last \in Nat
           /\ f.tokens <= burst
           /\ f.last >= t /\ f.last >= b.last /\ f.last \in {t, b.last}
           /\ f.tokens <= b.tokens + rate * (f.last - b.last)
           /\ b.tokens <= f.tokens
<1>1. b.tokens \in Nat /\ b.last \in Nat
  BY DEF Bucket
<1>2. CASE t > b.last
  <2>1. (t - b.last) * rate \in Nat /\ (t - b.last) * rate = rate * (t - b.last)
    BY <1>1, <1>2
  <2> DEFINE n == Smaller(burst, b.tokens + (t - b.last) * rate)
  <2>2. n \in Nat /\ n <= burst /\ n <= b.tokens + rate * (t - b.last) /\ b.tokens <= n
    <3> HIDE DEF n
    <3> QED  BY <1>1, <2>1 DEF Smaller, n
  <2>3. f = [tokens |-> n, last |-> t]
    BY <1>2 DEF Refill
  <2> QED  BY <1>1, <1>2, <2>2, <2>3 DEF Bucket
<1>3. CASE ~(t > b.last)
  <2>1. f = b
    BY <1>3 DEF Refill
  <2>2. rate * (f.last - b.last) = 0
    BY <1>1, <2>1
  <2> QED  BY <1>1, <1>3, <2>1, <2>2
<1> QED  BY <1>2, <1>3

\* Taking refills, and takes a token if there is one.
LEMMA Taken ==
    ASSUME NEW b \in Bucket, NEW t \in Nat, NEW rate \in Nat, NEW burst \in Nat,
           b.tokens <= burst
    PROVE  /\ Take(b, t, rate, burst) \in Bucket
           /\ Take(b, t, rate, burst).tokens \in Nat
           /\ Take(b, t, rate, burst).last \in Nat
           /\ Take(b, t, rate, burst).tokens <= burst
           /\ Take(b, t, rate, burst).last = Refill(b, t, rate, burst).last
           /\ HasToken(b, t, rate, burst) =>
                Take(b, t, rate, burst).tokens = Refill(b, t, rate, burst).tokens - 1
           /\ ~HasToken(b, t, rate, burst) =>
                /\ Take(b, t, rate, burst).tokens = 0
                /\ Refill(b, t, rate, burst).tokens = 0
<1> DEFINE f == Refill(b, t, rate, burst)
           u == Take(b, t, rate, burst)
<1>1. f \in Bucket /\ f.tokens \in Nat /\ f.last \in Nat /\ f.tokens <= burst
  BY Refilled
<1>2. CASE f.tokens >= 1
  <2>1. u = [f EXCEPT !.tokens = @ - 1]
    BY <1>2 DEF Take
  <2>2. HasToken(b, t, rate, burst)
    BY <1>2 DEF HasToken
  <2> HIDE DEF f, u
  <2>3. u \in Bucket /\ u.tokens \in Nat /\ u.last \in Nat /\ u.tokens <= burst
        /\ u.last = f.last /\ u.tokens = f.tokens - 1
    BY <1>1, <1>2, <2>1 DEF Bucket
  <2> QED  BY <2>2, <2>3 DEF f, u
<1>3. CASE ~(f.tokens >= 1)
  <2>1. u = f /\ ~HasToken(b, t, rate, burst)
    BY <1>3 DEF Take, HasToken
  <2>2. f.tokens = 0
    BY <1>1, <1>3
  <2> QED  BY <1>1, <2>1, <2>2
<1> QED  BY <1>2, <1>3

\* A bucket that is behind another in time and ahead in tokens, or is new, stays so
\* when both are asked at the same instant, and has a token when the other has.
LEMMA TakenInStep ==
    ASSUME NEW b \in Bucket, NEW p \in Bucket, NEW t \in Nat,
           NEW rate \in Nat, NEW burst \in Nat,
           b.tokens <= burst, p.tokens <= burst,
           b.last <= p.last \/ b = Full(t, burst), p.tokens <= b.tokens,
           NEW f, f = Refill(b, t, rate, burst), NEW g, g = Refill(p, t, rate, burst),
           NEW u, u = Take(b, t, rate, burst), NEW v, v = Take(p, t, rate, burst)
    PROVE  /\ u.last <= v.last /\ v.tokens <= u.tokens
           /\ HasToken(p, t, rate, burst) => HasToken(b, t, rate, burst)
<1>1. /\ b.tokens \in Nat /\ b.last \in Nat /\ p.tokens \in Nat /\ p.last \in Nat
      /\ b.last <= p.last \/ (b.last = t /\ b.tokens = burst)
  BY DEF Bucket, Full
<1>2. /\ f.tokens \in Nat /\ f.last \in Nat /\ g.tokens \in Nat /\ g.last \in Nat
      /\ f.last >= t /\ g.last >= t /\ f.last \in {t, b.last} /\ g.last >= p.last
      /\ b.tokens <= f.tokens /\ g.tokens <= burst
  BY Refilled
<1>3. f.last <= g.last
  BY <1>1, <1>2
<1>4. g.tokens <= f.tokens
  <2>1. CASE t > p.last /\ t > b.last
    <3>1. /\ f.tokens = Smaller(burst, b.tokens + (t - b.last) * rate)
          /\ g.tokens = Smaller(burst, p.tokens + (t - p.last) * rate)
      BY <2>1 DEF Refill
    <3>2. (t - p.last) * rate <= (t - b.last) * rate
      BY <1>1, <2>1
    <3>3. (t - p.last) * rate \in Nat /\ (t - b.last) * rate \in Nat
      BY <1>1, <2>1
    <3> QED  BY <1>1, <3>1, <3>2, <3>3 DEF Smaller
  <2>2. CASE t > p.last /\ b.last = t /\ b.tokens = burst
    <3>1. f.tokens = b.tokens
      BY <2>2 DEF Refill
    <3> QED  BY <1>1, <1>2, <2>2, <3>1
  <2>3. CASE ~(t > p.last)
    <3>1. g = p
      BY <2>3 DEF Refill
    <3> QED  BY <1>1, <1>2, <3>1
  <2> QED  BY <1>1, <2>1, <2>2, <2>3
<1>5. HasToken(p, t, rate, burst) => HasToken(b, t, rate, burst)
  BY <1>2, <1>4 DEF HasToken
<1>6. u.last = f.last /\ u.tokens \in Nat
  BY Taken
<1>7. HasToken(b, t, rate, burst) => u.tokens = f.tokens - 1
  BY Taken
<1>8. v.last = g.last /\ v.tokens \in Nat
  BY Taken
<1>9. HasToken(p, t, rate, burst) => v.tokens = g.tokens - 1
  BY Taken
<1>10. ~HasToken(p, t, rate, burst) => v.tokens = 0
  BY Taken
<1> QED  BY <1>2, <1>3, <1>4, <1>5, <1>6, <1>7, <1>8, <1>9, <1>10

-----------------------------------------------------------------------------
(* Types, and what is known of the instants the requests read               *)

\* A request between clock and lock holds an instant no older than MaxStale.
FreshInv ==
    \A r \in Reqs : pc[r] \in {"client", "global"} =>
        addr[r] \in Clients /\ now[r] <= clock /\ clock <= now[r] + MaxStale

\* No bucket, nor the one a client would have alone, holds more than the burst, and
\* the bucket is the fuller one.
BucketInv ==
    /\ \A c \in Clients : private[c].tokens <= PerClientBurst
    /\ \A k \in DOMAIN global : global[k].tokens <= GlobalBurst
    /\ \A c \in DOMAIN buckets :
         /\ buckets[c].tokens <= PerClientBurst
         /\ buckets[c].last <= clock
         /\ buckets[c].last <= private[c].last
         /\ buckets[c].tokens >= private[c].tokens
         /\ opened[c] >= 1

\* The inductive invariant behind TypeOK and OwnFaultOnly.
TInv == TypeOK /\ FreshInv /\ BucketInv

\* An eviction drops tracked clients, and never when the client is tracked itself.
LEMMA EvictionKnown ==
    ASSUME NEW c, NEW t, NEW gone \in Evictions(c, t)
    PROVE  gone \subseteq DOMAIN buckets /\ (c \in DOMAIN buckets => gone = {})
<1>1. CASE c \in DOMAIN buckets \/ Cardinality(DOMAIN buckets) < MaxClients
  BY <1>1 DEF Evictions
<1>2. CASE ~(c \in DOMAIN buckets \/ Cardinality(DOMAIN buckets) < MaxClients)
  BY <1>2, EvictionFrees
<1> QED  BY <1>1, <1>2

\* The bucket a request works on before it takes from it.
Own(r) == BucketOf(buckets, addr[r], now[r], PerClientBurst)

\* It is the client's own or a new one: no fuller than the burst, and ahead of what
\* the client alone would have left.
LEMMA OwnBucket ==
    ASSUME TInv, NEW r \in Reqs, pc[r] = "client"
    PROVE  /\ Own(r) \in Bucket /\ Own(r).tokens <= PerClientBurst
           /\ Own(r).last <= clock
           /\ private[addr[r]] \in Bucket /\ private[addr[r]].tokens <= PerClientBurst
           /\ \/ Own(r).last <= private[addr[r]].last
              \/ Own(r) = Full(now[r], PerClientBurst)
           /\ private[addr[r]].tokens <= Own(r).tokens
<1>1. addr[r] \in Clients /\ now[r] <= clock /\ now[r] \in Nat /\ clock \in Nat
  BY DEF TInv, FreshInv, TypeOK
<1>2. private[addr[r]] \in Bucket /\ private[addr[r]].tokens <= PerClientBurst
  BY <1>1 DEF TInv, TypeOK, BucketInv
<1>3. CASE addr[r] \in DOMAIN buckets
  <2>1. Own(r) = buckets[addr[r]]
    BY <1>3 DEF Own, BucketOf
  <2> QED  BY <1>2, <1>3, <2>1 DEF TInv, TypeOK, BucketInv
<1>4. CASE addr[r] \notin DOMAIN buckets
  <2>1. Own(r) = Full(now[r], PerClientBurst)
    BY <1>4 DEF Own, BucketOf
  <2>2. Own(r) = [tokens |-> PerClientBurst, last |-> now[r]]
    BY <2>1 DEF Full
  <2>3. Own(r) \in Bucket /\ Own(r).tokens = PerClientBurst /\ Own(r).last = now[r]
    BY <1>1, <2>2, RatesAssumption DEF Bucket
  <2> QED  BY <1>1, <1>2, <2>1, <2>3, RatesAssumption
<1> QED  BY <1>3, <1>4

\* What a request at its client's bucket leaves behind there.
LEMMA OwnTaken ==
    ASSUME TInv, NEW r \in Reqs, pc[r] = "client",
           NEW u, u = Take(Own(r), now[r], PerClientRate, PerClientBurst),
           NEW v, v = Take(private[addr[r]], now[r], PerClientRate, PerClientBurst)
    PROVE  /\ u \in Bucket /\ v \in Bucket
           /\ u.tokens <= PerClientBurst /\ v.tokens <= PerClientBurst
           /\ u.last <= clock /\ u.last <= v.last /\ v.tokens <= u.tokens
           /\ u.last >= Own(r).last /\ u.last >= now[r]
           /\ PrivateHasToken(r) => ClientHasToken(r)
           /\ ClientHasToken(r) =>
                u.tokens + 1 <= Own(r).tokens + PerClientRate * (u.last - Own(r).last)
           /\ u.tokens <= Own(r).tokens + PerClientRate * (u.last - Own(r).last)
           /\ ClientHasToken(r) => u.tokens + 1 <= PerClientBurst
<1> DEFINE b == Own(r)
           p == private[addr[r]]
           t == now[r]
           f == Refill(b, t, PerClientRate, PerClientBurst)
<1>1. /\ t \in Nat /\ PerClientRate \in Nat /\ PerClientBurst \in Nat
      /\ clock \in Nat /\ t <= clock
  BY RatesAssumption DEF TInv, TypeOK, FreshInv
<1>2. /\ b \in Bucket /\ p \in Bucket /\ b.tokens <= PerClientBurst
      /\ p.tokens <= PerClientBurst /\ b.last <= clock
      /\ b.last <= p.last \/ b = Full(t, PerClientBurst)
      /\ p.tokens <= b.tokens
  BY OwnBucket
<1> HIDE DEF b, p, t
<1>3. /\ f.tokens \in Nat /\ f.last \in Nat /\ f.tokens <= PerClientBurst
      /\ f.last >= t /\ f.last >= b.last /\ f.last \in {t, b.last}
      /\ f.tokens <= b.tokens + PerClientRate * (f.last - b.last)
  BY <1>1, <1>2, Refilled
<1> HIDE DEF f
<1>4. u = Take(b, t, PerClientRate, PerClientBurst)
      /\ v = Take(p, t, PerClientRate, PerClientBurst)
  BY DEF b, p, t
<1>5. /\ u \in Bucket /\ u.tokens <= PerClientBurst /\ u.last = f.last
      /\ u.tokens \in Nat
      /\ HasToken(b, t, PerClientRate, PerClientBurst) => u.tokens = f.tokens - 1
      /\ ~HasToken(b, t, PerClientRate, PerClientBurst) => u.tokens = 0 /\ f.tokens = 0
  <2> DEFINE w == Take(b, t, PerClientRate, PerClientBurst)
  <2>1. /\ w \in Bucket /\ w.tokens <= PerClientBurst /\ w.last = f.last
        /\ w.tokens \in Nat
        /\ HasToken(b, t, PerClientRate, PerClientBurst) => w.tokens = f.tokens - 1
        /\ ~HasToken(b, t, PerClientRate, PerClientBurst)
             => w.tokens = 0 /\ f.tokens = 0
    <3>1. b \in Bucket /\ b.tokens <= PerClientBurst
      BY <1>2
    <3>2. t \in Nat /\ PerClientRate \in Nat /\ PerClientBurst \in Nat
      BY <1>1
    <3> QED  BY ONLY <3>1, <3>2, Taken DEF f
  <2> HIDE DEF w
  <2>2. u = w
    BY <1>4 DEF w
  <2> QED  BY <2>1, <2>2
<1>6. v \in Bucket /\ v.tokens <= PerClientBurst
  <2>1. /\ Take(p, t, PerClientRate, PerClientBurst) \in Bucket
        /\ Take(p, t, PerClientRate, PerClientBurst).tokens <= PerClientBurst
    BY <1>1, <1>2, Taken
  <2> QED  BY <1>4, <2>1
<1>7. /\ u.last <= v.last /\ v.tokens <= u.tokens
      /\ HasToken(p, t, PerClientRate, PerClientBurst)
           => HasToken(b, t, PerClientRate, PerClientBurst)
  BY <1>1, <1>2, <1>4, TakenInStep
<1>8. /\ ClientHasToken(r) = HasToken(b, t, PerClientRate, PerClientBurst)
      /\ PrivateHasToken(r) = HasToken(p, t, PerClientRate, PerClientBurst)
  BY DEF ClientHasToken, PrivateHasToken, b, p, t, Own
<1>9. b.last \in Nat /\ b.tokens \in Nat
  BY <1>2 DEF Bucket
<1>10. u.last <= clock /\ u.last >= b.last /\ u.last >= t
  BY <1>1, <1>2, <1>3, <1>5, <1>9
<1>11. PerClientRate * (f.last - b.last) \in Int
  BY <1>1, <1>3, <1>9
<1>12. /\ ClientHasToken(r) =>
            /\ u.tokens + 1 <= b.tokens + PerClientRate * (u.last - b.last)
            /\ u.tokens + 1 <= PerClientBurst
       /\ u.tokens <= b.tokens + PerClientRate * (u.last - b.last)
  BY <1>1, <1>3, <1>5, <1>8, <1>9, <1>11
<1> QED  BY <1>5, <1>6, <1>7, <1>8, <1>10, <1>12 DEF b, p, t

\* Taking from a client's bucket keeps the types and the buckets' order.
LEMMA TakeTyped ==
    ASSUME TInv, NEW r \in Reqs, pc[r] = "client", TakeFromClient(r), UNCHANGED clock
    PROVE  /\ DOMAIN buckets' \subseteq Clients
           /\ \A c \in DOMAIN buckets' : buckets'[c] \in Bucket
           /\ private' \in [Clients -> Bucket] /\ favoured' \subseteq Clients
           /\ opened' \in [Clients -> Nat]
           /\ \A c \in Clients : private'[c].tokens <= PerClientBurst
           /\ \A c \in DOMAIN buckets' :
                /\ buckets'[c].tokens <= PerClientBurst
                /\ buckets'[c].last <= clock
                /\ buckets'[c].last <= private'[c].last
                /\ buckets'[c].tokens >= private'[c].tokens
                /\ opened'[c] >= 1
<1> DEFINE a == addr[r]
           u == Take(Own(r), now[r], PerClientRate, PerClientBurst)
           v == Take(private[a], now[r], PerClientRate, PerClientBurst)
<1>1. a \in Clients /\ clock \in Nat
  BY DEF TInv, FreshInv, TypeOK
<1>2. PICK gone \in Evictions(a, now[r]) :
         /\ buckets' = With(Without(buckets, gone), a, u)
         /\ favoured' = favoured \cup (gone \ IdleAmong(gone, now[r]))
         /\ private' = [private EXCEPT ![a] = v]
         /\ opened' = IF a \in DOMAIN buckets THEN opened
                      ELSE [opened EXCEPT ![a] = @ + 1]
  BY DEF TakeFromClient, Own
<1>3. gone \subseteq DOMAIN buckets
  BY <1>2, EvictionKnown
<1>4. /\ DOMAIN buckets' = (DOMAIN buckets \ gone) \cup {a}
      /\ buckets'[a] = u
      /\ \A c \in DOMAIN buckets \ gone : c # a => buckets'[c] = buckets[c]
  BY <1>2 DEF With, Without
<1>5. /\ u \in Bucket /\ v \in Bucket /\ u.tokens <= PerClientBurst
      /\ v.tokens <= PerClientBurst /\ u.last <= clock /\ u.last <= v.last
      /\ v.tokens <= u.tokens
  BY OwnTaken
<1> HIDE DEF u, v
<1>5a. u.tokens >= v.tokens
  <2>1. u.tokens \in Nat /\ v.tokens \in Nat
    BY <1>5 DEF Bucket
  <2> QED  BY <1>5, <2>1
<1>6. /\ private' \in [Clients -> Bucket] /\ private'[a] = v
      /\ \A c \in Clients : c # a => private'[c] = private[c]
  BY <1>1, <1>2, <1>5 DEF TInv, TypeOK
<1>7. /\ opened' \in [Clients -> Nat] /\ opened'[a] >= 1
      /\ \A c \in Clients : c # a => opened'[c] = opened[c]
  <2>1. opened \in [Clients -> Nat] /\ (a \in DOMAIN buckets => opened[a] >= 1)
    BY DEF TInv, TypeOK, BucketInv
  <2>2. CASE a \in DOMAIN buckets
    BY <1>1, <1>2, <2>1, <2>2
  <2>3. CASE a \notin DOMAIN buckets
    BY <1>1, <1>2, <2>1, <2>3
  <2> QED  BY <2>2, <2>3
<1>8. DOMAIN buckets \subseteq Clients /\ favoured \subseteq Clients
  BY DEF TInv, TypeOK
<1>9. favoured' \subseteq Clients
  BY <1>2, <1>3, <1>8
<1>10. DOMAIN buckets' \subseteq Clients
  BY <1>1, <1>4, <1>8
<1>11. \A c \in Clients : private'[c].tokens <= PerClientBurst
  BY <1>5, <1>6 DEF TInv, BucketInv
<1>12. ASSUME NEW c \in DOMAIN buckets'
       PROVE  /\ buckets'[c] \in Bucket
              /\ buckets'[c].tokens <= PerClientBurst
              /\ buckets'[c].last <= clock
              /\ buckets'[c].last <= private'[c].last
              /\ buckets'[c].tokens >= private'[c].tokens
              /\ opened'[c] >= 1
  <2>1. CASE c = a
    BY <1>4, <1>5, <1>5a, <1>6, <1>7, <2>1
  <2>2. CASE c # a
    <3>1. c \in DOMAIN buckets /\ c \in Clients
      BY <1>4, <1>8, <2>2
    <3>2. /\ buckets'[c] = buckets[c] /\ private'[c] = private[c]
          /\ opened'[c] = opened[c]
      BY <1>4, <1>6, <1>7, <2>2, <3>1
    <3> QED  BY <3>1, <3>2 DEF TInv, TypeOK, BucketInv
  <2> QED  BY <2>1, <2>2
<1> QED  BY <1>6, <1>7, <1>9, <1>10, <1>11, <1>12

\* A step that leaves a request no longer between clock and lock, or with an instant
\* it has just read, keeps the instants fresh.
LEMMA FreshKept ==
    ASSUME TInv, NEW r \in Reqs, clock' = clock,
           NEW label, pc' = [pc EXCEPT ![r] = label],
           \A q \in Reqs : q # r => addr'[q] = addr[q] /\ now'[q] = now[q],
           label \in {"client", "global"} => addr'[r] \in Clients /\ now'[r] = clock
    PROVE  FreshInv'
<1> SUFFICES ASSUME NEW q \in Reqs, pc'[q] \in {"client", "global"}
             PROVE  addr'[q] \in Clients /\ now'[q] <= clock /\ clock <= now'[q] + MaxStale
  BY DEF FreshInv
<1>1. clock \in Nat /\ MaxStale \in Nat /\ DOMAIN pc = Reqs
  BY TimeAssumption DEF TInv, TypeOK
<1>2. CASE q = r
  BY <1>1, <1>2
<1>3. CASE q # r
  BY <1>1, <1>3 DEF TInv, FreshInv
<1> QED  BY <1>2, <1>3

\* What allow and the history keep per client.
Tables == <<buckets, private, opened, favoured, log>>

\* The steps of the limiter's other parts: the per-client table is left alone.
LEMMA TypedElsewhere ==
    ASSUME TInv, FreshInv', UNCHANGED <<clock, Tables>>, sem' \in 0..MaxConcurrent,
           NEW r \in Reqs,
           NEW label \in {"client", "global", "acquire", "waiting", "serving"} \cup Ended,
           pc' = [pc EXCEPT ![r] = label],
           addr' \in [Reqs -> Clients \cup {Nobody}], now' \in [Reqs -> Nat],
           \/ UNCHANGED global
           \/ pc[r] = "global" /\ TakeFromGlobal(r)
    PROVE  TInv'
<1>1. pc' \in [Reqs -> {"idle", "client", "global", "acquire", "waiting", "serving"}
                       \cup Ended]
  BY DEF TInv, TypeOK
<1>2. /\ DOMAIN global' \subseteq {""}
      /\ \A k \in DOMAIN global' : global'[k] \in Bucket
      /\ \A k \in DOMAIN global' : global'[k].tokens <= GlobalBurst
  <2>1. CASE UNCHANGED global
    BY <2>1 DEF TInv, TypeOK, BucketInv
  <2>2. CASE pc[r] = "global" /\ TakeFromGlobal(r)
    <3> DEFINE b == GlobalBucket(r)
    <3>1. /\ now[r] \in Nat /\ GlobalRate \in Nat /\ GlobalBurst \in Nat
      BY RatesAssumption DEF TInv, TypeOK
    <3>2. b \in Bucket /\ b.tokens <= GlobalBurst
      <4>1. CASE "" \in DOMAIN global
        BY <4>1 DEF GlobalBucket, BucketOf, TInv, TypeOK, BucketInv
      <4>2. CASE "" \notin DOMAIN global
        <5>1. b = [tokens |-> GlobalBurst, last |-> now[r]]
          BY <4>2 DEF GlobalBucket, BucketOf, Full
        <5> QED  BY <3>1, <5>1 DEF Bucket
      <4> QED  BY <4>1, <4>2
    <3> HIDE DEF b
    <3> DEFINE w == Take(b, now[r], GlobalRate, GlobalBurst)
    <3>3. w \in Bucket /\ w.tokens <= GlobalBurst
      BY ONLY <3>1, <3>2, Taken
    <3>4. global' = With(global, "", w)
      BY <2>2 DEF TakeFromGlobal, b
    <3> HIDE DEF w
    <3>5. DOMAIN global \subseteq {""}
      BY DEF TInv, TypeOK
    <3>6. global' = [k \in {""} |-> w]
      BY <3>4, <3>5 DEF With
    <3> QED  BY <3>3, <3>6
  <2> QED  BY <2>1, <2>2
<1>3. BucketInv'
  BY <1>2 DEF TInv, BucketInv, Tables
<1>4. TypeOK'
  BY <1>1, <1>2 DEF TInv, TypeOK, Tables
<1> QED  BY <1>3, <1>4 DEF TInv

\* Every step keeps the types, the instants fresh and the buckets ahead.
LEMMA TypeStep == TInv /\ SlotInv' /\ [Next]_vars => TInv'
<1> SUFFICES ASSUME TInv, SlotInv', [Next]_vars PROVE TInv'
  OBVIOUS
<1> DEFINE Labels == {"idle", "client", "global", "acquire", "waiting", "serving"}
                     \cup Ended
<1>1. /\ addr \in [Reqs -> Clients \cup {Nobody}] /\ now \in [Reqs -> Nat]
      /\ clock \in Nat /\ pc \in [Reqs -> Labels] /\ log \in [Clients -> Seq(Nat)]
  BY DEF TInv, TypeOK
<1>2. sem' \in 0..MaxConcurrent
  BY DEF SlotInv
<1>3. CASE UNCHANGED vars
  BY <1>3 DEF TInv, TypeOK, FreshInv, BucketInv, vars, limiter, history
<1>4. CASE Tick
  <2>1. /\ clock' = clock + 1 /\ clock' \in Nat
        /\ UNCHANGED <<buckets, global, sem, pc, addr, now>>
        /\ UNCHANGED <<private, favoured, opened, log>>
        /\ \A r \in Reqs : pc[r] \in {"client", "global"} => clock < now[r] + MaxStale
    BY <1>1, <1>4 DEF Tick, limiter, history
  <2>2. TypeOK'
    BY <2>1 DEF TInv, TypeOK
  <2>3. FreshInv'
    <3> SUFFICES ASSUME NEW r \in Reqs, pc[r] \in {"client", "global"}
                 PROVE  /\ addr[r] \in Clients /\ now[r] <= clock + 1
                        /\ clock + 1 <= now[r] + MaxStale
      BY <2>1 DEF FreshInv
    <3>1. now[r] \in Nat /\ now[r] <= clock /\ addr[r] \in Clients
      BY <1>1 DEF TInv, FreshInv
    <3> QED  BY <1>1, <2>1, <3>1, TimeAssumption
  <2>4. \A c \in DOMAIN buckets : buckets[c].last <= clock + 1
    <3> SUFFICES ASSUME NEW c \in DOMAIN buckets PROVE buckets[c].last <= clock + 1
      OBVIOUS
    <3>1. buckets[c] \in Bucket /\ buckets[c].last <= clock
      BY DEF TInv, TypeOK, BucketInv
    <3>2. buckets[c].last \in Nat
      BY <3>1 DEF Bucket
    <3> QED  BY <1>1, <3>1, <3>2
  <2>5. BucketInv'
    BY <2>1, <2>4 DEF TInv, BucketInv
  <2> QED  BY <2>2, <2>3, <2>5 DEF TInv
<1>5. ASSUME NEW r \in Reqs, Arrive(r) PROVE TInv'
  <2>1. PICK c \in Clients : addr' = [addr EXCEPT ![r] = c]
    BY <1>5 DEF Arrive
  <2>2. FreshInv'
    BY <1>1, <1>5, <2>1, FreshKept DEF Arrive, Goto
  <2>3. /\ pc' = [pc EXCEPT ![r] = "client"] /\ UNCHANGED <<clock, Tables>>
        /\ UNCHANGED global /\ now' \in [Reqs -> Nat]
        /\ addr' \in [Reqs -> Clients \cup {Nobody}]
    BY <1>1, <1>5, <2>1 DEF Arrive, Goto, limiter, history, Tables
  <2> QED  BY <1>2, <2>2, <2>3, TypedElsewhere
<1>6. ASSUME NEW r \in Reqs, ClientRefused(r) \/ ClientAdmitted(r) PROVE TInv'
  <2>1. pc[r] = "client" /\ TakeFromClient(r) /\ UNCHANGED <<clock, global, addr>>
    BY <1>6 DEF ClientRefused, ClientAdmitted
  <2>2. addr[r] \in Clients
    BY <2>1 DEF TInv, FreshInv
  <2>3. now' \in [Reqs -> Nat]
    BY <1>1, <1>6 DEF ClientRefused, ClientAdmitted
  <2>4. log' \in [Clients -> Seq(Nat)]
    <3>1. CASE ClientRefused(r)
      BY <1>1, <3>1 DEF ClientRefused
    <3>2. CASE ClientAdmitted(r)
      <4>1. log' = [log EXCEPT ![addr[r]] = Append(@, clock)]
        BY <3>2 DEF ClientAdmitted
      <4>2. Append(log[addr[r]], clock) \in Seq(Nat)
        BY <1>1, <2>2
      <4> QED  BY <1>1, <4>1, <4>2
    <3> QED  BY <1>6, <3>1, <3>2
  <2>5. PICK label \in {"refused", "global"} :
           /\ pc' = [pc EXCEPT ![r] = label]
           /\ label = "global" => now' = [now EXCEPT ![r] = clock]
           /\ label = "refused" => now' = now
    <3>1. CASE ClientRefused(r)
      BY <3>1 DEF ClientRefused, Goto
    <3>2. CASE ClientAdmitted(r)
      BY <3>2 DEF ClientAdmitted, Goto
    <3> QED  BY <1>6, <3>1, <3>2
  <2>6. FreshInv'
    <3>1. \A q \in Reqs : q # r => addr'[q] = addr[q] /\ now'[q] = now[q]
      BY <1>1, <2>1, <2>5
    <3>2. label \in {"client", "global"} => addr'[r] \in Clients /\ now'[r] = clock
      BY <1>1, <2>1, <2>2, <2>5
    <3> QED  BY <2>1, <2>5, <3>1, <3>2, FreshKept
  <2>7. pc' \in [Reqs -> Labels]
    BY <1>1, <2>5 DEF Ended
  <2>8. /\ DOMAIN buckets' \subseteq Clients
        /\ \A c \in DOMAIN buckets' : buckets'[c] \in Bucket
        /\ private' \in [Clients -> Bucket] /\ favoured' \subseteq Clients
        /\ opened' \in [Clients -> Nat]
        /\ \A c \in Clients : private'[c].tokens <= PerClientBurst
        /\ \A c \in DOMAIN buckets' :
             /\ buckets'[c].tokens <= PerClientBurst
             /\ buckets'[c].last <= clock
             /\ buckets'[c].last <= private'[c].last
             /\ buckets'[c].tokens >= private'[c].tokens
             /\ opened'[c] >= 1
    BY <2>1, TakeTyped
  <2>9. BucketInv'
    BY <2>1, <2>8 DEF TInv, BucketInv
  <2>10. TypeOK'
    BY <1>1, <1>2, <2>1, <2>3, <2>4, <2>7, <2>8 DEF TInv, TypeOK
  <2> QED  BY <2>6, <2>9, <2>10 DEF TInv
<1>7. ASSUME NEW r \in Reqs,
             \/ GlobalRefused(r) \/ GlobalAdmitted(r) \/ AcquireNow(r)
             \/ AcquireWaits(r) \/ AcquireLater(r) \/ AcquireGivesUp(r) \/ Release(r)
      PROVE  TInv'
  <2>1. PICK label \in {"acquire", "waiting", "serving"} \cup Ended :
           pc' = [pc EXCEPT ![r] = label]
    BY <1>7 DEF GlobalRefused, GlobalAdmitted, AcquireNow, AcquireWaits, AcquireLater,
                AcquireGivesUp, Release, Goto, Ended
  <2>2. /\ UNCHANGED <<clock, Tables>> /\ addr' = addr /\ now' = now
        /\ UNCHANGED global \/ (pc[r] = "global" /\ TakeFromGlobal(r))
    BY <1>7 DEF GlobalRefused, GlobalAdmitted, AcquireNow, AcquireWaits, AcquireLater,
                AcquireGivesUp, Release, limiter, history, Tables
  <2>3. FreshInv'
    <3>1. label \notin {"client", "global"}
      BY DEF Ended
    <3> QED  BY <2>1, <2>2, <3>1, FreshKept
  <2> QED  BY <1>1, <1>2, <2>1, <2>2, <2>3, TypedElsewhere
<1> QED
  BY <1>3, <1>4, <1>5, <1>6, <1>7 DEF Next, AdmissionStep

\* At first no bucket is open and no instant read.
LEMMA InitTyped == Init => TInv
<1> SUFFICES ASSUME Init PROVE TInv
  OBVIOUS
<1>1. /\ Full(0, PerClientBurst) = [tokens |-> PerClientBurst, last |-> 0]
      /\ DOMAIN Empty = {}
  BY DEF Full, Empty
<1>2. Full(0, PerClientBurst) \in Bucket /\ Full(0, PerClientBurst).tokens = PerClientBurst
  BY <1>1, RatesAssumption DEF Bucket
<1>3. TypeOK
  BY <1>1, <1>2, SizesAssumption DEF Init, TypeOK
<1>4. FreshInv
  BY DEF Init, FreshInv
<1>5. BucketInv
  BY <1>1, <1>2, RatesAssumption DEF Init, BucketInv
<1> QED  BY <1>3, <1>4, <1>5 DEF TInv

(* The limiter's tables and the requests' locals keep their types: no count of   *)
(* tokens or of slots goes below zero, whatever instant a request acts on.       *)
THEOREM TypeCorrect == Spec => []TypeOK
<1>1. TInv => TypeOK
  BY DEF TInv
<1> QED  BY <1>1, InitTyped, InitSlots, SlotStep, TypeStep, PTL DEF Spec

(* Nobody is refused for what others did, whatever was evicted when: the bucket   *)
(* a client has is never behind the one it would have alone.                     *)
THEOREM OwnFault == Spec => OwnFaultOnly
<1>1. ASSUME TInv, [Next]_vars
      PROVE  [\A r \in Reqs : (pc[r] = "client" /\ pc'[r] = "refused")
                                 => ~PrivateHasToken(r)]_vars
  <2> SUFFICES ASSUME Next, NEW r \in Reqs, pc[r] = "client", pc'[r] = "refused"
               PROVE  ~PrivateHasToken(r)
    BY <1>1
  <2>1. DOMAIN pc = Reqs
    BY <1>1 DEF TInv, TypeOK
  <2>2. ClientRefused(r)
    BY <2>1 DEF Next, AdmissionStep, Arrive, ClientRefused, ClientAdmitted,
                GlobalRefused, GlobalAdmitted, AcquireNow, AcquireWaits, AcquireLater,
                AcquireGivesUp, Release, Tick, Goto
  <2>3. ~ClientHasToken(r)
    BY <2>2 DEF ClientRefused
  <2> QED  BY <1>1, <2>3, OwnTaken
<1> QED  BY <1>1, InitTyped, InitSlots, SlotStep, TypeStep, PTL DEF Spec, OwnFaultOnly

-----------------------------------------------------------------------------
(* What a client gets admitted                                              *)

\* What the rate allows over d ticks, with an instant's age for each of n buckets.
Allowed(d, n) == PerClientRate * (d + n * MaxStale)

\* The arithmetic of products that follows rests on.
LEMMA Products ==
    /\ \A k \in Nat : \A x, y \in Int : k * x \in Int /\ k * (x + y) = k * x + k * y
    /\ \A k \in Nat : \A x, y \in Int : x <= y => k * x <= k * y
    /\ \A m, n, k \in Nat : m <= n => m * k <= n * k
    /\ \A n, k \in Nat : (n + 1) * k = n * k + k /\ n * k \in Nat
<1>1. \A k \in Nat : \A x, y \in Int : k * x \in Int /\ k * (x + y) = k * x + k * y
  OBVIOUS
<1>2. \A k \in Nat : \A x, y \in Int : x <= y => k * x <= k * y
  OBVIOUS
<1>3. \A m, n, k \in Nat : m <= n => m * k <= n * k
  OBVIOUS
<1>4. \A n, k \in Nat : (n + 1) * k = n * k + k /\ n * k \in Nat
  OBVIOUS
<1> QED  BY <1>1, <1>2, <1>3, <1>4

\* The allowance is a number,
LEMMA AllowedInt ==
    ASSUME NEW d \in Int, NEW n \in Nat
    PROVE  Allowed(d, n) \in Int
<1>1. PerClientRate \in Nat /\ MaxStale \in Nat
  BY RatesAssumption, TimeAssumption
<1>2. n * MaxStale \in Nat
  BY <1>1, Products
<1> QED  BY <1>1, <1>2, Products DEF Allowed

\* More time and more buckets allow no less.
LEMMA AllowedGrows ==
    ASSUME NEW d \in Int, NEW e \in Int, NEW m \in Nat, NEW n \in Nat, d <= e, m <= n
    PROVE  Allowed(d, m) <= Allowed(e, n)
<1>1. PerClientRate \in Nat /\ MaxStale \in Nat
  BY RatesAssumption, TimeAssumption
<1>2. m * MaxStale \in Nat /\ n * MaxStale \in Nat /\ m * MaxStale <= n * MaxStale
  BY <1>1, Products
<1>3. d + m * MaxStale <= e + n * MaxStale
  BY <1>2
<1>4. d + m * MaxStale \in Int /\ e + n * MaxStale \in Int
  BY <1>2
<1> QED  BY <1>1, <1>3, <1>4, Products DEF Allowed

\* Every tick allows the rate.
LEMMA AllowedByRate ==
    ASSUME NEW d \in Int, NEW e \in Int, NEW n \in Nat
    PROVE  Allowed(d, n) + PerClientRate * (e - d) = Allowed(e, n)
<1>1. PerClientRate \in Nat /\ MaxStale \in Nat
  BY RatesAssumption, TimeAssumption
<1>2. n * MaxStale \in Nat
  BY <1>1, Products
<1> DEFINE x == d + n * MaxStale
           y == e - d
<1>3. x \in Int /\ y \in Int /\ x + y = e + n * MaxStale
  BY <1>2
<1> HIDE DEF x, y
<1>4. PerClientRate * (x + y) = PerClientRate * x + PerClientRate * y
  BY <1>1, <1>3, Products
<1> QED  BY <1>3, <1>4 DEF Allowed, x, y

\* One bucket more makes up for an instant that was MaxStale old.
LEMMA AllowedForAge ==
    ASSUME NEW d \in Int, NEW e \in Int, NEW n \in Nat, d <= e + MaxStale
    PROVE  Allowed(d, n) <= Allowed(e, n + 1)
<1>1. PerClientRate \in Nat /\ MaxStale \in Nat
  BY RatesAssumption, TimeAssumption
<1>2. n * MaxStale \in Nat /\ (n + 1) * MaxStale = n * MaxStale + MaxStale
  BY <1>1, Products
<1>3. d + n * MaxStale <= e + (n + 1) * MaxStale
  BY <1>1, <1>2
<1>4. d + n * MaxStale \in Int /\ e + (n + 1) * MaxStale \in Int
  BY <1>1, <1>2
<1> QED  BY <1>1, <1>3, <1>4, Products DEF Allowed

\* and not negative once a bucket was opened, however stale the instants.
LEMMA AllowedNat ==
    ASSUME NEW d \in Int, NEW n \in Nat, n >= 1, 0 <= d + MaxStale
    PROVE  0 <= Allowed(d, n)
<1>1. PerClientRate \in Nat /\ MaxStale \in Nat
  BY RatesAssumption, TimeAssumption
<1>2. n * MaxStale \in Nat /\ 1 * MaxStale <= n * MaxStale
  BY <1>1, Products
<1>3. 0 <= d + n * MaxStale /\ d + n * MaxStale \in Int
  BY <1>1, <1>2
<1> QED  BY <1>1, <1>3, Products DEF Allowed

\* The requests of client c admitted from the i-th on.
Since(c, i) == Len(log[c]) - i + 1

\* What c got since the i-th and what its bucket still holds are together no more
\* than a full bucket and the refills since; a client whose bucket is gone, and was
\* idle when it went, has nothing beyond the refills behind it.
Spent(c, i) ==
    /\ log[c][i] <= clock
    /\ c \in DOMAIN buckets =>
         Since(c, i) + buckets[c].tokens
           <= PerClientBurst + Allowed(buckets[c].last - log[c][i], opened[c])
    /\ c \notin DOMAIN buckets => Since(c, i) <= Allowed(clock - log[c][i], opened[c])

\* Spent for every admission of every client never evicted when not idle.
SpentInv == \A c \in Clients \ favoured : \A i \in DOMAIN log[c] : Spent(c, i)

\* BudgetKept for one client.
Within(c) ==
    \A i, j \in DOMAIN log[c] : i <= j =>
        j - i + 1 <= PerClientBurst + Allowed(log[c][j] - log[c][i], opened[c])

\* BudgetKept, client by client.
WithinInv == \A c \in Clients \ favoured : Within(c)

\* The types of the numbers the two speak of.
LEMMA LogTyped ==
    ASSUME TInv, NEW c \in Clients, NEW i \in DOMAIN log[c]
    PROVE  /\ clock \in Nat /\ opened[c] \in Nat /\ log[c] \in Seq(Nat)
           /\ i \in Nat /\ i >= 1 /\ i <= Len(log[c]) /\ Len(log[c]) \in Nat
           /\ log[c][i] \in Nat /\ Since(c, i) \in Nat
           /\ c \in DOMAIN buckets =>
                buckets[c].tokens \in Nat /\ buckets[c].last \in Nat
<1>1. clock \in Nat /\ opened[c] \in Nat /\ log[c] \in Seq(Nat)
  BY DEF TInv, TypeOK
<1>2. i \in Nat /\ i >= 1 /\ i <= Len(log[c]) /\ Len(log[c]) \in Nat /\ log[c][i] \in Nat
  BY <1>1
<1>3. c \in DOMAIN buckets => buckets[c].tokens \in Nat /\ buckets[c].last \in Nat
  BY DEF TInv, TypeOK, Bucket
<1> QED  BY <1>1, <1>2, <1>3 DEF Since

\* What was within the budget stays so with the buckets opened later.
LEMMA BudgetGrows ==
    ASSUME TInv, NEW c \in Clients, Within(c), NEW n \in Nat, opened[c] <= n,
           NEW i \in DOMAIN log[c], NEW j \in DOMAIN log[c], i <= j
    PROVE  j - i + 1 <= PerClientBurst + Allowed(log[c][j] - log[c][i], n)
<1> DEFINE d == log[c][j] - log[c][i]
<1>1. /\ i \in Nat /\ j \in Nat /\ opened[c] \in Nat /\ d \in Int
      /\ PerClientBurst \in Nat
  BY LogTyped, RatesAssumption
<1>2. j - i + 1 <= PerClientBurst + Allowed(d, opened[c])
  BY DEF Within
<1> HIDE DEF d
<1>3. Allowed(d, opened[c]) \in Int /\ Allowed(d, n) \in Int
  BY <1>1, AllowedInt
<1>4. d <= d
  BY <1>1
<1>5. Allowed(d, opened[c]) <= Allowed(d, n)
  BY <1>1, <1>4, AllowedGrows
<1>6. j - i + 1 <= PerClientBurst + Allowed(d, n)
  BY <1>1, <1>2, <1>3, <1>5
<1> QED  BY <1>6 DEF d

\* Time passing takes nothing from a client's account.
LEMMA SpentKept ==
    ASSUME TInv, NEW c \in Clients, NEW i \in DOMAIN log[c], Spent(c, i),
           log'[c] = log[c], opened'[c] = opened[c],
           clock' \in Nat, clock <= clock',
           c \in DOMAIN buckets <=> c \in DOMAIN buckets',
           c \in DOMAIN buckets => buckets'[c] = buckets[c]
    PROVE  Spent(c, i)'
<1> DEFINE L == log[c][i]
<1>1. /\ clock \in Nat /\ L \in Nat /\ opened[c] \in Nat /\ Since(c, i) \in Nat
  BY LogTyped
<1>2. Since(c, i)' = Since(c, i) /\ log'[c][i] = L
  BY DEF Since
<1>3. L <= clock
  BY DEF Spent
<1>4. clock - L \in Int /\ clock' - L \in Int /\ clock - L <= clock' - L
  BY <1>1
<1>5. opened[c] <= opened[c]
  BY <1>1
<1>6. Allowed(clock - L, opened[c]) <= Allowed(clock' - L, opened[c])
  BY <1>1, <1>4, <1>5, AllowedGrows
<1>7. /\ Allowed(clock - L, opened[c]) \in Int
      /\ Allowed(clock' - L, opened[c]) \in Int
  BY <1>1, <1>4, AllowedInt
<1>8. CASE c \in DOMAIN buckets
  <2>1. Since(c, i) + buckets[c].tokens
          <= PerClientBurst + Allowed(buckets[c].last - L, opened[c])
    BY <1>8 DEF Spent
  <2>2. log'[c][i] <= clock'
    BY <1>1, <1>2, <1>3
  <2> QED  BY <1>2, <1>8, <2>1, <2>2 DEF Spent, Allowed
<1>9. CASE c \notin DOMAIN buckets
  <2>1. Since(c, i) <= Allowed(clock - L, opened[c])
    BY <1>9 DEF Spent
  <2>2. Since(c, i) <= Allowed(clock' - L, opened[c])
    BY <1>1, <1>6, <1>7, <2>1
  <2>3. log'[c][i] <= clock'
    BY <1>1, <1>2, <1>3
  <2> QED  BY <1>2, <1>9, <2>2, <2>3 DEF Spent, Allowed
<1> QED  BY <1>8, <1>9

\* A bucket that is evicted when idle had nothing left to refuse.
LEMMA SpentWhenIdle ==
    ASSUME TInv, NEW c \in DOMAIN buckets, NEW i \in DOMAIN log[c], Spent(c, i),
           NEW t \in Nat, t <= clock,
           BucketIdle(buckets[c], t, PerClientRate, PerClientBurst)
    PROVE  Since(c, i) <= Allowed(clock - log[c][i], opened[c])
<1> DEFINE L == log[c][i]
           b == buckets[c]
           o == opened[c]
<1>0. c \in Clients
  BY DEF TInv, TypeOK
<1>1. /\ clock \in Nat /\ L \in Nat /\ o \in Nat /\ Since(c, i) \in Nat
      /\ b.tokens \in Nat /\ b.last \in Nat
      /\ PerClientBurst \in Nat /\ PerClientRate \in Nat
  BY <1>0, LogTyped, RatesAssumption
<1>2. Since(c, i) + b.tokens <= PerClientBurst + Allowed(b.last - L, o)
  BY DEF Spent
<1>3. b.last <= clock
  BY DEF TInv, BucketInv
<1>4. b.tokens + (IF t > b.last THEN (t - b.last) * PerClientRate ELSE 0)
        >= PerClientBurst
  BY DEF BucketIdle
<1> HIDE DEF L, b, o
<1>5. PICK m \in Nat : /\ m = IF t > b.last THEN t ELSE b.last
                       /\ m <= clock /\ b.last <= m
  BY <1>1, <1>3
<1>6. PerClientRate * (m - b.last) \in Int
      /\ b.tokens + PerClientRate * (m - b.last) >= PerClientBurst
  <2>1. CASE t > b.last
    <3>1. (t - b.last) * PerClientRate = PerClientRate * (t - b.last)
          /\ PerClientRate * (t - b.last) \in Int
      BY <1>1
    <3> QED  BY <1>4, <1>5, <2>1, <3>1
  <2>2. CASE ~(t > b.last)
    <3>1. PerClientRate * (m - b.last) = 0
      BY <1>1, <1>5, <2>2
    <3> QED  BY <1>1, <1>4, <2>2, <3>1
  <2> QED  BY <2>1, <2>2
<1>7. b.last - L \in Int /\ m - L \in Int /\ clock - L \in Int /\ m - L <= clock - L
      /\ o <= o /\ (m - L) - (b.last - L) = m - b.last
  BY <1>1, <1>5
<1>8. Allowed(b.last - L, o) + PerClientRate * (m - b.last) = Allowed(m - L, o)
  BY <1>1, <1>7, AllowedByRate
<1>9. Allowed(m - L, o) <= Allowed(clock - L, o)
  BY <1>1, <1>7, AllowedGrows
<1>10. /\ Allowed(b.last - L, o) \in Int /\ Allowed(m - L, o) \in Int
       /\ Allowed(clock - L, o) \in Int
  BY <1>1, <1>7, AllowedInt
<1>11. Since(c, i) <= Allowed(clock - L, o)
  BY <1>1, <1>2, <1>6, <1>8, <1>9, <1>10
<1> QED  BY <1>11 DEF L, o

\* What a request finds: what its client has got since any of its admissions, with what
\* the bucket it works on holds, is within the budget.
LEMMA SpentBefore ==
    ASSUME TInv, NEW r \in Reqs, pc[r] = "client",
           NEW i \in DOMAIN log[addr[r]], Spent(addr[r], i),
           NEW n \in Nat,
           n = IF addr[r] \in DOMAIN buckets THEN opened[addr[r]] ELSE opened[addr[r]] + 1
    PROVE  Since(addr[r], i) + Own(r).tokens
             <= PerClientBurst + Allowed(Own(r).last - log[addr[r]][i], n)
<1> DEFINE a == addr[r]
           L == log[a][i]
<1>1. /\ a \in Clients /\ now[r] <= clock /\ clock <= now[r] + MaxStale
      /\ now[r] \in Nat /\ PerClientBurst \in Nat /\ MaxStale \in Nat
  BY RatesAssumption, TimeAssumption DEF TInv, FreshInv, TypeOK
<1>2. clock \in Nat /\ L \in Nat /\ opened[a] \in Nat /\ Since(a, i) \in Nat
  BY <1>1, LogTyped
<1>3. CASE a \in DOMAIN buckets
  <2>1. Own(r) = buckets[a] /\ n = opened[a]
    BY <1>3 DEF Own, BucketOf
  <2> QED  BY <1>3, <2>1 DEF Spent
<1>4. CASE a \notin DOMAIN buckets
  <2>1. Own(r) = [tokens |-> PerClientBurst, last |-> now[r]] /\ n = opened[a] + 1
    BY <1>4 DEF Own, BucketOf, Full
  <2>2. Since(a, i) <= Allowed(clock - L, opened[a])
    BY <1>4 DEF Spent
  <2> HIDE DEF a, L
  <2>3. clock - L \in Int /\ now[r] - L \in Int /\ clock - L <= (now[r] - L) + MaxStale
    BY <1>1, <1>2
  <2>4. Allowed(clock - L, opened[a]) <= Allowed(now[r] - L, opened[a] + 1)
    BY <1>2, <2>3, AllowedForAge
  <2>5. Allowed(clock - L, opened[a]) \in Int /\ Allowed(now[r] - L, n) \in Int
    BY <1>2, <2>3, AllowedInt
  <2>6. Since(a, i) + PerClientBurst <= PerClientBurst + Allowed(now[r] - L, n)
    BY <1>1, <1>2, <2>1, <2>2, <2>4, <2>5
  <2> QED  BY <2>1, <2>6 DEF a, L
<1> QED  BY <1>3, <1>4

\* What a request does to its own client's account, whatever it is answered.
LEMMA SpentByTaker ==
    ASSUME TInv, SpentInv, NEW r \in Reqs, ClientRefused(r) \/ ClientAdmitted(r),
           addr[r] \notin favoured, NEW i \in DOMAIN log'[addr[r]]
    PROVE  /\ log'[addr[r]][i] <= clock /\ addr[r] \in DOMAIN buckets'
           /\ Len(log'[addr[r]]) - i + 1 + buckets'[addr[r]].tokens
                <= PerClientBurst
                   + Allowed(buckets'[addr[r]].last - log'[addr[r]][i], opened'[addr[r]])
<1> DEFINE a == addr[r]
           u == Take(Own(r), now[r], PerClientRate, PerClientBurst)
           v == Take(private[a], now[r], PerClientRate, PerClientBurst)
           b == Own(r)
           n == opened'[a]
           L == log'[a][i]
           since == Len(log'[a]) - i + 1
<1>1. pc[r] = "client" /\ TakeFromClient(r)
  BY DEF ClientRefused, ClientAdmitted
<1>2. /\ a \in Clients /\ clock \in Nat /\ now[r] \in Nat
      /\ now[r] <= clock /\ clock <= now[r] + MaxStale
      /\ log \in [Clients -> Seq(Nat)] /\ opened \in [Clients -> Nat]
      /\ PerClientBurst \in Nat /\ PerClientRate \in Nat /\ MaxStale \in Nat
  BY <1>1, RatesAssumption, TimeAssumption DEF TInv, FreshInv, TypeOK
<1>3. PICK gone \in Evictions(a, now[r]) :
         /\ buckets' = With(Without(buckets, gone), a, u)
         /\ opened' = IF a \in DOMAIN buckets THEN opened
                      ELSE [opened EXCEPT ![a] = @ + 1]
  BY <1>1 DEF TakeFromClient, Own
<1>4. a \in DOMAIN buckets' /\ buckets'[a] = u
  BY <1>3 DEF With, Without
<1>5. /\ n \in Nat /\ n >= 1
      /\ n = IF a \in DOMAIN buckets THEN opened[a] ELSE opened[a] + 1
  <2>1. a \in DOMAIN buckets => opened[a] >= 1
    BY DEF TInv, BucketInv
  <2> QED  BY <1>2, <1>3, <2>1
<1>6. /\ u \in Bucket /\ u.tokens <= PerClientBurst /\ u.last <= clock
      /\ u.last >= b.last /\ u.last >= now[r]
      /\ ClientHasToken(r) => u.tokens + 1 <= b.tokens + PerClientRate * (u.last - b.last)
      /\ u.tokens <= b.tokens + PerClientRate * (u.last - b.last)
      /\ ClientHasToken(r) => u.tokens + 1 <= PerClientBurst
  BY <1>1, OwnTaken
<1>7. b \in Bucket
  BY <1>1, OwnBucket
<1>8. u.tokens \in Nat /\ u.last \in Nat /\ b.tokens \in Nat /\ b.last \in Nat
  BY <1>6, <1>7 DEF Bucket
<1> HIDE DEF a, b, u, v, n, L, since
\* An admission made before this step.
<1>9. ASSUME i \in DOMAIN log[a], L = log[a][i], NEW k \in Nat,
             k + u.tokens <= b.tokens + PerClientRate * (u.last - b.last)
      PROVE  /\ L <= clock
             /\ Since(a, i) + k + u.tokens <= PerClientBurst + Allowed(u.last - L, n)
  <2>1. Spent(a, i)
    BY <1>2, <1>9 DEF SpentInv, a
  <2>2. L \in Nat /\ Since(a, i) \in Nat
    BY <1>2, <1>9, LogTyped
  <2>3. Since(a, i) + b.tokens <= PerClientBurst + Allowed(b.last - L, n)
    BY <1>1, <1>5, <1>9, <2>1, SpentBefore DEF a, b
  <2>4. /\ b.last - L \in Int /\ u.last - L \in Int /\ u.last - b.last \in Int
        /\ (u.last - L) - (b.last - L) = u.last - b.last
    BY ONLY <1>8, <2>2
  <2>5. Allowed(b.last - L, n) + PerClientRate * (u.last - b.last) = Allowed(u.last - L, n)
    BY <1>5, <2>4, AllowedByRate
  <2>6. Allowed(b.last - L, n) \in Int /\ Allowed(u.last - L, n) \in Int
    BY <1>5, <2>4, AllowedInt
  <2>7. L <= clock
    BY <1>9, <2>1 DEF Spent
  <2>8. PICK x \in Int : x = PerClientRate * (u.last - b.last)
    BY <1>2, <2>4, Products
  <2>9. PICK y \in Int, z \in Int : y = Allowed(b.last - L, n) /\ z = Allowed(u.last - L, n)
    BY <2>6
  <2>10. /\ Since(a, i) + b.tokens <= PerClientBurst + y /\ y + x = z
         /\ k + u.tokens <= b.tokens + x /\ PerClientBurst \in Nat
    BY <1>2, <1>9, <2>3, <2>5, <2>8, <2>9
  <2>11. Since(a, i) + k + u.tokens <= PerClientBurst + z
    BY ONLY <1>8, <2>2, <2>10, k \in Nat, x \in Int, y \in Int, z \in Int
  <2> QED  BY <2>7, <2>9, <2>11
<1>10. L <= clock /\ since + u.tokens <= PerClientBurst + Allowed(u.last - L, n)
  <2>1. CASE ClientRefused(r)
    <3>1. log' = log
      BY <2>1 DEF ClientRefused
    <3>2. i \in DOMAIN log[a] /\ L = log[a][i] /\ since = Since(a, i)
      BY <3>1 DEF L, Since, since, a
    <3>3. Since(a, i) \in Nat
      BY <1>2, <3>2, LogTyped
    <3>4. 0 + u.tokens <= b.tokens + PerClientRate * (u.last - b.last)
      BY <1>6, <1>8
    <3>5. L <= clock /\ Since(a, i) + 0 + u.tokens <= PerClientBurst + Allowed(u.last - L, n)
      BY <1>9, <3>2, <3>4
    <3> QED  BY <1>8, <3>2, <3>3, <3>5
  <2>2. CASE ClientAdmitted(r)
    <3>1. ClientHasToken(r) /\ log' = [log EXCEPT ![a] = Append(@, clock)]
      BY <2>2 DEF ClientAdmitted, a
    <3>2. log[a] \in Seq(Nat) /\ log'[a] = Append(log[a], clock) /\ Len(log[a]) \in Nat
      BY <1>2, <3>1
    <3>3. since = Len(log[a]) + 1 - i + 1
      <4>1. Len(log'[a]) = Len(log[a]) + 1
        BY <3>2
      <4>2. i \in Nat
        BY <1>2, <3>2 DEF a
      <4> QED  BY <3>2, <4>1, <4>2 DEF since
    <3>4. i \in 1..(Len(log[a]) + 1)
      BY <1>2, <3>2 DEF a
    <3>5. CASE i \in DOMAIN log[a]
      <4>1. L = log[a][i]
        BY <3>2, <3>5 DEF L
      <4>2. since = Since(a, i) + 1 /\ Since(a, i) \in Nat
        BY <3>2, <3>3, <3>4, <3>5, <1>2, LogTyped DEF Since
      <4>3. 1 + u.tokens <= b.tokens + PerClientRate * (u.last - b.last)
        BY <1>6, <1>8, <3>1
      <4>4. /\ L <= clock
            /\ Since(a, i) + 1 + u.tokens <= PerClientBurst + Allowed(u.last - L, n)
        BY <1>9, <3>5, <4>1, <4>3
      <4> QED  BY <4>2, <4>4
    <3>6. CASE i \notin DOMAIN log[a]
      <4>1. i = Len(log[a]) + 1
        BY <3>2, <3>4, <3>6
      <4>2. L = clock /\ since = 1
        BY <1>2, <3>2, <3>3, <4>1 DEF L
      <4>3. u.last - L \in Int /\ 0 <= (u.last - L) + MaxStale
        <5>1. u.last >= now[r] /\ clock <= now[r] + MaxStale
          BY <1>2, <1>6
        <5> QED  BY ONLY <1>2, <1>8, <4>2, <5>1
      <4>4. 0 <= Allowed(u.last - L, n) /\ Allowed(u.last - L, n) \in Int
        BY <1>5, <4>3, AllowedNat, AllowedInt
      <4>5. u.tokens + 1 <= PerClientBurst
        BY <1>6, <3>1
      <4> QED  BY <1>2, <1>8, <4>2, <4>4, <4>5
    <3> QED  BY <3>5, <3>6
  <2> QED  BY <2>1, <2>2
<1> QED  BY <1>4, <1>10 DEF a, L, n, since

\* The client of an admitted request is within its budget up to this admission.
LEMMA WithinByTaker ==
    ASSUME TInv, TInv', SpentInv, WithinInv, NEW r \in Reqs,
           ClientRefused(r) \/ ClientAdmitted(r), addr[r] \notin favoured
    PROVE  Within(addr[r])'
<1> DEFINE a == addr[r]
           n == opened'[a]
<1>1. pc[r] = "client" /\ TakeFromClient(r) /\ addr' = addr /\ clock' = clock
  BY DEF ClientRefused, ClientAdmitted
<1>2. /\ a \in Clients /\ clock \in Nat /\ log[a] \in Seq(Nat) /\ PerClientBurst \in Nat
      /\ opened \in [Clients -> Nat] /\ opened' \in [Clients -> Nat]
      /\ log \in [Clients -> Seq(Nat)]
  BY <1>1, RatesAssumption DEF TInv, FreshInv, TypeOK
<1>3. n \in Nat /\ opened[a] \in Nat /\ opened[a] <= n
  BY <1>1, <1>2 DEF TakeFromClient
<1>4. Within(a)
  BY <1>2 DEF WithinInv
<1>5. CASE ClientRefused(r)
  <2>1. log'[a] = log[a]
    BY <1>5 DEF ClientRefused
  <2> HIDE DEF a
  <2>2. Within(a)'
    <3> SUFFICES ASSUME NEW i \in DOMAIN log[a], NEW j \in DOMAIN log[a], i <= j
                 PROVE  j - i + 1 <= PerClientBurst + Allowed(log[a][j] - log[a][i], n)
      BY <1>1, <2>1 DEF Within, Allowed, a
    <3> QED  BY <1>2, <1>3, <1>4, <2>1, BudgetGrows
  <2> QED  BY <2>2 DEF a
<1>6. CASE ClientAdmitted(r)
  <2>1. log' = [log EXCEPT ![a] = Append(@, clock)]
    BY <1>6 DEF ClientAdmitted
  <2>2. log'[a] = Append(log[a], clock) /\ Len(log[a]) \in Nat
        /\ DOMAIN log'[a] = 1..(Len(log[a]) + 1)
    BY <1>2, <2>1
  <2> SUFFICES ASSUME NEW i \in DOMAIN log'[a], NEW j \in DOMAIN log'[a], i <= j
               PROVE  j - i + 1 <= PerClientBurst + Allowed(log'[a][j] - log'[a][i], n)
    BY <1>1 DEF Within, Allowed
  <2>3. CASE j \in DOMAIN log[a]
    <3>1. i \in DOMAIN log[a] /\ log'[a][i] = log[a][i] /\ log'[a][j] = log[a][j]
      BY <1>2, <2>2, <2>3
    <3> QED  BY <1>2, <1>3, <1>4, <2>3, <3>1, BudgetGrows
  <2>4. CASE j \notin DOMAIN log[a]
    <3> DEFINE b == buckets'[a]
               L == log'[a][i]
    <3>1. j = Len(log[a]) + 1 /\ log'[a][j] = clock /\ Len(log'[a]) = j
      <4>1. j = Len(log[a]) + 1 /\ i \in Nat
        BY <1>2, <2>2, <2>4
      <4>2. Len(log'[a]) = j /\ log'[a][j] = clock
        BY <1>2, <2>2, <4>1
      <4> QED  BY <4>1, <4>2
    <3>2. /\ a \in DOMAIN buckets'
          /\ Len(log'[a]) - i + 1 + b.tokens <= PerClientBurst + Allowed(b.last - L, n)
      BY SpentByTaker
    <3>3. b \in Bucket /\ b.last <= clock
      BY <1>1, <3>2 DEF TInv, TypeOK, BucketInv
    <3>4. b.tokens \in Nat /\ b.last \in Nat
      BY <3>3 DEF Bucket
    <3>5. L \in Nat /\ i \in Nat /\ j \in Nat
      BY <1>2, <2>2
    <3> HIDE DEF a, b, L, n
    <3>6. b.last - L \in Int /\ clock - L \in Int /\ b.last - L <= clock - L /\ n <= n
      BY <1>2, <1>3, <3>3, <3>4, <3>5
    <3>7. Allowed(b.last - L, n) <= Allowed(clock - L, n)
      BY <1>3, <3>6, AllowedGrows
    <3>8. Allowed(b.last - L, n) \in Int /\ Allowed(clock - L, n) \in Int
      BY <1>3, <3>6, AllowedInt
    <3>9. j - i + 1 <= PerClientBurst + Allowed(clock - L, n)
      BY <1>2, <3>1, <3>2, <3>4, <3>5, <3>7, <3>8
    <3> QED  BY <3>1, <3>9 DEF L
  <2> QED  BY <2>3, <2>4
<1> QED  BY <1>5, <1>6

\* Taking from a client's bucket keeps every account, the evicted ones included.
LEMMA TakeKeepsBudgets ==
    ASSUME TInv, TInv', SpentInv, WithinInv, NEW r \in Reqs,
           ClientRefused(r) \/ ClientAdmitted(r)
    PROVE  SpentInv' /\ WithinInv'
<1> DEFINE a == addr[r]
<1>1. pc[r] = "client" /\ TakeFromClient(r) /\ clock' = clock
  BY DEF ClientRefused, ClientAdmitted
<1>2. /\ a \in Clients /\ now[r] \in Nat /\ now[r] <= clock /\ clock \in Nat
      /\ log \in [Clients -> Seq(Nat)] /\ opened \in [Clients -> Nat]
  BY <1>1 DEF TInv, FreshInv, TypeOK
<1>3. PICK gone \in Evictions(a, now[r]) :
         /\ DOMAIN buckets' = (DOMAIN buckets \ gone) \cup {a}
         /\ \A c \in DOMAIN buckets \ gone : c # a => buckets'[c] = buckets[c]
         /\ favoured' = favoured \cup (gone \ IdleAmong(gone, now[r]))
         /\ opened' = IF a \in DOMAIN buckets THEN opened
                      ELSE [opened EXCEPT ![a] = @ + 1]
  BY <1>1 DEF TakeFromClient, With, Without
<1>4. gone \subseteq DOMAIN buckets
  BY <1>3, EvictionKnown
<1>5. \A c \in Clients : c # a => log'[c] = log[c] /\ opened'[c] = opened[c]
  BY <1>2, <1>3 DEF ClientRefused, ClientAdmitted
<1>6. ASSUME NEW c \in Clients \ favoured', NEW i \in DOMAIN log'[c]
      PROVE  Spent(c, i)'
  <2>1. c \notin favoured
    BY <1>3, <1>6
  <2>2. CASE c = a
    <3>1. /\ log'[a][i] <= clock /\ a \in DOMAIN buckets'
          /\ Len(log'[a]) - i + 1 + buckets'[a].tokens
               <= PerClientBurst + Allowed(buckets'[a].last - log'[a][i], opened'[a])
      BY <1>6, <2>1, <2>2, SpentByTaker
    <3> QED  BY <1>1, <2>2, <3>1 DEF Spent, Since, Allowed
  <2>3. CASE c # a
    <3>1. i \in DOMAIN log[c] /\ Spent(c, i) /\ log'[c] = log[c] /\ opened'[c] = opened[c]
      BY <1>5, <1>6, <2>1, <2>3 DEF SpentInv
    <3>2. CASE c \in gone
      <4>1. c \in IdleAmong(gone, now[r]) /\ c \in DOMAIN buckets
        BY <1>3, <1>4, <1>6, <3>2
      <4>2. BucketIdle(buckets[c], now[r], PerClientRate, PerClientBurst)
        BY <4>1 DEF IdleAmong
      <4>3. Since(c, i) <= Allowed(clock - log[c][i], opened[c])
        BY <1>2, <3>1, <4>1, <4>2, SpentWhenIdle
      <4>4. c \notin DOMAIN buckets' /\ log[c][i] <= clock
        BY <1>3, <2>3, <3>1, <3>2 DEF Spent
      <4> QED  BY <1>1, <3>1, <4>3, <4>4 DEF Spent, Since, Allowed
    <3>3. CASE c \notin gone
      <4>1. /\ c \in DOMAIN buckets <=> c \in DOMAIN buckets'
            /\ c \in DOMAIN buckets => buckets'[c] = buckets[c]
        BY <1>3, <2>3, <3>3
      <4>2. clock' \in Nat /\ clock <= clock'
        BY <1>1, <1>2
      <4> QED  BY <3>1, <4>1, <4>2, SpentKept
    <3> QED  BY <3>2, <3>3
  <2> QED  BY <2>2, <2>3
<1>7. ASSUME NEW c \in Clients \ favoured' PROVE Within(c)'
  <2>1. c \notin favoured
    BY <1>3, <1>7
  <2>2. CASE c = a
    <3>1. Within(a)'
      BY <2>1, <2>2, WithinByTaker
    <3>2. addr' = addr
      BY DEF ClientRefused, ClientAdmitted
    <3> QED  BY <2>2, <3>1, <3>2 DEF Within
  <2>3. CASE c # a
    <3>1. Within(c) /\ log'[c] = log[c] /\ opened'[c] = opened[c]
      BY <1>5, <2>1, <2>3 DEF WithinInv
    <3> QED  BY <3>1 DEF Within, Allowed
  <2> QED  BY <2>2, <2>3
<1> QED  BY <1>6, <1>7 DEF SpentInv, WithinInv

\* Every step keeps both.
LEMMA BudgetStep == TInv /\ TInv' /\ SpentInv /\ WithinInv /\ [Next]_vars
                      => SpentInv' /\ WithinInv'
<1> SUFFICES ASSUME TInv, TInv', SpentInv, WithinInv, [Next]_vars
             PROVE  SpentInv' /\ WithinInv'
  OBVIOUS
<1>1. ASSUME NEW r \in Reqs, ClientRefused(r) \/ ClientAdmitted(r)
      PROVE  SpentInv' /\ WithinInv'
  BY <1>1, TakeKeepsBudgets
<1>2. CASE UNCHANGED Tables /\ clock' \in {clock, clock + 1}
  <2>1. clock' \in Nat /\ clock <= clock' /\ UNCHANGED <<buckets, opened, favoured, log>>
    <3>1. clock \in Nat
      BY DEF TInv, TypeOK
    <3> QED  BY <1>2, <3>1 DEF Tables
  <2>2. ASSUME NEW c \in Clients \ favoured', NEW i \in DOMAIN log'[c]
        PROVE  Spent(c, i)'
    <3>1. c \in Clients \ favoured /\ i \in DOMAIN log[c] /\ Spent(c, i)
      BY <2>1, <2>2 DEF SpentInv
    <3> QED  BY <2>1, <3>1, SpentKept
  <2>3. WithinInv'
    BY <2>1 DEF WithinInv, Within, Allowed
  <2> QED  BY <2>2, <2>3 DEF SpentInv
<1>3. Next => \/ UNCHANGED Tables /\ clock' \in {clock, clock + 1}
              \/ \E r \in Reqs : ClientRefused(r) \/ ClientAdmitted(r)
  BY DEF Next, AdmissionStep, Arrive, GlobalRefused, GlobalAdmitted, AcquireNow,
         AcquireWaits, AcquireLater, AcquireGivesUp, Release, Tick, limiter, history,
         Tables
<1> QED  BY <1>1, <1>2, <1>3 DEF vars, limiter, history, Tables

(* In every stretch of time a client gets no more admitted than its burst and the *)
(* rate allow, however its requests interleave, whatever old instants they act on *)
(* and whichever idle buckets are evicted in between.                            *)
THEOREM BudgetsHold == Spec => []BudgetKept
<1>1. Init => SpentInv /\ WithinInv
  BY DEF Init, SpentInv, WithinInv, Within
<1>2. WithinInv => BudgetKept
  BY DEF WithinInv, Within, Allowed, BudgetKept
<1> QED
  BY <1>1, <1>2, InitTyped, InitSlots, SlotStep, TypeStep, BudgetStep, PTL DEF Spec
=============================================================================
