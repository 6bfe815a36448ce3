------------------------- MODULE ReplayCacheProofs -------------------------
(***************************************************************************)
(* Proofs about ReplayCache for every set of callers and keys, every TTL    *)
(* and table size and every bound on the clock. WindowBacked is the         *)
(* strengthening: a live window is either an entry of the table or was      *)
(* cleared by overflow.                                                    *)
(***************************************************************************)
EXTENDS ReplayCache, FiniteSetTheorems, TLAPS

USE ReplayTTLAssumption, ReplayMaxSizeAssumption, MaxTimeAssumption,
    ReplayKeysAssumption

\* What making room leaves of the table: some of its entries, unchanged, and
\* every entry not yet expired at `now` unless overflow cleared them all.
LEMMA RoomForKeeps ==
    ASSUME NEW s, NEW n
    PROVE  /\ DOMAIN RoomFor(s, n) \subseteq DOMAIN s
           /\ \A k \in DOMAIN s :
                 n < s[k] => k \in DOMAIN RoomFor(s, n) \/ Overflows(s, n)
<1>1. CASE Entries(s) >= ReplayMaxSize
  <2>1. CASE Overflows(s, n)
    BY <1>1, <2>1 DEF RoomFor, EvictLocked, EmptyTable
  <2>2. CASE ~Overflows(s, n)
    BY <1>1, <2>2 DEF RoomFor, EvictLocked, Unexpired
  <2> QED BY <2>1, <2>2
<1>2. CASE ~(Entries(s) >= ReplayMaxSize)
  BY <1>2 DEF RoomFor
<1> QED BY <1>1, <1>2

\* After room is made there is room: fewer than ReplayMaxSize entries remain.
LEMMA RoomForMakesRoom ==
    ASSUME NEW s, NEW n, IsFiniteSet(DOMAIN s)
    PROVE  /\ IsFiniteSet(DOMAIN RoomFor(s, n))
           /\ Cardinality(DOMAIN RoomFor(s, n)) < ReplayMaxSize
<1>0. Cardinality(DOMAIN s) \in Nat
  BY FS_CardinalityType
<1>1. CASE Entries(s) >= ReplayMaxSize
  <2>1. CASE Overflows(s, n)
    <3>1. DOMAIN RoomFor(s, n) = {}
      BY <1>1, <2>1 DEF RoomFor, EvictLocked, EmptyTable
    <3> QED BY <3>1, FS_EmptySet
  <2>2. CASE ~Overflows(s, n)
    <3>1. DOMAIN RoomFor(s, n) = Unexpired(s, n)
      BY <1>1, <2>2 DEF RoomFor, EvictLocked
    <3>2. IsFiniteSet(Unexpired(s, n))
      BY FS_Subset DEF Unexpired
    <3>3. Cardinality(Unexpired(s, n)) \in Nat
      BY <3>2, FS_CardinalityType
    <3> QED BY <1>1, <2>2, <3>1, <3>2, <3>3 DEF Overflows
  <2> QED BY <2>1, <2>2
<1>2. CASE ~(Entries(s) >= ReplayMaxSize)
  BY <1>0, <1>2 DEF RoomFor, Entries
<1> QED BY <1>1, <1>2

\* Init establishes, and every step preserves, the types.
LEMMA Typing == TypeOK /\ [Next]_vars => TypeOK'
<1> SUFFICES ASSUME TypeOK, [Next]_vars PROVE TypeOK'
  OBVIOUS
<1> USE DEF TypeOK, States
<1>1. ASSUME NEW c \in Callers, ReadClock(c) PROVE TypeOK'
  BY <1>1 DEF ReadClock
<1>2. ASSUME NEW c \in Callers, Refuse(c) PROVE TypeOK'
  BY <1>2 DEF Refuse
<1>3. ASSUME NEW c \in Callers, Accept(c) PROVE TypeOK'
  <2> DEFINE k == key[c]
             t == RoomFor(seen, now[c])
  <2>1. DOMAIN t \subseteq DOMAIN seen
    BY RoomForKeeps
  <2>2. seen' = [j \in DOMAIN t \cup {k} |->
                    IF j = k THEN now[c] + ReplayTTL ELSE seen[j]]
    BY <1>3 DEF Accept, Record
  <2>3. DOMAIN seen' = DOMAIN t \cup {k}
    BY <2>2
  <2>4. clock' = clock /\ now' = now /\ key' = key
    BY <1>3 DEF Accept
  <2>5. \A j \in DOMAIN seen' : seen'[j] \in 1..(clock' + ReplayTTL)
    <3> TAKE j \in DOMAIN seen'
    <3>1. CASE j = k
      BY <3>1, <2>2, <2>3, <2>4
    <3>2. CASE j # k
      BY <3>2, <2>1, <2>2, <2>3, <2>4
    <3> QED BY <3>1, <3>2
  <2>6. DOMAIN seen' \subseteq ReplayKeys /\ seen' = [j \in DOMAIN seen' |-> seen'[j]]
    BY <2>1, <2>2, <2>3
  <2>7. forgotten' \subseteq ReplayKeys /\ window' \in [ReplayKeys -> Nat]
    BY <1>3 DEF Accept
  <2>8. pc' \in [Callers -> States]
    BY <1>3 DEF Accept
  <2> QED BY <2>4, <2>5, <2>6, <2>7, <2>8
<1>4. CASE Tick
  BY <1>4 DEF Tick
<1>5. CASE Restart
  BY <1>5 DEF Restart, EmptyTable
<1>6. CASE UNCHANGED vars
  BY <1>6 DEF vars
<1> QED BY <1>1, <1>2, <1>3, <1>4, <1>5, <1>6 DEF Next

\* The fields of ReplayCache and the callers' locals keep their types, and no
\* recorded expiry is more than one TTL ahead of the clock.
THEOREM TypeCorrect == Spec => []TypeOK
<1>1. Init => TypeOK
  BY DEF Init, TypeOK, EmptyTable, States
<1> QED BY <1>1, Typing, PTL DEF Spec

\* No step lets the table outgrow ReplayMaxSize.
LEMMA BoundStep == TypeOK /\ TableBounded /\ [Next]_vars => TableBounded'
<1> SUFFICES ASSUME TypeOK, TableBounded, [Next]_vars PROVE TableBounded'
  OBVIOUS
<1> USE DEF TableBounded, Entries
<1>1. ASSUME NEW c \in Callers, ReadClock(c) \/ Refuse(c) PROVE TableBounded'
  BY <1>1 DEF ReadClock, Refuse
<1>2. ASSUME NEW c \in Callers, Accept(c) PROVE TableBounded'
  <2> DEFINE D == DOMAIN RoomFor(seen, now[c])
  <2>1. IsFiniteSet(DOMAIN seen)
    BY FS_Subset DEF TypeOK
  <2>2. IsFiniteSet(D) /\ Cardinality(D) < ReplayMaxSize
    BY <2>1, RoomForMakesRoom
  <2>3. DOMAIN seen' = D \cup {key[c]}
    BY <1>2 DEF Accept, Record
  <2>4. Cardinality(D) \in Nat
    BY <2>2, FS_CardinalityType
  <2>5. Cardinality(D \cup {key[c]}) \in {Cardinality(D), Cardinality(D) + 1}
    BY <2>2, FS_AddElement
  <2> QED BY <2>2, <2>3, <2>4, <2>5
<1>3. CASE Tick
  BY <1>3 DEF Tick
<1>4. CASE Restart
  BY <1>4, FS_EmptySet DEF Restart, EmptyTable
<1>5. CASE UNCHANGED vars
  BY <1>5 DEF vars
<1> QED BY <1>1, <1>2, <1>3, <1>4, <1>5 DEF Next

\* ReplayCache.Size() never exceeds the configured maximum.
THEOREM TableIsBounded == Spec => []TableBounded
<1>1. Init => TableBounded
  BY FS_EmptySet DEF Init, TableBounded, Entries, EmptyTable
<1> QED BY <1>1, BoundStep, TypeCorrect, PTL DEF Spec

\* A live window stays backed by its entry. The two interesting steps are
\* Accept, whose eviction drops only entries whose window has closed, and Tick,
\* which only closes windows.
LEMMA BackedStep == TypeOK /\ WindowBacked /\ [Next]_vars => WindowBacked'
<1> SUFFICES ASSUME TypeOK, WindowBacked, [Next]_vars PROVE WindowBacked'
  OBVIOUS
<1> USE DEF WindowBacked
<1>1. ASSUME NEW c \in Callers, ReadClock(c) \/ Refuse(c) PROVE WindowBacked'
  BY <1>1 DEF ReadClock, Refuse
<1>2. ASSUME NEW c \in Callers, Accept(c) PROVE WindowBacked'
  <2> DEFINE a == key[c]
             D == DOMAIN RoomFor(seen, now[c])
  <2>1. D \subseteq DOMAIN seen
        /\ \A k \in DOMAIN seen :
              now[c] < seen[k] => k \in D \/ Overflows(seen, now[c])
    BY RoomForKeeps
  <2>2. /\ DOMAIN seen' = D \cup {a}
        /\ \A j \in D \cup {a} :
              seen'[j] = IF j = a THEN now[c] + ReplayTTL ELSE seen[j]
    BY <1>2 DEF Accept, Record
  <2>3. /\ clock' = clock
        /\ window' = [window EXCEPT ![a] = now[c] + ReplayTTL]
        /\ forgotten' = (IF Overflows(seen, now[c])
                         THEN forgotten \cup DOMAIN seen ELSE forgotten) \ {a}
    BY <1>2 DEF Accept
  <2>4. /\ a \in ReplayKeys
        /\ window \in [ReplayKeys -> Nat]
        /\ now[c] \in Nat /\ clock \in Nat /\ now[c] <= clock
        /\ DOMAIN seen \subseteq ReplayKeys
    BY DEF TypeOK
  <2>5. \A k \in DOMAIN seen' : seen'[k] = window'[k]
    BY <2>1, <2>2, <2>3, <2>4
  <2>6. ASSUME NEW k \in ReplayKeys, clock' < window'[k]
        PROVE  k \in DOMAIN seen' \/ k \in forgotten'
    <3>1. CASE k = a
      BY <3>1, <2>2
    <3>2. CASE k # a
      <4>1. clock < window[k]
        BY <3>2, <2>3, <2>4, <2>6
      <4>2. CASE k \in forgotten
        BY <4>2, <3>2, <2>3
      <4>3. CASE k \in DOMAIN seen
        <5>1. now[c] < seen[k]
          BY <4>1, <4>3, <2>4
        <5> QED BY <5>1, <4>3, <3>2, <2>1, <2>2, <2>3
      <4> QED BY <4>1, <4>2, <4>3
    <3> QED BY <3>1, <3>2
  <2> QED BY <2>5, <2>6
<1>3. CASE Tick
  BY <1>3 DEF Tick, TypeOK
<1>4. CASE Restart
  BY <1>4 DEF Restart, EmptyTable, TypeOK
<1>5. CASE UNCHANGED vars
  BY <1>5 DEF vars
<1> QED BY <1>1, <1>2, <1>3, <1>4, <1>5 DEF Next

\* WindowBacked is an invariant: the table remembers every live window that
\* overflow has not cleared.
THEOREM WindowsAreBacked == Spec => []WindowBacked
<1>1. Init => WindowBacked
  BY DEF Init, WindowBacked, EmptyTable
<1> QED BY <1>1, BackedStep, TypeCorrect, PTL DEF Spec

\* No replay inside the TTL: Check accepts a pair again only after its TTL has
\* passed on the real clock, or after an overflow cleared it.
THEOREM ReplayRefused == Spec => NoEarlyRegrant
<1> DEFINE Regrant(c) == (pc[c] = "checking" /\ pc'[c] = "fresh")
                            => \/ clock >= window[key[c]]
                               \/ key[c] \in forgotten
<1>1. ASSUME TypeOK, WindowBacked, [Next]_vars PROVE [\A c \in Callers : Regrant(c)]_vars
  <2> SUFFICES ASSUME Next, NEW c \in Callers, pc[c] = "checking", pc'[c] = "fresh"
               PROVE  clock >= window[key[c]] \/ key[c] \in forgotten
    BY <1>1
  <2>1. Accept(c)
    BY <1>1 DEF Next, ReadClock, Refuse, Accept, Tick, Restart, TypeOK
  <2>2. /\ key[c] \in ReplayKeys /\ clock \in Nat /\ now[c] \in Nat
        /\ now[c] <= clock /\ window[key[c]] \in Nat
    BY <1>1 DEF TypeOK
  <2>3. CASE key[c] \in DOMAIN seen
    <3>1. seen[key[c]] = window[key[c]]
      BY <1>1, <2>3 DEF WindowBacked
    <3>2. ~(now[c] < seen[key[c]])
      BY <2>1, <2>3 DEF Accept, IsReplay
    <3> QED BY <3>1, <3>2, <2>2
  <2>4. CASE key[c] \notin DOMAIN seen
    BY <1>1, <2>2, <2>4 DEF WindowBacked
  <2> QED BY <2>3, <2>4
<1> QED BY <1>1, TypeCorrect, WindowsAreBacked, PTL DEF Spec, NoEarlyRegrant

\* Check refuses only a pair that was accepted and whose TTL was running.
THEOREM RefusalJustified == Spec => RefusedOnlyIfAnswered
<1> DEFINE Justified(c) == (pc[c] = "checking" /\ pc'[c] = "replayed")
                              => now[c] < window[key[c]]
<1>1. ASSUME TypeOK, WindowBacked, [Next]_vars PROVE [\A c \in Callers : Justified(c)]_vars
  <2> SUFFICES ASSUME Next, NEW c \in Callers, pc[c] = "checking", pc'[c] = "replayed"
               PROVE  now[c] < window[key[c]]
    BY <1>1
  <2>1. Refuse(c)
    BY <1>1 DEF Next, ReadClock, Refuse, Accept, Tick, Restart, TypeOK
  <2> QED BY <1>1, <2>1 DEF Refuse, IsReplay, WindowBacked
<1> QED BY <1>1, TypeCorrect, WindowsAreBacked, PTL DEF Spec, RefusedOnlyIfAnswered
=============================================================================
