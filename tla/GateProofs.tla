----------------------------- MODULE GateProofs -----------------------------
(***************************************************************************)
(* Proofs about what Enrollment must not issue, for every set of requests,   *)
(* messages and codes, every policy configuration, table size and TTL: not   *)
(* twice for one SCEP message within its replay TTL, not for a requester who *)
(* proved nothing, and not twice for one one-time code; and that a code waits *)
(* for the device it was registered for.                                   *)
(***************************************************************************)
EXTENDS EnrollmentProofs

-----------------------------------------------------------------------------
(* What a step of the broker does to one request                            *)

\* Steps of q that are about neither the parser, nor the replay check nor Authorize.
Proceeds(q) ==
    /\ UNCHANGED <<client[q], msg[q], proto[q], accepted[q], now[q]>>
    /\ \/ pc'[q] = pc[q]
       \/ pc'[q] \in {"closed", "crashed"}
       \/ pc[q] \in {"sign", "verify"} /\ pc'[q] \in {"verify", "respond"}
    /\ IssuedFor(q)' = IssuedFor(q) \/ pc[q] = "sign"

\* Only q's own step touches what q holds, and OpenBao issues for q only while q signs.
LEMMA OneStep ==
    ASSUME TInv, [Next]_vars, NEW q \in Reqs
    PROVE  \/ EstReceive(q) \/ ScepReceive(q) \/ ScepFresh(q) \/ Authorize(q)
           \/ Proceeds(q)
<1> DEFINE Left == UNCHANGED <<client[q], msg[q], proto[q], accepted[q], now[q], pc[q]>>
<1>1. ASSUME NEW r \in Reqs, EstReceive(r) \/ ScepReceive(r), r # q PROVE Proceeds(q)
  <2>1. Left
    BY <1>1 DEF EstReceive, ScepReceive, TInv, TypeOK, history
  <2>2. issued' = issued
    BY <1>1 DEF EstReceive, ScepReceive, history
  <2> QED  BY <2>1, <2>2 DEF Proceeds, IssuedFor
<1>2. ASSUME NEW r \in Reqs, ScepFresh(r) \/ Authorize(r), r # q PROVE Proceeds(q)
  <2>1. Left
    BY <1>2 DEF ScepFresh, Authorize, Close, TInv, TypeOK
  <2>2. issued' = issued
    BY <1>2 DEF ScepFresh, Authorize
  <2> QED  BY <2>1, <2>2 DEF Proceeds, IssuedFor
<1>3. ASSUME NEW r \in Reqs,
             \/ ScepReplayed(r) \/ SignFailed(r) \/ SignError(r) \/ Undecodable(r)
             \/ Withhold(r) \/ ReplyFails(r) \/ Reply(r) \/ Deliver(r)
             \/ ResponseLost(r)
      PROVE  Proceeds(q)
  <2>1. UNCHANGED <<client, msg, proto, accepted, now, issued>>
    BY <1>3 DEF ScepReplayed, SignFailed, SignError, Undecodable, Withhold, ReplyFails,
                Reply, Deliver, ResponseLost, history
  <2>2. \/ pc' = pc
        \/ pc' = [pc EXCEPT ![r] = "closed"]
        \/ pc[r] = "verify" /\ pc' = [pc EXCEPT ![r] = "respond"]
    BY <1>3 DEF ScepReplayed, SignFailed, SignError, Undecodable, Withhold, ReplyFails,
                Reply, Deliver, ResponseLost, Close
  <2>3. \/ pc'[q] = pc[q] \/ pc'[q] = "closed"
        \/ pc[q] = "verify" /\ pc'[q] = "respond"
    BY <2>2 DEF TInv, TypeOK
  <2> QED  BY <2>1, <2>3 DEF Proceeds, IssuedFor
<1>4. ASSUME NEW r \in Reqs, SignAnswered(r) \/ SignGarbled(r) \/ SignLost(r)
      PROVE  Proceeds(q)
  <2>1. UNCHANGED <<client, msg, proto, accepted, now>> /\ pc[r] = "sign"
    BY <1>4 DEF SignAnswered, SignGarbled, SignLost, MayTry
  <2>2. pc' = pc \/ pc' = [pc EXCEPT ![r] = "verify"]
    BY <1>4 DEF SignAnswered, SignGarbled, SignLost
  <2>3. PICK c : issued' = issued \cup {[cert |-> c, by |-> r]}
    BY <1>4 DEF SignAnswered, SignGarbled, SignLost
  <2>4. r # q => pc'[q] = pc[q] /\ IssuedFor(q)' = IssuedFor(q)
    BY <2>2, <2>3 DEF TInv, TypeOK, IssuedFor
  <2>5. r = q => pc[q] = "sign" /\ (pc'[q] = pc[q] \/ pc'[q] = "verify")
    BY <2>1, <2>2 DEF TInv, TypeOK
  <2> QED  BY <2>1, <2>4, <2>5 DEF Proceeds
<1>5. ASSUME NEW i \in CodeIds, AddCode(i) PROVE Proceeds(q)
  BY <1>5 DEF AddCode, local, history, Proceeds, IssuedFor
<1>6. Tick \/ UNCHANGED vars => Proceeds(q)
  BY DEF Tick, vars, local, history, Proceeds, IssuedFor
<1>7. Restart => Proceeds(q)
  BY DEF Restart, Proceeds, IssuedFor
<1> QED
  BY <1>1, <1>2, <1>3, <1>4, <1>5, <1>6, <1>7 DEF Next, RequestStep

\* The stores the requests share change only by a replay check, by Authorize, by the
\* operator and by a crash.
LEMMA StoreStep ==
    ASSUME [Next]_vars
    PROVE  /\ \/ UNCHANGED <<seen, resets>> /\ clock' \in {clock, clock + 1}
              \/ \E r \in Reqs : ScepFresh(r)
              \/ Restart
           /\ \/ UNCHANGED <<codes, spent>>
              \/ \E r \in Reqs : Authorize(r)
              \/ \E i \in CodeIds : AddCode(i)
              \/ Restart
<1>1. ASSUME NEW r \in Reqs,
             \/ EstReceive(r) \/ ScepReceive(r)
             \/ ScepReplayed(r) \/ SignFailed(r) \/ SignError(r) \/ Undecodable(r)
             \/ Withhold(r) \/ ReplyFails(r) \/ Reply(r) \/ ResponseLost(r)
      PROVE  UNCHANGED <<seen, resets, clock, codes, spent>>
  BY <1>1 DEF EstReceive, ScepReceive, ScepReplayed, SignFailed, SignError, Undecodable,
              Withhold, ReplyFails, Reply, ResponseLost, shared, history
<1>2. ASSUME NEW r \in Reqs, SignAnswered(r) \/ SignGarbled(r) \/ SignLost(r) \/ Deliver(r)
      PROVE  UNCHANGED <<seen, resets, clock, codes, spent>>
  BY <1>2 DEF SignAnswered, SignGarbled, SignLost, Deliver, shared
<1>3. ASSUME NEW r \in Reqs, ScepFresh(r) PROVE UNCHANGED <<codes, spent>>
  BY <1>3 DEF ScepFresh
<1>4. ASSUME NEW r \in Reqs, Authorize(r) PROVE UNCHANGED <<seen, resets, clock>>
  BY <1>4 DEF Authorize
<1>5. ASSUME NEW i \in CodeIds, AddCode(i) PROVE UNCHANGED <<seen, resets, clock>>
  BY <1>5 DEF AddCode, history
<1>6. Tick => UNCHANGED <<seen, resets, codes, spent>> /\ clock' = clock + 1
  BY DEF Tick, history
<1>7. UNCHANGED vars => UNCHANGED <<seen, resets, clock, codes, spent>>
  BY DEF vars, shared, history
<1> QED
  BY <1>1, <1>2, <1>3, <1>4, <1>5, <1>6, <1>7 DEF Next, RequestStep

-----------------------------------------------------------------------------
(* A replayed message makes OpenBao issue nothing                            *)

\* r got past the replay check: it is at work, or OpenBao has issued for it.
Passed(r) == proto[r] = "scep" /\ (pc[r] \in Working \/ IssuedFor(r) # {})

\* Unless the table was emptied since, r's message is refused until its TTL is over.
Recorded(r) ==
    /\ accepted[r].at <= clock /\ accepted[r].gen <= resets
    /\ accepted[r].gen = resets =>
         \/ clock >= accepted[r].read + ReplayTTL
         \/ /\ msg[r].key \in DOMAIN seen
            /\ seen[msg[r].key] >= accepted[r].read + ReplayTTL

\* Two requests that passed with the same message did so a TTL apart.
Apart(p, q) ==
    (msg[p].key = msg[q].key /\ accepted[p].gen = accepted[q].gen)
      => \/ accepted[q].at >= accepted[p].read + ReplayTTL
         \/ accepted[p].at >= accepted[q].read + ReplayTTL

\* The replay invariant: instants are past, whoever passed is recorded, and no two
\* passed within one TTL on the same message.
ReplayInv ==
    /\ \A r \in Reqs : pc[r] = "replay" => now[r] <= clock
    /\ \A r \in Reqs : Passed(r) => Recorded(r)
    /\ \A p, q \in Reqs : p # q /\ Passed(p) /\ Passed(q) => Apart(p, q)

\* A step other than r's own replay check lets nobody pass.
LEMMA PassedBefore ==
    ASSUME TInv, AuditInv, [Next]_vars, NEW r \in Reqs, Passed(r)', ~ScepFresh(r)
    PROVE  Passed(r) /\ UNCHANGED <<accepted[r], msg[r]>>
<1>1. CASE EstReceive(r)
  <2>1. proto'[r] = "est"
    BY <1>1 DEF EstReceive, TInv, TypeOK
  <2> QED  BY <2>1 DEF Passed
<1>2. CASE ScepReceive(r)
  <2>1. pc[r] = "idle" /\ issued' = issued /\ pc'[r] \in {"replay", "closed"}
    BY <1>2 DEF ScepReceive, TInv, TypeOK, history
  <2>2. IssuedFor(r)' = {}
    BY <2>1 DEF AuditInv, Accounted, IssuedFor
  <2> QED  BY <2>1, <2>2 DEF Passed, Working
<1>3. CASE Authorize(r)
  <2>1. pc[r] = "authorize" /\ UNCHANGED <<proto, accepted, msg>>
    BY <1>3 DEF Authorize
  <2> QED  BY <2>1 DEF Passed, Working
<1>4. CASE Proceeds(r)
  BY <1>4 DEF Proceeds, Passed, Working
<1> QED  BY <1>1, <1>2, <1>3, <1>4, OneStep

\* What making room leaves of the table: every entry not yet expired at `n`, unless
\* overflow cleared them all.
LEMMA RoomForKeeps ==
    ASSUME NEW s, NEW n
    PROVE  \A k \in DOMAIN s : n < s[k] => k \in DOMAIN RoomFor(s, n) \/ Overflows(s, n)
<1>1. CASE Entries(s) >= ReplayMaxSize
  <2>1. CASE Overflows(s, n)
    BY <2>1
  <2>2. CASE ~Overflows(s, n)
    BY <1>1, <2>2 DEF RoomFor, EvictLocked, Unexpired
  <2> QED  BY <2>1, <2>2
<1>2. CASE ~(Entries(s) >= ReplayMaxSize)
  BY <1>2 DEF RoomFor
<1> QED  BY <1>1, <1>2

\* The numbers the replay check compares are numbers.
LEMMA ReplayTypes ==
    ASSUME TInv, NEW r \in Reqs
    PROVE  /\ accepted[r].read \in Nat /\ accepted[r].at \in Nat /\ accepted[r].gen \in Nat
           /\ clock \in Nat /\ resets \in Nat /\ now[r] \in Nat
           /\ \A k \in DOMAIN seen : seen[k] \in Nat
<1>1. accepted[r] \in [read : Nat, at : Nat, gen : Nat]
  BY DEF TInv, TypeOK
<1> QED  BY <1>1 DEF TInv, TypeOK

\* Time passing and the steps that leave the table alone keep it.
LEMMA RecordedStays ==
    ASSUME TInv, NEW r \in Reqs, Recorded(r), UNCHANGED <<accepted[r], msg[r]>>,
           UNCHANGED <<seen, resets>>, clock' \in {clock, clock + 1}
    PROVE  Recorded(r)'
<1>1. /\ accepted[r].read \in Nat /\ accepted[r].at \in Nat
      /\ clock \in Nat /\ ReplayTTL \in Nat
  BY ReplayTypes, ReplayTTLAssumption
<1> QED  BY <1>1 DEF Recorded

\* The replay check of r: nobody passed with this message who is not a TTL behind it,
\* and whoever passed with another keeps the entry or is past its TTL.
LEMMA FreshKeeps ==
    ASSUME TInv, AuditInv, ReplayInv, NEW r \in Reqs, ScepFresh(r), [Next]_vars
    PROVE  ReplayInv'
<1> DEFINE k == msg[r].key
           t == now[r]
<1>1. /\ pc[r] = "replay" /\ ~IsReplay(seen, k, t) /\ seen' = Record(seen, k, t)
      /\ resets' = IF Overflows(seen, t) THEN resets + 1 ELSE resets
      /\ accepted' = [accepted EXCEPT ![r] = [read |-> t, at |-> clock, gen |-> resets']]
      /\ pc' = [pc EXCEPT ![r] = "authorize"]
      /\ UNCHANGED <<proto, msg, now, clock, issued>>
  BY DEF ScepFresh
<1>2. /\ t <= clock /\ clock \in Nat /\ resets \in Nat /\ t \in Nat /\ ReplayTTL \in Nat
      /\ \A j \in DOMAIN seen : seen[j] \in Nat
  BY <1>1, ReplayTypes, ReplayTTLAssumption DEF ReplayInv
<1>3. /\ accepted'[r].read = t /\ accepted'[r].at = clock /\ accepted'[r].gen = resets'
      /\ \A q \in Reqs : q # r => accepted'[q] = accepted[q] /\ pc'[q] = pc[q]
      /\ pc'[r] = "authorize"
  BY <1>1 DEF TInv, TypeOK
<1>4. /\ k \in DOMAIN seen' /\ seen'[k] = t + ReplayTTL
      /\ \A j \in DOMAIN RoomFor(seen, t) : j # k => j \in DOMAIN seen' /\ seen'[j] = seen[j]
  BY <1>1 DEF Record
<1>5. \A q \in Reqs : pc'[q] = "replay" => now'[q] <= clock'
  BY <1>1, <1>3 DEF ReplayInv
<1>6. Recorded(r)'
  <2>1. t + ReplayTTL >= t + ReplayTTL /\ clock <= clock /\ resets' <= resets'
    BY <1>1, <1>2
  <2> QED  BY <1>1, <1>3, <1>4, <2>1 DEF Recorded
<1>7. ASSUME NEW q \in Reqs, q # r, Passed(q)'
      PROVE  Passed(q) /\ Recorded(q)' /\ Apart(q, r)' /\ Apart(r, q)'
  <2>1. Passed(q) /\ Recorded(q) /\ accepted'[q] = accepted[q] /\ msg'[q] = msg[q]
    BY <1>1, <1>3, <1>7 DEF Passed, IssuedFor, ReplayInv
  <2> DEFINE a == accepted[q]
             j == msg[q].key
  <2>2. /\ a.read \in Nat /\ a.at \in Nat /\ a.gen \in Nat
        /\ a.at <= clock /\ a.gen <= resets
    BY <2>1, ReplayTypes DEF Recorded
  <2>3. CASE Overflows(seen, t)
    <3>1. resets' = resets + 1 /\ a.gen # resets' /\ a.gen <= resets'
      BY <1>1, <1>2, <2>2, <2>3
    <3> QED  BY <1>1, <1>3, <2>1, <2>2, <3>1 DEF Recorded, Apart
  <2>4. CASE ~Overflows(seen, t)
    <3>1. resets' = resets
      BY <1>1, <2>4
    <3>2. CASE a.gen # resets
      BY <1>1, <1>3, <2>1, <2>2, <3>1, <3>2 DEF Recorded, Apart
    <3>3. CASE a.gen = resets
      <4>1. \/ clock >= a.read + ReplayTTL
            \/ j \in DOMAIN seen /\ seen[j] >= a.read + ReplayTTL
        BY <2>1, <3>3 DEF Recorded
      <4>2. j = k => clock >= a.read + ReplayTTL
        <5>1. j = k /\ j \in DOMAIN seen => t >= seen[j]
          BY <1>1, <1>2 DEF IsReplay
        <5> QED  BY <1>2, <2>2, <4>1, <5>1
      <4>3. \/ clock >= a.read + ReplayTTL
            \/ j \in DOMAIN seen' /\ seen'[j] >= a.read + ReplayTTL
        <5>1. CASE j # k /\ j \in DOMAIN seen /\ seen[j] >= a.read + ReplayTTL
          <6>1. CASE t < seen[j]
            BY <1>4, <2>4, <5>1, <6>1, RoomForKeeps
          <6>2. CASE ~(t < seen[j])
            BY <1>2, <2>2, <5>1, <6>2
          <6> QED  BY <6>1, <6>2
        <5> QED  BY <4>1, <4>2, <5>1
      <4>4. Recorded(q)'
        BY <1>1, <2>1, <2>2, <3>1, <4>3 DEF Recorded
      <4>5. Apart(q, r)' /\ Apart(r, q)'
        BY <1>1, <1>3, <2>1, <4>2 DEF Apart
      <4> QED  BY <2>1, <4>4, <4>5
    <3> QED  BY <3>2, <3>3
  <2> QED  BY <2>3, <2>4
<1>8. ASSUME NEW p \in Reqs, NEW q \in Reqs, p # q, Passed(p)', Passed(q)'
      PROVE  Apart(p, q)'
  <2>1. CASE p = r \/ q = r
    BY <1>7, <1>8, <2>1
  <2>2. CASE p # r /\ q # r
    <3>1. Passed(p) /\ Passed(q)
      BY <1>7, <1>8, <2>2
    <3>2. Apart(p, q)
      BY <1>8, <3>1 DEF ReplayInv
    <3> QED  BY <1>1, <1>3, <2>2, <3>2 DEF Apart
  <2> QED  BY <2>1, <2>2
<1> QED  BY <1>5, <1>6, <1>7, <1>8 DEF ReplayInv

\* Every step keeps the passes apart.
LEMMA Separating == TInv /\ AuditInv /\ ReplayInv /\ [Next]_vars => ReplayInv'
<1> SUFFICES ASSUME TInv, AuditInv, ReplayInv, [Next]_vars PROVE ReplayInv'
  OBVIOUS
<1>1. ASSUME NEW r \in Reqs, ScepFresh(r) PROVE ReplayInv'
  BY <1>1, FreshKeeps
<1>2. ASSUME \A r \in Reqs : ~ScepFresh(r) PROVE ReplayInv'
  <2>1. \A r \in Reqs : Passed(r)' => Passed(r) /\ UNCHANGED <<accepted[r], msg[r]>>
    BY <1>2, PassedBefore
  <2>2. /\ clock \in Nat /\ clock' \in {clock, clock + 1}
        /\ UNCHANGED <<seen, resets>> \/ (resets' = resets + 1 /\ resets \in Nat)
    <3>1. clock \in Nat /\ resets \in Nat
      BY DEF TInv, TypeOK
    <3> QED  BY <1>2, <3>1, StoreStep DEF Restart
  <2>3. ASSUME NEW r \in Reqs, pc'[r] = "replay" PROVE now'[r] <= clock'
    <3>1. CASE EstReceive(r)
      BY <2>3, <3>1 DEF EstReceive, TInv, TypeOK
    <3>2. CASE ScepReceive(r)
      <4>1. now'[r] = clock
        BY <2>3, <3>2 DEF ScepReceive, TInv, TypeOK
      <4> QED  BY <2>2, <4>1
    <3>3. CASE Authorize(r)
      BY <2>3, <3>3 DEF Authorize, Close, TInv, TypeOK
    <3>4. CASE Proceeds(r)
      <4>1. now'[r] = now[r] /\ pc[r] = "replay"
        BY <2>3, <3>4 DEF Proceeds
      <4>2. now[r] <= clock /\ now[r] \in Nat
        BY <4>1, ReplayTypes DEF ReplayInv
      <4> QED  BY <2>2, <4>1, <4>2
    <3> QED  BY <1>2, <3>1, <3>2, <3>3, <3>4, OneStep
  <2>4. ASSUME NEW r \in Reqs, Passed(r)' PROVE Recorded(r)'
    <3>1. Passed(r) /\ UNCHANGED <<accepted[r], msg[r]>> /\ Recorded(r)
      BY <2>1, <2>4 DEF ReplayInv
    <3>2. CASE UNCHANGED <<seen, resets>>
      BY <2>2, <3>1, <3>2, RecordedStays
    <3>3. CASE resets' = resets + 1 /\ resets \in Nat
      <4>1. accepted[r].at \in Nat /\ accepted[r].gen \in Nat
        BY ReplayTypes
      <4> QED  BY <2>2, <3>1, <3>3, <4>1 DEF Recorded
    <3> QED  BY <2>2, <3>2, <3>3
  <2>5. ASSUME NEW p \in Reqs, NEW q \in Reqs, p # q, Passed(p)', Passed(q)'
        PROVE  Apart(p, q)'
    <3>1. /\ Passed(p) /\ Passed(q) /\ UNCHANGED <<accepted[p], msg[p]>>
          /\ UNCHANGED <<accepted[q], msg[q]>>
      BY <2>1, <2>5
    <3>2. Apart(p, q)
      BY <2>5, <3>1 DEF ReplayInv
    <3> QED  BY <3>1, <3>2 DEF Apart
  <2> QED  BY <2>3, <2>4, <2>5 DEF ReplayInv
<1> QED  BY <1>1, <1>2

\* Init satisfies the books.
LEMMA InitAccounting == Init => AuditInv
BY DEF Init, AuditInv, Accounted, IssuedFor, DeliveredFor

\* However many copies of a SCEP message arrive on however many connections, OpenBao
\* issues for at most one of them within the replay TTL, unless the table was emptied
\* in between (by overflow or by a crash): ReplayCache.Check in front of Authorize.
THEOREM NoReplayIssues == Spec => []ReplayNeverIssues
<1>1. Init => ReplayInv
  BY DEF Init, ReplayInv, Passed
<1>2. TInv /\ ReplayInv => ReplayNeverIssues
  <2> SUFFICES ASSUME TInv, ReplayInv, NEW i \in issued, NEW j \in issued,
                      i.by # j.by, proto[i.by] = "scep", proto[j.by] = "scep"
               PROVE  Apart(i.by, j.by)
    BY DEF ReplayNeverIssues, Apart
  <2>1. i.by \in Reqs /\ j.by \in Reqs
    BY DEF TInv, TypeOK
  <2>2. Passed(i.by) /\ Passed(j.by)
    BY DEF Passed, IssuedFor
  <2> QED  BY <2>1, <2>2 DEF ReplayInv
<1> QED
  BY <1>1, <1>2, InitTyping, Typing, InitAccounting, Accounting, Separating, PTL DEF Spec

-----------------------------------------------------------------------------
(* One-time codes                                                           *)

\* A registered code is unspent, and registered for one key only.
CodesLive ==
    /\ \A k \in DOMAIN codes : codes[k].id \in CodeIds /\ spent[codes[k].id] = Unspent
    /\ \A k, l \in DOMAIN codes : codes[k].id = codes[l].id => k = l

\* Who spent a code stays who spent it.
SpentStays == \A i \in CodeIds : spent[i] # Unspent => spent'[i] = spent[i]

\* The key whose code decides is one that has a code.
LEMMA DecidingRegistered ==
    ASSUME NEW id, NEW s, Registered(id, s) # {}
    PROVE  DecidingKey(id, s) \in DOMAIN s /\ DecidingKey(id, s) \in {id.cn, id.rcn, id.serial}
<1> DEFINE S == {id.cn, id.rcn, id.serial}
           a == IF id.cn # NoName THEN <<id.cn>> ELSE <<>>
           b == IF id.rcn # NoName /\ id.rcn # id.cn THEN <<id.rcn>> ELSE <<>>
           c == IF id.serial # NoToken THEN <<id.serial>> ELSE <<>>
<1>1. CandidateKeys(id) \in Seq(S)
  <2>0. id.cn \in S /\ id.rcn \in S /\ id.serial \in S
    OBVIOUS
  <2> HIDE DEF S
  <2>1. a \in Seq(S) /\ b \in Seq(S) /\ c \in Seq(S)
    <3>1. <<>> \in Seq(S)
      OBVIOUS
    <3>2. <<id.cn>> \in Seq(S) /\ <<id.rcn>> \in Seq(S) /\ <<id.serial>> \in Seq(S)
      BY <2>0
    <3> QED  BY <3>1, <3>2
  <2>2. CandidateKeys(id) = (a \o b) \o c
    BY DEF CandidateKeys
  <2> HIDE DEF a, b, c
  <2>3. a \o b \in Seq(S)
    BY <2>1
  <2> QED  BY <2>1, <2>2, <2>3
<1>2. Registered(id, s) \in SUBSET Nat
  BY <1>1 DEF Registered
<1>3. First(Registered(id, s)) \in Registered(id, s)
  BY <1>2, FirstIsOne
<1>4. DecidingKey(id, s) \in DOMAIN s
  BY <1>3 DEF DecidingKey, Registered
<1>5. DecidingKey(id, s) \in S
  <2> HIDE DEF S
  <2>1. First(Registered(id, s)) \in DOMAIN CandidateKeys(id)
    BY <1>3 DEF Registered
  <2> QED  BY <1>1, <2>1 DEF DecidingKey
<1> QED  BY <1>4, <1>5

\* Without a certificate nobody is authenticated.
LEMMA Unauthenticated ==
    ASSUME NEW csr, NEW label
    PROVE  ~ResolveIdentity(NoCert, csr, label).authenticated
<1>1. ResolveIdentity(NoCert, csr, label).authenticated = (NoCert # NoCert)
  BY DEF ResolveIdentity
<1> QED  BY <1>1

\* Without a certificate, that key is the common name the CSR asks for.
LEMMA DecidingUnauthenticated ==
    ASSUME NEW csr, NEW label, NEW s,
           NEW id, id = ResolveIdentity(NoCert, csr, label), Registered(id, s) # {}
    PROVE  DecidingKey(id, s) = csr.cn /\ csr.cn # NoName
<1>1. id.cn = NoName /\ id.rcn = csr.cn /\ id.serial = NoToken
  BY DEF ResolveIdentity
<1>2. CandidateKeys(id) = IF csr.cn # NoName THEN <<csr.cn>> ELSE <<>>
  BY <1>1 DEF CandidateKeys
<1>3. CASE csr.cn = NoName
  BY <1>2, <1>3 DEF Registered
<1>4. CASE csr.cn # NoName
  <2>1. CandidateKeys(id) = <<csr.cn>>
    BY <1>2, <1>4
  <2>2. DOMAIN CandidateKeys(id) = {1} /\ CandidateKeys(id)[1] = csr.cn
    BY <2>1
  <2>3. Registered(id, s) = {1}
    BY <2>2 DEF Registered
  <2>4. First(Registered(id, s)) = 1
    BY <2>3, FirstIsOne
  <2> QED  BY <1>4, <2>2, <2>4 DEF DecidingKey
<1> QED  BY <1>3, <1>4

\* In any case it is a name or the serial the request goes by.
LEMMA DecidingKeyOf ==
    ASSUME NEW r \in Reqs, NEW s, Registered(IdentityOf(r), s) # {}
    PROVE  /\ DecidingKey(IdentityOf(r), s) \in KeysOf(r)
           /\ client[r] = NoCert => msg[r].csr.cn # NoName
<1>1. CASE client[r] = NoCert
  <2>1. IdentityOf(r) = ResolveIdentity(NoCert, msg[r].csr, msg[r].label)
    BY <1>1 DEF IdentityOf
  <2>2. DecidingKey(IdentityOf(r), s) = msg[r].csr.cn /\ msg[r].csr.cn # NoName
    BY <2>1, DecidingUnauthenticated
  <2> QED  BY <2>2 DEF KeysOf
<1>2. CASE client[r] # NoCert
  <2>1. /\ IdentityOf(r).cn = client[r].cn /\ IdentityOf(r).rcn = msg[r].csr.cn
        /\ IdentityOf(r).serial = client[r].serial
    BY <1>2 DEF IdentityOf, ResolveIdentity
  <2>2. DecidingKey(IdentityOf(r), s) \in {client[r].cn, msg[r].csr.cn, client[r].serial}
    BY <2>1, DecidingRegistered
  <2> QED  BY <1>2, <2>2 DEF KeysOf
<1> QED  BY <1>1, <1>2

\* Authorize spends the code it was decided by, and unregisters it.
LEMMA AuthorizeSpends ==
    ASSUME CodesLive, NEW r \in Reqs, Authorize(r)
    PROVE  CodesLive' /\ SpentStays
<1> DEFINE id == IdentityOf(r)
           op == msg[r].op
           pw == msg[r].pw
           k == DecidingKey(id, codes)
           uses == UsesCode(op, id, pw, codes, clock)
<1>1. /\ codes' = CodesAfterAuthorize(op, id, pw, codes, clock)
      /\ spent' = [i \in CodeIds |-> IF uses /\ codes[k].id = i
                                     THEN [by |-> r, key |-> k] ELSE spent[i]]
  BY DEF Authorize
<1>2. codes' = codes \/ codes' = Without(codes, k)
  BY <1>1 DEF CodesAfterAuthorize, CodesAfter
<1>3. /\ DOMAIN codes' \subseteq DOMAIN codes
      /\ \A l \in DOMAIN codes' : codes'[l] = codes[l]
  BY <1>2 DEF Without
<1>4. uses => k \in DOMAIN codes /\ codes' = Without(codes, k)
  <2> SUFFICES ASSUME uses PROVE k \in DOMAIN codes /\ codes' = Without(codes, k)
    OBVIOUS
  <2>1. /\ ChallengeBackend = "memory" /\ ReachesChallenge(op, id)
        /\ CallsValidator(Lookup(id), pw) /\ pw # NoPassword
        /\ Registered(id, codes) # {} /\ codes[k].secret = pw
    BY DEF UsesCode, MemoryAccepts
  <2>2. k \in DOMAIN codes
    BY <2>1, DecidingRegistered
  <2> QED  BY <1>1, <2>1, <2>2 DEF CodesAfterAuthorize, CodesAfter
<1> HIDE DEF id, op, pw, k, uses
<1>5. SpentStays
  BY <1>1, <1>4 DEF CodesLive, SpentStays
<1>6. ASSUME NEW l \in DOMAIN codes'
      PROVE  codes'[l].id \in CodeIds /\ spent'[codes'[l].id] = Unspent
  <2>1. l \in DOMAIN codes /\ codes'[l] = codes[l]
    BY <1>3
  <2>2. codes[l].id \in CodeIds /\ spent[codes[l].id] = Unspent
    BY <2>1 DEF CodesLive
  <2>3. ~(uses /\ codes[k].id = codes[l].id)
    <3> SUFFICES ASSUME uses, codes[k].id = codes[l].id PROVE FALSE
      OBVIOUS
    <3>1. k = l
      BY <1>4, <2>1 DEF CodesLive
    <3>2. l \notin DOMAIN codes'
      BY <1>4, <3>1 DEF Without
    <3> QED  BY <3>2
  <2> QED  BY <1>1, <2>1, <2>2, <2>3
<1>7. \A l, m \in DOMAIN codes' : codes'[l].id = codes'[m].id => l = m
  BY <1>3 DEF CodesLive
<1> QED  BY <1>5, <1>6, <1>7 DEF CodesLive

\* Every step keeps the registered codes unspent and the spent ones spent.
LEMMA CodesStep ==
    ASSUME CodesLive, [Next]_vars
    PROVE  CodesLive' /\ SpentStays
<1>1. CASE UNCHANGED <<codes, spent>>
  BY <1>1 DEF CodesLive, SpentStays
<1>2. ASSUME NEW r \in Reqs, Authorize(r) PROVE CodesLive' /\ SpentStays
  BY <1>2, AuthorizeSpends
<1>3. ASSUME NEW i \in CodeIds, AddCode(i) PROVE CodesLive' /\ SpentStays
  <2>1. /\ spent[i] = Unspent /\ spent' = spent
        /\ \A k \in DOMAIN codes : codes[k].id # i
    BY <1>3 DEF AddCode, history
  <2>2. PICK k \in CodeKeys, pw \in Passwords :
           codes' = [j \in DOMAIN codes \cup {k} |->
                        IF j = k
                        THEN [secret |-> pw, expires |-> clock + OTPTTL, id |-> i]
                        ELSE codes[j]]
    BY <1>3 DEF AddCode
  <2>3. /\ DOMAIN codes' = DOMAIN codes \cup {k} /\ codes'[k].id = i
        /\ \A j \in DOMAIN codes : j # k => codes'[j] = codes[j]
    BY <2>2
  <2> QED  BY <2>1, <2>3 DEF CodesLive, SpentStays
<1>4. CASE Restart
  BY <1>4 DEF Restart, EmptyTable, CodesLive, SpentStays
<1> QED  BY <1>1, <1>2, <1>3, <1>4, StoreStep

-----------------------------------------------------------------------------
(* The gate                                                                 *)

\* OpenBao has been, or may now be, asked to issue for r.
Approved(r) == pc[r] \in {"sign", "verify", "respond"} \/ IssuedFor(r) # {}

\* A code was spent for r, registered for a name or the serial of r.
Paid(r) ==
    /\ client[r] = NoCert => msg[r].csr.cn # NoName
    /\ \E i \in CodeIds : spent[i].by = r /\ spent[i].key \in KeysOf(r)

\* What is asked of r: with one-time codes, a code if it has a challenge to meet; and
\* by a closed gate a client certificate, the secret or a challenge met.
Proven(r) ==
    /\ ChallengeBackend = "memory" /\ MustPay(r) => Paid(r)
    /\ \/ AllowUnauthenticated \/ client[r] # NoCert
       \/ ChallengeBackend = "static" /\ msg[r].pw = StaticSecret
       \/ ChallengeBackend = "memory"

\* Registered codes are unspent, and approval means proof.
GateInv ==
    /\ CodesLive
    /\ \A r \in Reqs : Approved(r) => Proven(r)

\* What was proved stays proved.
LEMMA ProvenStays ==
    ASSUME NEW r \in Reqs, Proven(r), UNCHANGED <<client[r], msg[r]>>, SpentStays
    PROVE  Proven(r)'
<1>1. MustPay(r)' = MustPay(r) /\ KeysOf(r)' = KeysOf(r)
  BY DEF MustPay, KeysOf, IdentityOf
<1>2. ASSUME Paid(r) PROVE Paid(r)'
  <2>1. PICK i \in CodeIds : spent[i].by = r /\ spent[i].key \in KeysOf(r)
    BY <1>2 DEF Paid
  <2>2. spent[i] # Unspent
    BY <2>1, ReqsAssumption DEF Unspent
  <2>3. spent'[i] = spent[i]
    BY <2>2 DEF SpentStays
  <2> QED  BY <1>1, <1>2, <2>1, <2>3 DEF Paid
<1> QED  BY <1>1, <1>2 DEF Proven

\* What Authorize approves is proven: by the client certificate, by the static secret,
\* or by the code it spends in the same step.
LEMMA GateProves ==
    ASSUME TInv, CodesLive, NEW r \in Reqs, Authorize(r), pc'[r] = "sign"
    PROVE  Proven(r)'
<1> DEFINE id == IdentityOf(r)
           op == msg[r].op
           pw == msg[r].pw
           k == DecidingKey(id, codes)
<1>1. Allows(op, id, pw, codes, clock) /\ UNCHANGED <<client, msg>>
  <2>1. ~Allows(op, id, pw, codes, clock) => pc' = [pc EXCEPT ![r] = "closed"]
    BY DEF Authorize, Close
  <2>2. UNCHANGED <<client, msg>>
    BY DEF Authorize
  <2> QED  BY <2>1, <2>2 DEF TInv, TypeOK
<1>2. /\ ReachesChallenge(op, id)
      /\ ChallengeHolds(id, Lookup(id), pw, codes, clock)
      /\ AuthenticationGate(id, Lookup(id), pw)
  BY <1>1 DEF Allows
<1>3. ASSUME CallsValidator(Lookup(id), pw), ChallengeBackend = "memory" PROVE Paid(r)'
  <2>1. MemoryAccepts(id, pw, codes, clock)
    BY <1>2, <1>3 DEF ChallengeHolds, Validate
  <2>2. UsesCode(op, id, pw, codes, clock)
    BY <1>2, <1>3, <2>1 DEF UsesCode
  <2>3. Registered(id, codes) # {}
    BY <2>1 DEF MemoryAccepts
  <2>4. /\ k \in DOMAIN codes /\ k \in KeysOf(r)
        /\ client[r] = NoCert => msg[r].csr.cn # NoName
    BY <2>3, DecidingRegistered, DecidingKeyOf
  <2>5. codes[k].id \in CodeIds
    BY <2>4 DEF CodesLive
  <2>6. spent'[codes[k].id] = [by |-> r, key |-> k]
    BY <2>2, <2>5 DEF Authorize
  <2> HIDE DEF id, op, pw, k
  <2>7. KeysOf(r)' = KeysOf(r)
    BY <1>1 DEF KeysOf
  <2> QED  BY <1>1, <2>4, <2>5, <2>6, <2>7 DEF Paid
<1>4. client[r] = NoCert /\ ~AllowUnauthenticated
         => CallsValidator(Lookup(id), pw) /\ pw # NoPassword
  <2> SUFFICES ASSUME client[r] = NoCert, ~AllowUnauthenticated
               PROVE  CallsValidator(Lookup(id), pw) /\ pw # NoPassword
    OBVIOUS
  <2>1. id = ResolveIdentity(NoCert, msg[r].csr, msg[r].label)
    BY DEF IdentityOf
  <2>2. ~id.authenticated
    BY <2>1, Unauthenticated
  <2> QED  BY <1>2, <2>2 DEF AuthenticationGate
<1>5. ChallengeBackend = "memory" /\ MustPay(r) => CallsValidator(Lookup(id), pw)
  BY <1>4 DEF MustPay, CallsValidator
<1>6. MustPay(r)' = MustPay(r)
  BY <1>1 DEF MustPay, IdentityOf
<1>7. CASE client[r] = NoCert /\ ~AllowUnauthenticated
  <2>1. CallsValidator(Lookup(id), pw) /\ ChallengeBackend # "none"
    BY <1>4, <1>7 DEF CallsValidator
  <2>2. Validate(id, pw, codes, clock)
    BY <1>2, <2>1 DEF ChallengeHolds
  <2>3. CASE ChallengeBackend = "static"
    BY <1>1, <2>2, <2>3 DEF Validate, Proven
  <2>4. CASE ChallengeBackend = "memory"
    BY <1>3, <2>1, <2>4 DEF Proven
  <2> QED  BY <2>1, <2>3, <2>4, ChallengeAssumption
<1>8. CASE client[r] # NoCert \/ AllowUnauthenticated
  BY <1>1, <1>3, <1>5, <1>6, <1>8 DEF Proven
<1> QED  BY <1>7, <1>8

\* Every step keeps the gate.
LEMMA Gating == TInv /\ AuditInv /\ GateInv /\ [Next]_vars => GateInv'
<1> SUFFICES ASSUME TInv, AuditInv, GateInv, [Next]_vars PROVE GateInv'
  OBVIOUS
<1>1. CodesLive' /\ SpentStays
  BY CodesStep DEF GateInv
<1>2. ASSUME NEW r \in Reqs, Approved(r)' PROVE Proven(r)'
  <2>1. CASE EstReceive(r) \/ ScepReceive(r) \/ ScepFresh(r)
    <3>1. /\ pc[r] \in {"idle", "replay"} /\ issued' = issued
          /\ pc'[r] \in {"replay", "authorize", "closed"}
      BY <2>1 DEF EstReceive, ScepReceive, ScepFresh, TInv, TypeOK, history
    <3>2. IssuedFor(r)' = {}
      BY <3>1 DEF AuditInv, Accounted, IssuedFor
    <3> QED  BY <1>2, <3>1, <3>2 DEF Approved
  <2>2. CASE Authorize(r)
    <3>1. /\ pc[r] = "authorize" /\ issued' = issued /\ pc'[r] \in {"sign", "closed"}
      BY <2>2 DEF Authorize, Close, TInv, TypeOK
    <3>2. IssuedFor(r)' = {}
      BY <3>1 DEF AuditInv, Accounted, IssuedFor
    <3>3. pc'[r] = "sign"
      BY <1>2, <3>1, <3>2 DEF Approved
    <3> QED  BY <1>2, <2>2, <3>3, GateProves DEF GateInv
  <2>3. CASE Proceeds(r)
    <3>1. Approved(r) /\ UNCHANGED <<client[r], msg[r]>>
      BY <1>2, <2>3 DEF Proceeds, Approved
    <3>2. Proven(r)
      BY <1>2, <3>1 DEF GateInv
    <3> QED  BY <1>1, <3>1, <3>2, ProvenStays
  <2> QED  BY <2>1, <2>2, <2>3, OneStep
<1> QED  BY <1>1, <1>2 DEF GateInv

\* Nothing is approved before a request arrives, and no code is registered.
LEMMA InitGating == Init => GateInv
BY DEF Init, GateInv, CodesLive, EmptyTable, Approved, IssuedFor

\* Behind a closed gate OpenBao issues nothing, delivered or not, for a requester who
\* showed neither a verified certificate nor a secret that validated: stage 5 of
\* Pipeline.Authorize, whatever the inventory and the other switches say.
THEOREM ProofBeforeIssue == Spec => []ProvenBeforeIssue
<1>1. TInv /\ GateInv => ProvenBeforeIssue
  <2> SUFFICES ASSUME TInv, GateInv, ~AllowUnauthenticated, NEW i \in issued
               PROVE  client[i.by] # NoCert \/ SecretProved(i.by)
    BY DEF ProvenBeforeIssue
  <2>1. i.by \in Reqs
    BY DEF TInv, TypeOK
  <2>2. Approved(i.by)
    BY DEF Approved, IssuedFor
  <2>3. Proven(i.by)
    BY <2>1, <2>2 DEF GateInv
  <2>4. client[i.by] = NoCert => MustPay(i.by)
    BY DEF MustPay
  <2>5. Paid(i.by) => \E c \in CodeIds : spent[c].by = i.by
    BY DEF Paid
  <2> QED  BY <2>3, <2>4, <2>5 DEF Proven, SecretProved
<1> QED
  BY <1>1, InitTyping, Typing, InitAccounting, Accounting, InitGating, Gating, PTL DEF Spec

-----------------------------------------------------------------------------
(* One certificate per code                                                 *)

\* A certificate that a client without one paid for bears the common name it asked for.
HandedInv ==
    ChallengeBackend = "memory" =>
        \A d \in delivered :
            client[d.by] = NoCert /\ MustPay(d.by) => d.cert.cn = msg[d.by].csr.cn

\* What VerifyIssued lets through to a paid request bears that name.
LEMMA PaidName ==
    ASSUME KnowInv, NEW r \in Reqs, pc[r] = "respond", client[r] = NoCert, Paid(r)
    PROVE  bundle[r].cn = msg[r].csr.cn
<1> DEFINE c == decision[r].cons
<1>1. VerifyIssued(bundle[r], c) /\ c = ConstraintsFor(IdentityOf(r))
  BY DEF KnowInv, Knows
<1>2. c.cn = msg[r].csr.cn
  <2>1. IdentityOf(r) = ResolveIdentity(NoCert, msg[r].csr, msg[r].label)
    BY DEF IdentityOf
  <2>2. ~PinsIdentity(IdentityOf(r)) /\ IdentityOf(r).rcn = msg[r].csr.cn
    <3>1. ~PinsIdentity(IdentityOf(r))
      BY <2>1, Unauthenticated DEF PinsIdentity
    <3>2. IdentityOf(r).rcn = msg[r].csr.cn
      BY <2>1 DEF ResolveIdentity
    <3> QED  BY <3>1, <3>2
  <2> QED  BY <1>1, <2>2 DEF ConstraintsFor, RequestedNames
<1>3. c.cn # NoName
  BY <1>2 DEF Paid
<1> HIDE DEF c
<1> QED  BY <1>1, <1>2, <1>3 DEF VerifyIssued, NamesConstrained, VerifyNames

\* Every step keeps what was handed out under the name paid for.
LEMMA Handing ==
    TInv /\ AuditInv /\ KnowInv /\ GateInv /\ HandedInv /\ [Next]_vars => HandedInv'
<1> SUFFICES ASSUME TInv, AuditInv, KnowInv, GateInv, HandedInv, [Next]_vars,
                    ChallengeBackend = "memory", NEW d \in delivered',
                    client'[d.by] = NoCert, MustPay(d.by)'
             PROVE  d.cert.cn = msg'[d.by].csr.cn
  BY DEF HandedInv
<1>0. delivered \subseteq [cert : Cert, by : Reqs]
  BY DEF TInv, TypeOK
<1>1. ASSUME NEW r \in Reqs, EstReceive(r) \/ ScepReceive(r)
      PROVE  d.cert.cn = msg'[d.by].csr.cn
  <2>1. pc[r] = "idle" /\ delivered' = delivered
    BY <1>1 DEF EstReceive, ScepReceive, history
  <2>2. DeliveredFor(r) = {}
    BY <2>1 DEF AuditInv, Accounted
  <2>3. d.by \in Reqs /\ d.by # r
    BY <1>0, <2>1, <2>2 DEF DeliveredFor
  <2>4. UNCHANGED <<client[d.by], msg[d.by]>>
    BY <1>1, <2>3 DEF EstReceive, ScepReceive, TInv, TypeOK
  <2>5. MustPay(d.by)' = MustPay(d.by)
    BY <2>4 DEF MustPay, IdentityOf
  <2> QED  BY <2>1, <2>4, <2>5 DEF HandedInv
<1>2. CASE UNCHANGED <<client, msg, delivered>>
  BY <1>2 DEF HandedInv, MustPay, IdentityOf
<1>3. ASSUME UNCHANGED <<client, msg>>, NEW r \in Reqs, pc[r] = "respond",
             delivered' = delivered \cup {[cert |-> bundle[r], by |-> r]}
      PROVE  d.cert.cn = msg'[d.by].csr.cn
  <2>0. MustPay(d.by)' = MustPay(d.by)
    BY <1>3 DEF MustPay, IdentityOf
  <2>1. CASE d \in delivered
    BY <1>3, <2>0, <2>1 DEF HandedInv
  <2>2. CASE d = [cert |-> bundle[r], by |-> r]
    <3>1. client[r] = NoCert /\ MustPay(r) /\ Approved(r)
      BY <1>3, <2>0, <2>2 DEF Approved
    <3>2. Paid(r)
      BY <3>1 DEF GateInv, Proven
    <3>3. bundle[r].cn = msg[r].csr.cn
      BY <1>3, <3>1, <3>2, PaidName
    <3> QED  BY <1>3, <2>2, <3>3
  <2> QED  BY <1>3, <2>1, <2>2
<1> QED  BY <1>1, <1>2, <1>3, Frame

\* With one-time codes, every certificate handed to a request that had a challenge to
\* meet was paid for by a code spent on that very request and registered for a name or
\* the serial of it - without a client certificate, for the very name on the certificate
\* - over any interleaving of requests, shadowing of codes, retries and crashes.
THEOREM CodePerCert == Spec => []OneCertPerCode
<1>1. Init => HandedInv
  BY DEF Init, HandedInv
<1>2. TInv /\ AuditInv /\ GateInv /\ HandedInv => OneCertPerCode
  <2> SUFFICES ASSUME TInv, AuditInv, GateInv, HandedInv, ChallengeBackend = "memory",
                      NEW d \in delivered, MustPay(d.by)
               PROVE  \E i \in CodeIds :
                         /\ spent[i].by = d.by
                         /\ spent[i].key \in KeysOf(d.by)
                         /\ client[d.by] = NoCert => spent[i].key = d.cert.cn
    BY DEF OneCertPerCode
  <2>1. d.by \in Reqs
    BY DEF TInv, TypeOK
  <2>2. IssuedFor(d.by) # {}
    <3>1. DeliveredFor(d.by) # {}
      BY DEF DeliveredFor
    <3> QED  BY <2>1, <3>1 DEF AuditInv, Accounted
  <2>3. Paid(d.by)
    BY <2>1, <2>2 DEF GateInv, Approved, Proven
  <2>4. PICK i \in CodeIds : spent[i].by = d.by /\ spent[i].key \in KeysOf(d.by)
    BY <2>3 DEF Paid
  <2>5. client[d.by] = NoCert => KeysOf(d.by) = {msg[d.by].csr.cn}
    BY DEF KeysOf
  <2>6. client[d.by] = NoCert => d.cert.cn = msg[d.by].csr.cn
    BY DEF HandedInv
  <2> QED  BY <2>4, <2>5, <2>6
<1> QED
  BY <1>1, <1>2, InitTyping, Typing, InitAccounting, Accounting, InitKnowing, Knowing,
     InitGating, Gating, Handing, PTL DEF Spec

-----------------------------------------------------------------------------
(* A code waits for its device                                              *)

\* What Authorize takes away is the deciding code, expired or redeemed.
LEMMA AuthorizeTakes ==
    ASSUME TInv, NEW r \in Reqs, Authorize(r), NEW k \in DOMAIN codes \ DOMAIN codes'
    PROVE  CodeExpired(codes[k], clock) \/ RedeemedBy(r, k)
<1> DEFINE id == IdentityOf(r)
           pw == msg[r].pw
           j == DecidingKey(id, codes)
<1>1. codes' = CodesAfterAuthorize(msg[r].op, id, pw, codes, clock)
  BY DEF Authorize
<1>2. /\ Registered(id, codes) # {} /\ codes' = Without(codes, j)
      /\ CodeExpired(codes[j], clock) \/ codes[j].secret = pw
  BY <1>1 DEF CodesAfterAuthorize, CodesAfter
<1>3. k = j
  BY <1>2 DEF Without
<1>4. j \in KeysOf(r)
  BY <1>2, DecidingKeyOf
<1>5. pc[r] = "authorize" /\ pc'[r] # "authorize"
  BY DEF Authorize, Close, TInv, TypeOK
<1> HIDE DEF id, j
<1> QED  BY <1>2, <1>3, <1>4, <1>5 DEF RedeemedBy

\* MemoryStore.Validate: a registered code goes only when it has expired, when the
\* process dies, or when a request known by its key presents its secret, whatever
\* wrong guesses and other devices' requests come first.
THEOREM CodesWait == Spec => CodesOutliveGuesses
<1> DEFINE Kept(k) == \/ restarts' > restarts
                      \/ CodeExpired(codes[k], clock)
                      \/ \E r \in Reqs : RedeemedBy(r, k)
<1>1. ASSUME TInv, [Next]_vars, NEW k \in DOMAIN codes \ DOMAIN codes' PROVE Kept(k)
  <2>1. CASE UNCHANGED <<codes, spent>>
    BY <1>1, <2>1
  <2>2. ASSUME NEW r \in Reqs, Authorize(r) PROVE Kept(k)
    BY <1>1, <2>2, AuthorizeTakes
  <2>3. ASSUME NEW i \in CodeIds, AddCode(i) PROVE Kept(k)
    BY <1>1, <2>3 DEF AddCode
  <2>4. CASE Restart
    <3>1. restarts' = restarts + 1 /\ restarts \in Nat
      BY <1>1, <2>4 DEF Restart, TInv, TypeOK
    <3> QED  BY <3>1
  <2> QED  BY <1>1, <2>1, <2>2, <2>3, <2>4, StoreStep
<1>2. TInv /\ [Next]_vars => [\A k \in DOMAIN codes \ DOMAIN codes' : Kept(k)]_vars
  BY <1>1
<1> QED  BY <1>2, InitTyping, Typing, PTL DEF Spec, CodesOutliveGuesses
=============================================================================
