-------------------------- MODULE EnrollmentProofs --------------------------
(***************************************************************************)
(* Proofs about Enrollment for every set of requests, names, messages and    *)
(* factory certificates, every policy configuration and every bound.         *)
(***************************************************************************)
EXTENDS Enrollment, AuthzProofs

USE ReplayTTLAssumption, BoundsAssumption, ValidityAssumption

Working == {"authorize", "sign", "verify", "respond"}

\* A goroutine past the parser holds the message it parsed, one about to answer
\* holds the certificate it answers with.
LocalOK ==
    \A r \in Reqs :
        /\ pc[r] = "replay" => msg[r] \in ScepMessages /\ proto[r] = "scep"
        /\ pc[r] \in Working =>
              msg[r] \in IF proto[r] = "est" THEN EstMessages ELSE ScepMessages
        /\ pc[r] = "verify" => bundle[r] \in Cert \cup {Garbled}
        /\ pc[r] = "respond" => bundle[r] \in Cert

-----------------------------------------------------------------------------
(* Types of what the steps compute                                          *)

\* What Authorize resolves from a parsed message is well typed.
LEMMA IdentityType ==
    ASSUME NEW c \in Cert \cup {NoCert}, NEW m \in EstMessages \cup ScepMessages
    PROVE  LET id == ResolveIdentity(c, m.csr, m.label)
           IN  /\ id.cn \in OptName /\ id.rcn \in OptName
               /\ id.dns \in SUBSET Names /\ id.rdns \in SUBSET Names
               /\ id.rothers \in SUBSET Others
               /\ ConstraintsFor(id) \in Constraints
<1>1. m.csr \in CSR
  BY MessagesAssumption DEF EstMessage, ScepMessage
<1>2. m.csr.cn \in OptName /\ m.csr.dns \in SUBSET Names /\ m.csr.others \in SUBSET Others
  BY <1>1 DEF CSR
<1>3. c # NoCert => c.cn \in OptName /\ c.dns \in SUBSET Names
  BY DEF Cert
<1>4. NoName \in OptName
  BY DEF OptName
<1> DEFINE id == ResolveIdentity(c, m.csr, m.label)
<1>5. /\ id.cn \in OptName /\ id.rcn \in OptName
      /\ id.dns \in SUBSET Names /\ id.rdns \in SUBSET Names
      /\ id.rothers \in SUBSET Others
  BY <1>2, <1>3, <1>4 DEF ResolveIdentity
<1> HIDE DEF id
<1>6. ConstraintsFor(id) \in Constraints
  BY <1>5 DEF ConstraintsFor, IdentityNames, RequestedNames, Constraints
<1> QED BY <1>5, <1>6 DEF id

\* A certificate OpenBao may issue for a well-typed request is one.
LEMMA FreshCertsType ==
    ASSUME TypeOK, NEW r \in Reqs, msg[r] \in EstMessages \cup ScepMessages,
           NEW c \in FreshCerts(r)
    PROVE  c \in Cert
<1>1. PICK cn \in RoleCNs(r) : \E dns \in RoleDNS(r, cn), others \in RoleOthers(r),
                                  life \in Lifetimes : c = IssuedCert(r, cn, dns, others, life)
  BY DEF FreshCerts
<1>2. PICK dns \in RoleDNS(r, cn), others \in RoleOthers(r), life \in Lifetimes :
         c = IssuedCert(r, cn, dns, others, life)
  BY <1>1
<1>3. msg[r].csr \in CSR
  BY MessagesAssumption DEF EstMessage, ScepMessage
<1>4. /\ msg[r].csr.cn \in OptName
      /\ msg[r].csr.dns \in SUBSET Names
      /\ msg[r].csr.others \in SUBSET Others
  BY <1>3 DEF CSR
<1>5. decision[r].cons \in Constraints
  BY DEF TypeOK
<1>6. /\ decision[r].cons.cn \in OptName
      /\ decision[r].cons.dns \in SUBSET Names
      /\ decision[r].cons.others \in SUBSET Others
  BY <1>5 DEF Constraints
<1>7. cn \in OptName
  BY <1>4, <1>6 DEF RoleCNs
<1>8. dns \in SUBSET Names
  BY <1>4, <1>6, <1>7 DEF RoleDNS, OptCN, OptName
<1>9. others \in SUBSET Others
  BY <1>4, <1>6 DEF RoleOthers
<1>10. life \in Nat
  BY LifetimesAssumption
<1>11. <<r, attempts[r]>> \in OptToken \cup (Reqs \X Nat)
  BY DEF TypeOK
<1>12. (IF client[r] # NoCert THEN client[r].origin ELSE {cn} \cup dns) \in SUBSET OptName
  <2>1. client[r] # NoCert => client[r].origin \in SUBSET OptName
    BY DEF TypeOK, Cert
  <2> QED BY <2>1, <1>7, <1>8 DEF OptName
<1> QED BY <1>2, <1>7, <1>8, <1>9, <1>10, <1>11, <1>12 DEF IssuedCert, Cert

\* A certificate a client can present is a certificate.
LEMMA PresentableType ==
    ASSUME TypeOK PROVE Presentable \subseteq Cert \cup {NoCert}
BY FactoryAssumption DEF TypeOK, Presentable

-----------------------------------------------------------------------------
(* Type correctness                                                         *)

TInv == TypeOK /\ LocalOK

\* Receiving a message keeps the types.
LEMMA ReceiveTyping ==
    ASSUME TInv, NEW r \in Reqs, EstReceive(r) \/ ScepReceive(r)
    PROVE  TInv'
<1> USE DEF TInv, PCs
<1>1. CASE EstReceive(r)
  <2>1. PICK m \in EstMessages, peer \in Presentable :
           /\ msg' = [msg EXCEPT ![r] = m]
           /\ proto' = [proto EXCEPT ![r] = "est"]
           /\ IF EstAdmits(m, peer)
              THEN /\ client' = [client EXCEPT ![r] = ClientIdentity(m.op, peer)]
                   /\ pc' = [pc EXCEPT ![r] = "authorize"]
              ELSE /\ pc' = [pc EXCEPT ![r] = "closed"]
                   /\ UNCHANGED client
    BY <1>1 DEF EstReceive
  <2>2. ClientIdentity(m.op, peer) \in Cert \cup {NoCert}
    BY PresentableType DEF ClientIdentity, BootstrapOrNothing
  <2>3. UNCHANGED <<now, decision, attempts, bundle, audit, shared, history>>
    BY <1>1 DEF EstReceive
  <2>4. TypeOK'
    BY <2>1, <2>2, <2>3 DEF TypeOK, shared, history
  <2>5. LocalOK'
    BY <2>1, <2>3 DEF TypeOK, LocalOK, Working
  <2> QED BY <2>4, <2>5
<1>2. CASE ScepReceive(r)
  <2>1. PICK m \in ScepMessages, signer \in Presentable :
           /\ msg' = [msg EXCEPT ![r] = m]
           /\ proto' = [proto EXCEPT ![r] = "scep"]
           /\ IF ScepAdmits(m, signer)
              THEN /\ client' = [client EXCEPT ![r] = ScepIdentity(m, signer)]
                   /\ now' = [now EXCEPT ![r] = clock]
                   /\ pc' = [pc EXCEPT ![r] = "replay"]
              ELSE /\ pc' = [pc EXCEPT ![r] = "closed"]
                   /\ UNCHANGED <<client, now>>
    BY <1>2 DEF ScepReceive
  <2>2. ScepIdentity(m, signer) \in Cert \cup {NoCert}
    BY PresentableType DEF ScepIdentity
  <2>3. UNCHANGED <<decision, attempts, bundle, audit, shared, history>>
    BY <1>2 DEF ScepReceive
  <2>4. TypeOK'
    <3>1. /\ msg' \in [Reqs -> EstMessages \cup ScepMessages \cup {NoMsg}]
          /\ proto' \in [Reqs -> {"est", "scep"}]
      BY <2>1 DEF TypeOK
    <3>2. CASE ScepAdmits(m, signer)
      <4>1. pc' \in [Reqs -> PCs]
        BY <3>2, <2>1 DEF TypeOK
      <4>2. client' \in [Reqs -> Cert \cup {NoCert}]
        BY <3>2, <2>1, <2>2 DEF TypeOK
      <4>3. now' \in [Reqs -> Nat]
        BY <3>2, <2>1 DEF TypeOK
      <4> QED BY <2>3, <3>1, <4>1, <4>2, <4>3 DEF TypeOK, shared, history
    <3>3. CASE ~ScepAdmits(m, signer)
      <4>1. pc' \in [Reqs -> PCs] /\ UNCHANGED <<client, now>>
        BY <3>3, <2>1 DEF TypeOK
      <4> QED BY <2>3, <3>1, <4>1 DEF TypeOK, shared, history
    <3> QED BY <3>2, <3>3
  <2>5. LocalOK'
    BY <2>1, <2>3 DEF TypeOK, LocalOK, Working
  <2> QED BY <2>4, <2>5
<1> QED BY <1>1, <1>2

\* The replay check keeps the types: the pair it records expires at a Nat.
LEMMA ReplayTyping ==
    ASSUME TInv, NEW r \in Reqs, ScepReplayed(r) \/ ScepFresh(r)
    PROVE  TInv'
<1> USE DEF TInv, PCs
<1>1. CASE ScepReplayed(r)
  BY <1>1 DEF ScepReplayed, TypeOK, LocalOK, Working, shared, history
<1>2. CASE ScepFresh(r)
  <2>1. msg[r] \in ScepMessages /\ proto[r] = "scep"
    BY <1>2 DEF ScepFresh, LocalOK
  <2>2. msg[r].key \in ReplayKeys /\ now[r] \in Nat
    BY <2>1, MessagesAssumption DEF ScepMessage, TypeOK
  <2>3. DOMAIN RoomFor(seen, now[r]) \subseteq DOMAIN seen
    BY DEF RoomFor, EvictLocked, EmptyTable, Unexpired
  <2>4. /\ DOMAIN seen' \subseteq ReplayKeys
        /\ \A k \in DOMAIN seen' : seen'[k] \in Nat
    BY <1>2, <2>2, <2>3 DEF ScepFresh, Record, TypeOK
  <2>5. resets' \in Nat
    BY <1>2 DEF ScepFresh, TypeOK
  <2>6. accepted' \in [Reqs -> [read : Nat, at : Nat, gen : Nat]]
    BY <1>2, <2>2, <2>5 DEF ScepFresh, TypeOK
  <2>7. pc' \in [Reqs -> PCs]
    BY <1>2 DEF ScepFresh, TypeOK
  <2>8. TypeOK'
    BY <1>2, <2>4, <2>5, <2>6, <2>7 DEF ScepFresh, TypeOK
  <2>9. LocalOK'
    BY <1>2, <2>1 DEF ScepFresh, TypeOK, LocalOK, Working
  <2> QED BY <2>8, <2>9
<1> QED BY <1>1, <1>2

\* The decision Authorize takes is well typed.
LEMMA AuthorizeTyping ==
    ASSUME TInv, NEW r \in Reqs, Authorize(r)
    PROVE  TInv'
<1> USE DEF TInv, PCs
<1> DEFINE id == IdentityOf(r)
           ok == Allows(msg[r].op, id, msg[r].pw, codes, clock)
           d == [allow |-> TRUE, role |-> RoleFor(id, Lookup(id)),
                 cons |-> ConstraintsFor(id)]
<1>1. pc[r] = "authorize" /\ msg[r] \in EstMessages \cup ScepMessages
  BY DEF Authorize, LocalOK, Working
<1>2. ConstraintsFor(id) \in Constraints
  BY <1>1, IdentityType DEF IdentityOf, TypeOK
<1>3. ok => RoleFor(id, Lookup(id)) \in Roles \cup {NoRole}
  BY RoleForType DEF Allows, ReachesChallenge
<1>4. /\ UNCHANGED <<proto, msg, client, now, attempts, bundle, clock, seen,
                      restarts, issued, delivered, accepted, resets>>
      /\ IF ok
         THEN /\ decision' = [decision EXCEPT ![r] = d]
              /\ pc' = [pc EXCEPT ![r] = "sign"]
              /\ UNCHANGED audit
         ELSE /\ Close(r, "deny")
              /\ UNCHANGED decision
  BY DEF Authorize
<1> HIDE DEF id, ok
<1>5. TypeOK'
  <2>1. CASE ok
    <3>1. d \in [allow : BOOLEAN, role : Roles \cup {NoRole}, cons : Constraints]
      BY <2>1, <1>2, <1>3
    <3> HIDE DEF d
    <3>2. decision' \in [Reqs -> [allow : BOOLEAN, role : Roles \cup {NoRole},
                                  cons : Constraints]]
      BY <2>1, <3>1, <1>4 DEF TypeOK
    <3>3. pc' \in [Reqs -> PCs] /\ audit' = audit
      BY <2>1, <1>4 DEF TypeOK
    <3> QED BY <1>4, <3>2, <3>3 DEF TypeOK
  <2>2. CASE ~ok
    <3>1. pc' \in [Reqs -> PCs] /\ audit' \in [Reqs -> Outcomes] /\ decision' = decision
      BY <2>2, <1>4 DEF TypeOK, Close, Outcomes
    <3> QED BY <1>4, <3>1 DEF TypeOK
  <2> QED BY <2>1, <2>2
<1>6. LocalOK'
  BY <1>1, <1>4 DEF TypeOK, LocalOK, Working, Close
<1> QED BY <1>5, <1>6

\* An attempt at OpenBao, and the error that ends the attempts, keep the types.
LEMMA SignTyping ==
    ASSUME TInv, NEW r \in Reqs,
           \/ SignAnswered(r) \/ SignGarbled(r) \/ SignLost(r)
           \/ SignFailed(r) \/ SignError(r)
    PROVE  TInv'
<1> USE DEF TInv, PCs
<1>0. pc[r] = "sign" /\ msg[r] \in EstMessages \cup ScepMessages
  BY DEF SignAnswered, SignGarbled, SignLost, SignFailed, SignError, MayTry,
         LocalOK, Working
<1>1. FreshCerts(r) \subseteq Cert
  BY <1>0, FreshCertsType
<1>2. MayTry(r) => [attempts EXCEPT ![r] = @ + 1] \in [Reqs -> 0..(MaxRetries + 1)]
  BY DEF MayTry, TypeOK
<1>3. CASE SignAnswered(r)
  <2>1. PICK c \in Cert : /\ issued' = issued \cup {[cert |-> c, by |-> r]}
                          /\ bundle' = [bundle EXCEPT ![r] = c]
    BY <1>1, <1>3 DEF SignAnswered
  <2>2. TypeOK'
    BY <1>2, <1>3, <2>1 DEF SignAnswered, TypeOK, shared
  <2>3. LocalOK'
    BY <1>0, <1>3, <2>1 DEF SignAnswered, TypeOK, LocalOK, Working
  <2> QED BY <2>2, <2>3
<1>4. CASE SignGarbled(r)
  <2>1. PICK c \in Cert : issued' = issued \cup {[cert |-> c, by |-> r]}
    BY <1>1, <1>4 DEF SignGarbled
  <2>2. TypeOK'
    BY <1>2, <1>4, <2>1 DEF SignGarbled, TypeOK, shared
  <2>3. LocalOK'
    BY <1>0, <1>4 DEF SignGarbled, TypeOK, LocalOK, Working
  <2> QED BY <2>2, <2>3
<1>5. CASE SignLost(r)
  <2>1. PICK c \in Cert : issued' = issued \cup {[cert |-> c, by |-> r]}
    BY <1>1, <1>5 DEF SignLost
  <2>2. TypeOK'
    BY <1>2, <1>5, <2>1 DEF SignLost, TypeOK, shared
  <2>3. LocalOK'
    BY <1>5 DEF SignLost, LocalOK
  <2> QED BY <2>2, <2>3
<1>6. CASE SignFailed(r)
  BY <1>2, <1>6 DEF SignFailed, TypeOK, LocalOK, shared, history
<1>7. CASE SignError(r)
  BY <1>7 DEF SignError, Close, Outcomes, TypeOK, LocalOK, Working, shared, history
<1> QED BY <1>3, <1>4, <1>5, <1>6, <1>7

\* The steps that answer the client keep the types.
LEMMA AnswerTyping ==
    ASSUME TInv, NEW r \in Reqs,
           \/ Undecodable(r) \/ Withhold(r) \/ ReplyFails(r) \/ Reply(r)
           \/ Deliver(r) \/ ResponseLost(r)
    PROVE  TInv'
<1> USE DEF TInv, PCs, TypeOK, LocalOK, Working, shared, history
<1>1. CASE Undecodable(r)
  BY <1>1 DEF Undecodable
<1>2. CASE Withhold(r)
  BY <1>2 DEF Withhold, Close, Outcomes
<1>3. CASE ReplyFails(r)
  BY <1>3 DEF ReplyFails
<1>4. CASE Reply(r)
  BY <1>4 DEF Reply, Outcomes
<1>5. CASE Deliver(r)
  BY <1>5 DEF Deliver
<1>6. CASE ResponseLost(r)
  BY <1>6 DEF ResponseLost
<1> QED BY <1>1, <1>2, <1>3, <1>4, <1>5, <1>6

\* Every step keeps the types.
LEMMA Typing == TInv /\ [Next]_vars => TInv'
<1> SUFFICES ASSUME TInv, [Next]_vars PROVE TInv'
  OBVIOUS
<1>1. ASSUME NEW i \in CodeIds, AddCode(i) PROVE TInv'
  BY <1>1 DEF AddCode, TInv, TypeOK, LocalOK, local, history
<1>2. CASE Tick
  BY <1>2 DEF Tick, TInv, TypeOK, LocalOK, local, history
<1>3. CASE Restart
  BY <1>3 DEF Restart, EmptyTable, TInv, TypeOK, LocalOK, PCs, Working
<1>4. CASE UNCHANGED vars
  BY <1>4 DEF vars, local, shared, history, TInv, TypeOK, LocalOK
<1>5. ASSUME NEW r \in Reqs, EstReceive(r) \/ ScepReceive(r) \/ RequestStep(r)
      PROVE TInv'
  BY <1>5, ReceiveTyping, ReplayTyping, AuthorizeTyping, SignTyping, AnswerTyping
     DEF RequestStep
<1> QED BY <1>1, <1>2, <1>3, <1>4, <1>5 DEF Next

\* Init satisfies the types.
LEMMA InitTyping == Init => TInv
<1> SUFFICES ASSUME Init PROVE TInv
  OBVIOUS
<1>1. Undecided \in [allow : BOOLEAN, role : Roles \cup {NoRole}, cons : Constraints]
  BY DEF Undecided, NoConstraints, Constraints, OptName
<1>2. TypeOK
  BY <1>1 DEF Init, TypeOK, PCs, Outcomes, EmptyTable, NotAccepted
<1>3. LocalOK
  BY DEF Init, LocalOK, Working
<1> QED BY <1>2, <1>3 DEF TInv

\* The handlers' locals, the stores and the certificates keep their types; in
\* particular doRequest's attempts never exceed MaxRetries + 1.
THEOREM TypeCorrect == Spec => []TypeOK
<1>1. TInv => TypeOK
  BY DEF TInv
<1> QED BY <1>1, InitTyping, Typing, PTL DEF Spec

-----------------------------------------------------------------------------
(* What a request knows on its way to a reply                                *)

\* What the policy stage found, what OpenBao can have answered and what
\* VerifyIssued passed, as far as r has come.
Knows(r) ==
    /\ pc[r] \in {"sign", "verify", "respond"} =>
          /\ decision[r].cons = ConstraintsFor(IdentityOf(r))
          /\ BuildSucceeds(IdentityOf(r), Lookup(IdentityOf(r)))
    /\ (pc[r] \in {"verify", "respond"} /\ bundle[r] # Garbled) =>
          /\ bundle[r].cn \in RoleCNs(r)
          /\ bundle[r].origin = IF client[r] # NoCert THEN client[r].origin
                                ELSE {bundle[r].cn} \cup bundle[r].dns
    /\ pc[r] = "respond" =>
          bundle[r] # Garbled /\ VerifyIssued(bundle[r], decision[r].cons)

KnowInv == \A r \in Reqs : Knows(r)

\* A step of another request, or one that takes r where less is asked, keeps it.
LEMMA KnowsStays ==
    ASSUME NEW r \in Reqs, Knows(r),
           UNCHANGED <<client[r], msg[r], decision[r], bundle[r]>>,
           pc'[r] = pc[r] \/ pc'[r] \in {"replay", "authorize", "closed", "crashed"}
    PROVE  Knows(r)'
BY DEF Knows, IdentityOf, RoleCNs

\* Every step keeps what the requests know.
LEMMA Knowing == TInv /\ KnowInv /\ [Next]_vars => KnowInv'
<1> SUFFICES ASSUME TInv, KnowInv, [Next]_vars PROVE KnowInv'
  OBVIOUS
<1>0. \A q \in Reqs : Knows(q)
  BY DEF KnowInv
<1>1. ASSUME NEW r \in Reqs, EstReceive(r) \/ ScepReceive(r) PROVE KnowInv'
  <2>1. ASSUME NEW q \in Reqs, q # r PROVE Knows(q)'
    BY <1>0, <1>1, <2>1, KnowsStays DEF EstReceive, ScepReceive, TInv, TypeOK
  <2>2. pc'[r] \in {"replay", "authorize", "closed"}
    BY <1>1 DEF EstReceive, ScepReceive, TInv, TypeOK
  <2>3. Knows(r)'
    BY <2>2 DEF Knows
  <2> QED BY <2>1, <2>3 DEF KnowInv
<1>2. ASSUME NEW r \in Reqs, Authorize(r) PROVE KnowInv'
  <2>1. UNCHANGED <<client, msg, bundle>>
    BY <1>2 DEF Authorize
  <2>2. ASSUME NEW q \in Reqs, q # r PROVE Knows(q)'
    BY <1>0, <1>2, <2>1, <2>2, KnowsStays DEF Authorize, Close, TInv, TypeOK
  <2> DEFINE id == IdentityOf(r)
             ok == Allows(msg[r].op, id, msg[r].pw, codes, clock)
  <2>3. CASE ok
    <3>1. pc'[r] = "sign" /\ decision'[r].cons = ConstraintsFor(id)
      BY <1>2, <2>3 DEF Authorize, TInv, TypeOK
    <3>2. BuildSucceeds(id, Lookup(id))
      BY <2>3 DEF Allows
    <3>3. IdentityOf(r)' = id
      BY <2>1 DEF IdentityOf
    <3> HIDE DEF id
    <3>4. Knows(r)'
      BY <1>0, <2>1, <3>1, <3>2, <3>3 DEF Knows
    <3> QED BY <2>1, <2>2, <3>4 DEF KnowInv
  <2>4. CASE ~ok
    <3>1. pc'[r] = "closed" /\ decision' = decision
      BY <1>2, <2>4 DEF Authorize, Close, TInv, TypeOK
    <3>2. Knows(r)'
      BY <1>0, <2>1, <3>1, KnowsStays
    <3> QED BY <2>1, <2>2, <3>2 DEF KnowInv
  <2> QED BY <2>3, <2>4
<1>3. ASSUME NEW r \in Reqs, SignAnswered(r) PROVE KnowInv'
  <2>1. UNCHANGED <<client, msg, decision>> /\ pc[r] = "sign"
    BY <1>3 DEF SignAnswered, MayTry
  <2>2. ASSUME NEW q \in Reqs, q # r PROVE Knows(q)'
    BY <1>0, <1>3, <2>1, <2>2, KnowsStays DEF SignAnswered, TInv, TypeOK
  <2>3. PICK c \in FreshCerts(r) : bundle' = [bundle EXCEPT ![r] = c]
    BY <1>3 DEF SignAnswered
  <2>4. PICK cn \in RoleCNs(r) : \E dns \in RoleDNS(r, cn), others \in RoleOthers(r),
                                    life \in Lifetimes : c = IssuedCert(r, cn, dns, others, life)
    BY DEF FreshCerts
  <2>5. /\ c.cn = cn
        /\ c.origin = IF client[r] # NoCert THEN client[r].origin ELSE {c.cn} \cup c.dns
    BY <2>4 DEF IssuedCert
  <2>6. bundle'[r] = c /\ pc'[r] = "verify"
    BY <1>3, <2>3 DEF SignAnswered, TInv, TypeOK
  <2>7. Knows(r)'
    BY <1>0, <2>1, <2>5, <2>6 DEF Knows, IdentityOf, RoleCNs
  <2> QED BY <2>1, <2>2, <2>7 DEF KnowInv
<1>4. ASSUME NEW r \in Reqs, SignGarbled(r) PROVE KnowInv'
  <2>1. UNCHANGED <<client, msg, decision>> /\ pc[r] = "sign"
    BY <1>4 DEF SignGarbled, MayTry
  <2>2. ASSUME NEW q \in Reqs, q # r PROVE Knows(q)'
    BY <1>0, <1>4, <2>1, <2>2, KnowsStays DEF SignGarbled, TInv, TypeOK
  <2>3. bundle'[r] = Garbled /\ pc'[r] = "verify"
    BY <1>4 DEF SignGarbled, TInv, TypeOK
  <2>4. Knows(r)'
    BY <1>0, <2>1, <2>3 DEF Knows, IdentityOf
  <2> QED BY <2>1, <2>2, <2>4 DEF KnowInv
<1>5. ASSUME NEW r \in Reqs, Reply(r) PROVE KnowInv'
  <2>1. UNCHANGED <<client, msg, decision, bundle>> /\ pc[r] = "verify"
    BY <1>5 DEF Reply
  <2>2. ASSUME NEW q \in Reqs, q # r PROVE Knows(q)'
    BY <1>0, <1>5, <2>1, <2>2, KnowsStays DEF Reply, TInv, TypeOK
  <2>3. /\ pc'[r] = "respond" /\ bundle[r] # Garbled
        /\ VerifyIssued(bundle[r], decision[r].cons)
    BY <1>5 DEF Reply, TInv, TypeOK
  <2>4. Knows(r)'
    BY <1>0, <2>1, <2>3 DEF Knows, IdentityOf, RoleCNs
  <2> QED BY <2>1, <2>2, <2>4 DEF KnowInv
<1>6. ASSUME UNCHANGED <<client, msg, decision, bundle>>,
             \A q \in Reqs : pc'[q] = pc[q] \/ pc'[q] \in {"authorize", "closed", "crashed"}
      PROVE  KnowInv'
  BY <1>0, <1>6, KnowsStays DEF KnowInv
<1>7. ASSUME NEW r \in Reqs,
             \/ ScepReplayed(r) \/ ScepFresh(r) \/ SignLost(r) \/ SignFailed(r)
             \/ SignError(r) \/ Undecodable(r) \/ Withhold(r) \/ ReplyFails(r)
             \/ Deliver(r) \/ ResponseLost(r)
      PROVE  KnowInv'
  <2>1. UNCHANGED <<client, msg, decision, bundle>>
    BY <1>7 DEF ScepReplayed, ScepFresh, SignLost, SignFailed, SignError, Undecodable,
                Withhold, ReplyFails, Deliver, ResponseLost
  <2>2. \A q \in Reqs : pc'[q] = pc[q] \/ pc'[q] \in {"authorize", "closed", "crashed"}
    BY <1>7 DEF ScepReplayed, ScepFresh, SignLost, SignFailed, SignError, Undecodable,
                Withhold, ReplyFails, Deliver, ResponseLost, Close, TInv, TypeOK
  <2> QED BY <1>6, <2>1, <2>2
<1>8. ASSUME NEW i \in CodeIds, AddCode(i) PROVE KnowInv'
  BY <1>6, <1>8 DEF AddCode, local
<1>9. CASE Tick
  BY <1>6, <1>9 DEF Tick, local
<1>10. CASE Restart
  BY <1>6, <1>10 DEF Restart
<1>11. CASE UNCHANGED vars
  BY <1>6, <1>11 DEF vars, local
<1> QED
  BY <1>1, <1>2, <1>3, <1>4, <1>5, <1>7, <1>8, <1>9, <1>10, <1>11
     DEF Next, RequestStep

\* No request knows anything before it starts.
LEMMA InitKnowing == Init => KnowInv
BY DEF Init, KnowInv, Knows

\* Who the client is and what it sent change only when a message is received,
\* what was delivered only when a response arrives.
LEMMA Frame ==
    ASSUME TInv, [Next]_vars
    PROVE  \/ /\ UNCHANGED <<client, msg>>
              /\ \A q \in Reqs : pc[q] # "idle" => pc'[q] # "idle"
              /\ \/ UNCHANGED delivered
                 \/ \E r \in Reqs : /\ pc[r] = "respond"
                                    /\ delivered' = delivered \cup {[cert |-> bundle[r], by |-> r]}
           \/ \E r \in Reqs : EstReceive(r) \/ ScepReceive(r)
<1>1. ASSUME NEW r \in Reqs, RequestStep(r)
      PROVE  /\ UNCHANGED <<client, msg>>
             /\ \A q \in Reqs : pc[q] # "idle" => pc'[q] # "idle"
             /\ \/ UNCHANGED delivered
                \/ /\ pc[r] = "respond"
                   /\ delivered' = delivered \cup {[cert |-> bundle[r], by |-> r]}
  <2>1. /\ UNCHANGED <<client, msg>>
        /\ \/ UNCHANGED delivered
           \/ /\ pc[r] = "respond"
              /\ delivered' = delivered \cup {[cert |-> bundle[r], by |-> r]}
    BY <1>1 DEF RequestStep, ScepReplayed, ScepFresh, Authorize, SignAnswered,
       SignGarbled, SignLost, SignFailed, SignError, Undecodable, Withhold, ReplyFails,
       Reply, Deliver, ResponseLost, history
  <2>2. \E l \in Working \cup {"closed"} : pc' = [pc EXCEPT ![r] = l] \/ pc' = pc
    BY <1>1 DEF RequestStep, ScepReplayed, ScepFresh, Authorize, SignAnswered,
       SignGarbled, SignLost, SignFailed, SignError, Close, Undecodable, Withhold,
       ReplyFails, Reply, Deliver, ResponseLost, Working
  <2>3. \A q \in Reqs : pc[q] # "idle" => pc'[q] # "idle"
    BY <2>2 DEF Working, TInv, TypeOK
  <2> QED BY <2>1, <2>3
<1>2. ASSUME NEW i \in CodeIds, AddCode(i)
      PROVE  UNCHANGED <<client, msg, pc, delivered>>
  BY <1>2 DEF AddCode, local, history
<1>3. Tick \/ UNCHANGED vars => UNCHANGED <<client, msg, pc, delivered>>
  BY DEF Tick, vars, local, history
<1>4. Restart => /\ UNCHANGED <<client, msg, delivered>>
                 /\ \A q \in Reqs : pc[q] # "idle" => pc'[q] # "idle"
  BY DEF Restart
<1> QED BY <1>1, <1>2, <1>3, <1>4 DEF Next

-----------------------------------------------------------------------------
(* A device may re-key but not rename itself                                 *)

\* The names on a certificate descend from those its chain began with.
Descends(cert) == AllAllowed(NamesOn(cert), cert.origin)

ChainInv ==
    /\ \A d \in delivered : Descends(d.cert)
    /\ \A r \in Reqs : client[r] # NoCert => Descends(client[r])

\* A certificate whose origin is its own names descends from it.
LEMMA OwnOrigin ==
    ASSUME NEW c \in Cert, c.origin = {c.cn} \cup c.dns
    PROVE  Descends(c)
<1> SUFFICES ASSUME NEW n \in NamesOn(c) PROVE \E p \in c.origin : GlobMatch(p, n)
  BY DEF Descends, AllAllowed
<1>1. n \in c.origin
  BY DEF NamesOn, OptCN
<1>2. n \in Names
  BY DEF NamesOn, OptCN, Cert, OptName
<1>3. GlobMatch(n, n)
  BY <1>2, GlobReflexive, NamesAssumption
<1> QED BY <1>1, <1>3

\* Whatever a client presents descends from its origin.
LEMMA PresentedDescends ==
    ASSUME TInv, ChainInv, NEW c \in Presentable, c # NoCert
    PROVE  Descends(c)
<1>1. CASE c \in FactoryCerts
  BY <1>1, OwnOrigin, FactoryAssumption
<1>2. CASE c \in {d.cert : d \in delivered}
  BY <1>2 DEF ChainInv
<1> QED BY <1>1, <1>2 DEF Presentable

\* The certificate about to be sent descends from the names its chain began
\* with: VerifyIssued held it to the decision, the decision holds it to the
\* client's certificate, and that one descends from its own origin.
LEMMA ReplyDescends ==
    ASSUME Mode = "identity", TInv, KnowInv, ChainInv, NEW r \in Reqs, pc[r] = "respond"
    PROVE  Descends(bundle[r])
<1> DEFINE c == client[r]
           b == bundle[r]
           csr == msg[r].csr
           id == IdentityOf(r)
<1>1. b \in Cert /\ msg[r] \in EstMessages \cup ScepMessages
  BY DEF TInv, LocalOK, Working
<1>2. /\ decision[r].cons = ConstraintsFor(id)
      /\ BuildSucceeds(id, Lookup(id))
      /\ b.cn \in RoleCNs(r)
      /\ b.origin = IF c # NoCert THEN c.origin ELSE {b.cn} \cup b.dns
      /\ VerifyIssued(b, decision[r].cons)
      /\ c # NoCert => Descends(c)
  BY DEF ChainInv, KnowInv, Knows
<1>3. CASE c = NoCert
  BY <1>1, <1>2, <1>3, OwnOrigin
<1>4. CASE c # NoCert
  <2>1. c \in Cert
    BY <1>4 DEF TInv, TypeOK
  <2>2. csr \in CSR
    BY <1>1, MessagesAssumption DEF EstMessage, ScepMessage
  <2>3. /\ id.authenticated /\ id.cn = c.cn /\ id.dns = c.dns
        /\ id.rcn = csr.cn /\ id.rdns = csr.dns
    BY <1>4 DEF IdentityOf, ResolveIdentity
  <2> DEFINE asked == OptCN(csr.cn) \cup csr.dns
             cons == decision[r].cons
  <2>4. AllAllowed(asked, {c.cn} \cup c.dns)
    BY <1>2, <2>3 DEF BuildSucceeds, Permits, PinsIdentity, IdentityPermits
  <2>5. /\ cons.cn = c.cn
        /\ cons.dns = IF csr.dns # {} THEN csr.dns ELSE c.dns
    BY <1>2, <2>3 DEF ConstraintsFor, PinsIdentity, IdentityNames
  <2>6. VerifyNames(b, cons)
    BY <1>2 DEF VerifyIssued, BuildSucceeds
  <2>7. NamesOn(b) \subseteq asked \cup NamesOn(c)
    <3>1. OptCN(b.cn) \subseteq OptCN(csr.cn) \cup OptCN(c.cn)
      BY <1>2, <2>5 DEF RoleCNs, OptCN
    <3>2. b.dns \subseteq csr.dns \cup c.dns \cup OptCN(c.cn)
      BY <2>5, <2>6 DEF VerifyNames
    <3> QED BY <3>1, <3>2 DEF NamesOn
  <2>8. asked \in SUBSET Names /\ {c.cn} \cup c.dns \in SUBSET OptName
        /\ c.origin \in SUBSET OptName
    BY <2>1, <2>2 DEF CSR, Cert, OptCN, OptName
  <2>9. \A q \in ({c.cn} \cup c.dns) \ {NoName} : \E p \in c.origin : GlobMatch(p, q)
    BY <1>2, <1>4 DEF Descends, AllAllowed, NamesOn, OptCN
  <2>10. AllAllowed(asked, c.origin)
    BY <2>4, <2>8, <2>9, AllowedTransitive
  <2>11. AllAllowed(NamesOn(c), c.origin)
    BY <1>2, <1>4 DEF Descends
  <2> QED BY <1>2, <1>4, <2>7, <2>10, <2>11 DEF Descends, AllAllowed
<1> QED BY <1>3, <1>4
\* Every step keeps the chain.
LEMMA Chaining ==
    Mode = "identity" /\ TInv /\ KnowInv /\ ChainInv /\ [Next]_vars => ChainInv'
<1> SUFFICES ASSUME Mode = "identity", TInv, KnowInv, ChainInv, [Next]_vars
             PROVE  ChainInv'
  OBVIOUS
<1>1. ASSUME NEW r \in Reqs, EstReceive(r) \/ ScepReceive(r) PROVE ChainInv'
  <2>1. delivered' = delivered
    BY <1>1 DEF EstReceive, ScepReceive, history
  <2>2. \A q \in Reqs : q # r => client'[q] = client[q]
    BY <1>1 DEF EstReceive, ScepReceive, TInv, TypeOK
  <2>3. client'[r] = client[r] \/ client'[r] \in Presentable \cup {NoCert}
    BY <1>1 DEF EstReceive, ScepReceive, TInv, TypeOK, ClientIdentity,
                BootstrapOrNothing, ScepIdentity
  <2>4. client'[r] # NoCert => Descends(client'[r])
    BY <2>3, PresentedDescends DEF ChainInv
  <2> QED BY <2>1, <2>2, <2>4 DEF ChainInv, Descends, NamesOn
<1>2. ASSUME UNCHANGED <<client, delivered>> PROVE ChainInv'
  BY <1>2 DEF ChainInv, Descends, NamesOn
<1>3. ASSUME NEW r \in Reqs, pc[r] = "respond", UNCHANGED client,
             delivered' = delivered \cup {[cert |-> bundle[r], by |-> r]}
      PROVE  ChainInv'
  <2>1. Descends(bundle[r])
    BY <1>3, ReplyDescends
  <2>2. \A d \in delivered' : Descends(d.cert)
    BY <1>3, <2>1 DEF ChainInv
  <2> QED BY <1>3, <2>2 DEF ChainInv, Descends, NamesOn
<1> QED BY <1>1, <1>2, <1>3, Frame

\* In identity mode, over any number of renewals, over either protocol and across
\* crashes, no device is given a certificate for a name outside those of the
\* certificate its chain of renewals began with: fromAuthenticatedIdentity,
\* the re-verification in VerifyIssued and the transitivity of globMatch.
THEOREM NoRename == Spec => []IdentityContinuity
<1>1. CASE Mode # "identity"
  <2>1. IdentityContinuity
    BY <1>1 DEF IdentityContinuity
  <2> QED BY <2>1, PTL
<1>2. CASE Mode = "identity"
  <2>1. Init => ChainInv
    BY DEF Init, ChainInv
  <2>2. ChainInv => IdentityContinuity
    BY DEF ChainInv, IdentityContinuity, Descends
  <2>3. TInv /\ KnowInv /\ ChainInv /\ [Next]_vars => ChainInv'
    BY <1>2, Chaining
  <2> QED BY <2>1, <2>2, <2>3, InitTyping, Typing, InitKnowing, Knowing, PTL DEF Spec
<1> QED BY <1>1, <1>2

-----------------------------------------------------------------------------
(* Every delivered name is one policy permits                                *)

\* What NamesAuthorized says of one certificate and the request it answers.
Fits(cert, r) ==
    /\ Mode # "csr" => /\ AllAllowed(NamesOn(cert), PermittedFor(r))
                       /\ cert.others = {}
    /\ KeepsCN(cert, r)
    /\ MaxValidity > 0 => cert.life <= MaxValidity + TTLSlack

NamesInv == \A d \in delivered : pc[d.by] # "idle" /\ Fits(d.cert, d.by)

\* The certificate about to be sent fits: what VerifyIssued lets through is
\* within the decision, and Build let no name into it that is not permitted.
LEMMA ReplyFits ==
    ASSUME TInv, KnowInv, NEW r \in Reqs, pc[r] = "respond"
    PROVE  Fits(bundle[r], r)
<1> DEFINE c == client[r]
           b == bundle[r]
           csr == msg[r].csr
           id == IdentityOf(r)
           cons == decision[r].cons
           asked == OptCN(csr.cn) \cup csr.dns
<1>1. b \in Cert /\ msg[r] \in EstMessages \cup ScepMessages
  BY DEF TInv, LocalOK, Working
<1>2. /\ cons = ConstraintsFor(id)
      /\ BuildSucceeds(id, Lookup(id))
      /\ b.cn \in RoleCNs(r)
      /\ VerifyIssued(b, cons)
  BY DEF KnowInv, Knows
<1>3. id.rcn = csr.cn /\ id.rdns = csr.dns /\ id.rothers = csr.others
  BY DEF IdentityOf, ResolveIdentity
<1>4. MaxValidity > 0 => b.life <= MaxValidity + TTLSlack
  <2>1. cons.ttl = MaxValidity
    BY <1>2 DEF ConstraintsFor, IdentityNames, RequestedNames
  <2> QED BY <1>2, <2>1 DEF VerifyIssued
<1>5. VerifyNames(b, cons)
  BY <1>2 DEF VerifyIssued, BuildSucceeds
<1>6. CASE PinsIdentity(id)
  <2>1. c # NoCert /\ Mode = "identity"
    BY <1>6 DEF PinsIdentity, IdentityOf, ResolveIdentity
  <2>2. c \in Cert /\ id.cn = c.cn /\ id.dns = c.dns
    BY <2>1 DEF TInv, TypeOK, IdentityOf, ResolveIdentity
  <2>3. AllAllowed(asked, {c.cn} \cup c.dns)
    BY <1>2, <1>3, <1>6, <2>1, <2>2 DEF BuildSucceeds, Permits, IdentityPermits
  <2>4. /\ cons.cn = c.cn /\ cons.others = {}
        /\ cons.dns = IF csr.dns # {} THEN csr.dns ELSE c.dns
    BY <1>2, <1>3, <1>6, <2>2 DEF ConstraintsFor, IdentityNames
  <2>5. NamesOn(b) \subseteq asked \cup NamesOn(c)
    <3>1. OptCN(b.cn) \subseteq OptCN(csr.cn) \cup OptCN(c.cn)
      BY <1>2, <2>4 DEF RoleCNs, OptCN
    <3>2. b.dns \subseteq csr.dns \cup c.dns \cup OptCN(c.cn)
      BY <1>5, <2>4 DEF VerifyNames
    <3> QED BY <3>1, <3>2 DEF NamesOn
  <2>6. \A n \in NamesOn(c) : n \in {c.cn} \cup c.dns /\ GlobMatch(n, n)
    <3>1. \A n \in NamesOn(c) : n \in {c.cn} \cup c.dns /\ n \in Names
      BY <2>2 DEF NamesOn, OptCN, Cert, OptName
    <3> QED BY <3>1, GlobReflexive, NamesAssumption
  <2>7. AllAllowed(NamesOn(b), {c.cn} \cup c.dns)
    BY <2>3, <2>5, <2>6 DEF AllAllowed
  <2>8. b.others = {}
    BY <1>5, <2>4 DEF VerifyNames
  <2>9. KeepsCN(b, r)
    BY <1>5, <2>4 DEF VerifyNames, KeepsCN
  <2> QED BY <1>4, <1>6, <2>7, <2>8, <2>9 DEF Fits, PermittedFor
<1>7. CASE ~PinsIdentity(id) /\ Mode # "csr"
  <2>1. AllAllowed(asked, Lookup(id).allowed) /\ csr.others = {}
    BY <1>2, <1>3, <1>7 DEF BuildSucceeds, Permits, AllowlistPermits
  <2>2. cons.cn = csr.cn /\ cons.dns = csr.dns /\ cons.others = {}
    BY <1>2, <1>3, <1>7, <2>1 DEF ConstraintsFor, RequestedNames
  <2>3. NamesOn(b) \subseteq asked
    <3>1. b.cn = csr.cn
      BY <1>2, <2>2 DEF RoleCNs
    <3> QED BY <1>5, <2>2, <3>1 DEF VerifyNames, NamesOn
  <2>4. AllAllowed(NamesOn(b), Lookup(id).allowed) /\ b.others = {}
    BY <1>5, <2>1, <2>2, <2>3 DEF AllAllowed, VerifyNames
  <2> QED BY <1>4, <1>7, <2>4 DEF Fits, PermittedFor, KeepsCN
<1>8. CASE Mode = "csr"
  BY <1>4, <1>8 DEF Fits, KeepsCN, PinsIdentity
<1> QED BY <1>6, <1>7, <1>8

\* Every step keeps the delivered certificates fitting their requests.
LEMMA Fitting == TInv /\ KnowInv /\ NamesInv /\ [Next]_vars => NamesInv'
<1> SUFFICES ASSUME TInv, KnowInv, NamesInv, [Next]_vars PROVE NamesInv'
  OBVIOUS
<1>0. delivered \subseteq [cert : Cert, by : Reqs]
  BY DEF TInv, TypeOK
<1>1. ASSUME NEW r \in Reqs, client'[r] = client[r], msg'[r] = msg[r]
      PROVE  \A c : Fits(c, r) => Fits(c, r)'
  BY <1>1 DEF Fits, PermittedFor, KeepsCN, IdentityOf, NamesOn
<1>2. ASSUME NEW r \in Reqs, EstReceive(r) \/ ScepReceive(r) PROVE NamesInv'
  <2>1. pc[r] = "idle" /\ delivered' = delivered
    BY <1>2 DEF EstReceive, ScepReceive, history
  <2>2. \A q \in Reqs : q # r => UNCHANGED <<client[q], msg[q], pc[q]>>
    BY <1>2 DEF EstReceive, ScepReceive, TInv, TypeOK
  <2>3. \A d \in delivered : d.by \in Reqs /\ d.by # r
    BY <1>0, <2>1 DEF NamesInv
  <2> QED BY <1>1, <2>1, <2>2, <2>3 DEF NamesInv
<1>3. ASSUME UNCHANGED <<client, msg>>,
             \A q \in Reqs : pc[q] # "idle" => pc'[q] # "idle"
      PROVE  \A d \in delivered : pc'[d.by] # "idle" /\ Fits(d.cert, d.by)'
  BY <1>0, <1>1, <1>3 DEF NamesInv
<1>4. ASSUME NEW r \in Reqs, pc[r] = "respond", UNCHANGED <<client, msg>>,
             \A q \in Reqs : pc[q] # "idle" => pc'[q] # "idle",
             delivered' = delivered \cup {[cert |-> bundle[r], by |-> r]}
      PROVE  NamesInv'
  <2>1. Fits(bundle[r], r)
    BY <1>4, ReplyFits
  <2> DEFINE new == [cert |-> bundle[r], by |-> r]
  <2>2. pc'[r] # "idle" /\ \A c : c = bundle[r] => Fits(c, r)'
    BY <1>1, <1>4, <2>1
  <2>3. ASSUME NEW d \in delivered' PROVE pc'[d.by] # "idle" /\ Fits(d.cert, d.by)'
    <3>1. CASE d \in delivered
      BY <1>3, <1>4, <3>1
    <3>2. CASE d = new
      BY <2>2, <3>2 DEF Fits, PermittedFor, KeepsCN, IdentityOf, NamesOn
    <3> QED BY <1>4, <3>1, <3>2
  <2> QED BY <2>3 DEF NamesInv
<1> QED BY <1>2, <1>3, <1>4, Frame DEF NamesInv

\* Whatever the OpenBao role lets through, every name on a delivered
\* certificate is one the client certificate or the inventory record permits and
\* it has no IP or URI SAN (both unless policy trusts the CSR), a device pinned to
\* its certificate keeps its common name, and the lifetime is within
\* policy.max_validity and the slack of verify.go.
THEOREM OnlyPermittedNames == Spec => []NamesAuthorized
<1>1. Init => NamesInv
  BY DEF Init, NamesInv
<1>2. NamesInv => NamesAuthorized
  BY DEF NamesInv, NamesAuthorized, Fits
<1> QED BY <1>1, <1>2, InitTyping, Typing, InitKnowing, Knowing, Fitting, PTL DEF Spec

-----------------------------------------------------------------------------
(* Each operation trusts its own anchor                                      *)

\* The client certificate r goes by is one its operation may trust.
Anchored(r) ==
    /\ msg[r].op = "simplereenroll" => Verifies(client[r], "device")
    /\ msg[r].op = "simpleenroll" =>
          \/ client[r] = NoCert
          \/ proto[r] = "est" /\ Verifies(client[r], "bootstrap")
    /\ msg[r].op = "serverkeygen" =>
          \/ client[r] = NoCert
          \/ proto[r] = "est" /\ \E a \in Anchors : Verifies(client[r], a)

\* Every request past the parser is anchored, and OpenBao has issued only for
\* requests that got past it.
AnchorInv ==
    /\ \A r \in Reqs : pc[r] \in {"replay"} \cup Working => Anchored(r)
    /\ \A i \in issued : pc[i.by] # "idle" /\ Anchored(i.by)

\* Parsing anchors the request; no later step changes whom it goes by.
LEMMA Anchoring == TInv /\ AnchorInv /\ [Next]_vars => AnchorInv'
<1> SUFFICES ASSUME TInv, AnchorInv, [Next]_vars PROVE AnchorInv'
  OBVIOUS
<1>0. issued \subseteq [cert : Cert, by : Reqs]
  BY DEF TInv, TypeOK
<1>1. ASSUME NEW r \in Reqs, EstReceive(r) \/ ScepReceive(r) PROVE AnchorInv'
  <2>1. pc[r] = "idle" /\ issued' = issued
    BY <1>1 DEF EstReceive, ScepReceive, history
  <2>2. ASSUME NEW q \in Reqs, q # r
        PROVE  UNCHANGED <<pc[q], msg[q], client[q], proto[q]>>
    BY <1>1, <2>2 DEF EstReceive, ScepReceive, TInv, TypeOK
  <2>3. pc'[r] # "idle" /\ (pc'[r] # "closed" => Anchored(r)')
    <3>1. CASE EstReceive(r)
      <4>1. PICK m \in EstMessages, peer \in Presentable :
               /\ msg' = [msg EXCEPT ![r] = m]
               /\ proto' = [proto EXCEPT ![r] = "est"]
               /\ IF EstAdmits(m, peer)
                  THEN /\ client' = [client EXCEPT ![r] = ClientIdentity(m.op, peer)]
                       /\ pc' = [pc EXCEPT ![r] = "authorize"]
                  ELSE /\ pc' = [pc EXCEPT ![r] = "closed"]
                       /\ UNCHANGED client
        BY <3>1 DEF EstReceive
      <4>2. msg'[r] = m /\ proto'[r] = "est"
        BY <4>1 DEF TInv, TypeOK
      <4>3. CASE EstAdmits(m, peer)
        <5>1. client'[r] = ClientIdentity(m.op, peer) /\ pc'[r] = "authorize"
          BY <4>1, <4>3 DEF TInv, TypeOK
        <5>2. m.op = "simplereenroll" => Verifies(ClientIdentity(m.op, peer), "device")
          BY <4>3 DEF EstAdmits, IdentityAccepted, ClientIdentity
        <5>3. m.op = "simpleenroll" => \/ ClientIdentity(m.op, peer) = NoCert
                                       \/ Verifies(ClientIdentity(m.op, peer), "bootstrap")
          BY DEF ClientIdentity, BootstrapOrNothing
        <5>4. m.op = "serverkeygen" =>
                 \/ ClientIdentity(m.op, peer) = NoCert
                 \/ \E a \in Anchors : Verifies(ClientIdentity(m.op, peer), a)
          BY DEF ClientIdentity, BootstrapOrNothing, Verifies
        <5> QED BY <4>2, <5>1, <5>2, <5>3, <5>4 DEF Anchored, Verifies
      <4>4. CASE ~EstAdmits(m, peer)
        BY <4>1, <4>4 DEF TInv, TypeOK
      <4> QED BY <4>3, <4>4
    <3>2. CASE ScepReceive(r)
      <4>1. PICK m \in ScepMessages, signer \in Presentable :
               /\ msg' = [msg EXCEPT ![r] = m]
               /\ IF ScepAdmits(m, signer)
                  THEN /\ client' = [client EXCEPT ![r] = ScepIdentity(m, signer)]
                       /\ pc' = [pc EXCEPT ![r] = "replay"]
                  ELSE pc' = [pc EXCEPT ![r] = "closed"]
        BY <3>2 DEF ScepReceive
      <4>2. msg'[r] = m
        BY <4>1 DEF TInv, TypeOK
      <4>3. CASE ScepAdmits(m, signer)
        <5>1. client'[r] = ScepIdentity(m, signer) /\ pc'[r] = "replay"
          BY <4>1, <4>3 DEF TInv, TypeOK
        <5>2. m.op # "serverkeygen"
          BY MessagesAssumption DEF ScepMessage
        <5> QED BY <4>2, <4>3, <5>1, <5>2
                DEF Anchored, Verifies, ScepAdmits, IdentityAccepted, ScepIdentity
      <4>4. CASE ~ScepAdmits(m, signer)
        BY <4>1, <4>4 DEF TInv, TypeOK
      <4> QED BY <4>3, <4>4
    <3> QED BY <1>1, <3>1, <3>2
  <2>4. \A i \in issued : i.by \in Reqs /\ i.by # r
    BY <1>0, <2>1 DEF AnchorInv
  <2>5. \A q \in Reqs : q # r => (Anchored(q) => Anchored(q)')
    BY <2>2 DEF Anchored, Verifies
  <2> QED BY <2>1, <2>2, <2>3, <2>4, <2>5 DEF AnchorInv, Working
<1>2. ASSUME UNCHANGED <<msg, client, proto>>,
             \A q \in Reqs : /\ pc[q] # "idle" => pc'[q] # "idle"
                             /\ pc'[q] \in {"replay"} \cup Working =>
                                   pc[q] \in {"replay"} \cup Working,
             \A i \in issued' \ issued : i.by \in Reqs /\ pc[i.by] = "sign"
      PROVE  AnchorInv'
  <2>1. \A q \in Reqs : Anchored(q) => Anchored(q)'
    BY <1>2 DEF Anchored, Verifies
  <2> QED BY <1>0, <1>2, <2>1 DEF AnchorInv, Working
<1>3. ASSUME NEW r \in Reqs, RequestStep(r) PROVE AnchorInv'
  <2>1. UNCHANGED <<msg, client, proto>>
    BY <1>3 DEF RequestStep, ScepReplayed, ScepFresh, Authorize, SignAnswered,
       SignGarbled, SignLost, SignFailed, SignError, Undecodable, Withhold, ReplyFails,
       Reply, Deliver, ResponseLost
  <2>2. \A q \in Reqs : /\ pc[q] # "idle" => pc'[q] # "idle"
                        /\ pc'[q] \in {"replay"} \cup Working =>
                              pc[q] \in {"replay"} \cup Working
    <3>1. pc[r] \in {"replay"} \cup Working
      BY <1>3 DEF RequestStep, ScepReplayed, ScepFresh, Authorize, SignAnswered,
         SignGarbled, SignLost, SignFailed, SignError, MayTry, Undecodable, Withhold,
         ReplyFails, Reply, Deliver, ResponseLost, Working
    <3>2. \E l \in Working \cup {"closed"} : pc' = [pc EXCEPT ![r] = l] \/ pc' = pc
      BY <1>3 DEF RequestStep, ScepReplayed, ScepFresh, Authorize, SignAnswered,
         SignGarbled, SignLost, SignFailed, SignError, Close, Undecodable, Withhold,
         ReplyFails, Reply, Deliver, ResponseLost, Working
    <3> QED BY <3>1, <3>2 DEF Working, TInv, TypeOK
  <2>3. \A i \in issued' \ issued : i.by \in Reqs /\ pc[i.by] = "sign"
    BY <1>3 DEF RequestStep, ScepReplayed, ScepFresh, Authorize, SignAnswered,
       SignGarbled, SignLost, SignFailed, SignError, MayTry, Undecodable, Withhold,
       ReplyFails, Reply, Deliver, ResponseLost, history
  <2> QED BY <1>2, <2>1, <2>2, <2>3
<1>4. ASSUME NEW i \in CodeIds, AddCode(i) PROVE AnchorInv'
  BY <1>2, <1>4 DEF AddCode, local, history
<1>5. CASE Tick
  BY <1>2, <1>5 DEF Tick, local, history
<1>6. CASE Restart
  BY <1>2, <1>6 DEF Restart, Working
<1>7. CASE UNCHANGED vars
  BY <1>2, <1>7 DEF vars, local, history
<1> QED BY <1>1, <1>3, <1>4, <1>5, <1>6, <1>7 DEF Next

\* OpenBao issues a renewal only for a client certificate under the device anchor,
\* a first enrolment only for one under the bootstrap anchor or for none (over SCEP
\* always for none), and generates a key only over EST, for a certificate under one of
\* the two or for none: clientIdentity and Parser.Parse.
THEOREM AnchorsKept == Spec => []AnchorPerOperation
<1>1. Init => AnchorInv
  BY DEF Init, AnchorInv, Working
<1>2. AnchorInv => AnchorPerOperation
  BY DEF AnchorInv, Anchored, AnchorPerOperation
<1> QED BY <1>1, <1>2, InitTyping, Typing, Anchoring, PTL DEF Spec

-----------------------------------------------------------------------------
(* The audit log can be believed                                             *)

\* How far r has come, what its audit line says, what OpenBao issued for it and
\* what reached its client agree.
Accounted(r) ==
    /\ pc[r] \in {"idle", "replay", "authorize"} => IssuedFor(r) = {}
    /\ pc[r] \in {"idle", "replay", "authorize", "sign", "verify"} =>
          audit[r] = "none" /\ DeliveredFor(r) = {}
    /\ pc[r] \in {"verify", "respond"} => IssuedFor(r) # {}
    /\ pc[r] = "respond" => audit[r] = "issued"
    /\ audit[r] = "deny" => IssuedFor(r) = {}
    /\ DeliveredFor(r) # {} => audit[r] = "issued"
    /\ audit[r] \in {"issued", "constraint-violation"} => IssuedFor(r) # {}

AuditInv == \A r \in Reqs : Accounted(r)

\* A step that leaves r's books alone keeps them, wherever it takes r but to a
\* state that promises more.
LEMMA AccountedStays ==
    ASSUME NEW r \in Reqs, Accounted(r),
           audit'[r] = audit[r],
           IssuedFor(r)' = IssuedFor(r), DeliveredFor(r)' = DeliveredFor(r),
           \/ pc'[r] = pc[r]
           \/ pc'[r] \in {"closed", "crashed"}
           \/ pc[r] = "idle" /\ pc'[r] \in {"replay", "authorize"}
           \/ pc[r] = "replay" /\ pc'[r] = "authorize"
           \/ pc[r] = "authorize" /\ pc'[r] = "sign"
    PROVE  Accounted(r)'
BY DEF Accounted

\* Every step keeps the books.
LEMMA Accounting == TInv /\ AuditInv /\ [Next]_vars => AuditInv'
<1> SUFFICES ASSUME TInv, AuditInv, [Next]_vars,
                    NEW q \in Reqs
             PROVE  Accounted(q)'
  BY DEF AuditInv
<1> USE DEF AuditInv
<1>1. ASSUME UNCHANGED <<audit, issued, delivered>>,
             \/ pc'[q] = pc[q]
             \/ pc'[q] \in {"closed", "crashed"}
             \/ pc[q] = "idle" /\ pc'[q] \in {"replay", "authorize"}
             \/ pc[q] = "replay" /\ pc'[q] = "authorize"
             \/ pc[q] = "authorize" /\ pc'[q] = "sign"
      PROVE  Accounted(q)'
  BY <1>1, AccountedStays DEF IssuedFor, DeliveredFor
<1>2. ASSUME NEW r \in Reqs, EstReceive(r) \/ ScepReceive(r) PROVE Accounted(q)'
  BY <1>1, <1>2 DEF EstReceive, ScepReceive, TInv, TypeOK, history
<1>3. ASSUME NEW r \in Reqs,
             \/ ScepReplayed(r) \/ ScepFresh(r) \/ SignFailed(r) \/ Undecodable(r)
             \/ ReplyFails(r) \/ ResponseLost(r)
      PROVE  Accounted(q)'
  BY <1>1, <1>3 DEF ScepReplayed, ScepFresh, SignFailed, Undecodable, ReplyFails,
                    ResponseLost, TInv, TypeOK, history
<1>4. ASSUME NEW r \in Reqs, Authorize(r) PROVE Accounted(q)'
  <2>1. UNCHANGED <<issued, delivered>> /\ pc[r] = "authorize"
    BY <1>4 DEF Authorize
  <2>2. \/ pc' = [pc EXCEPT ![r] = "sign"] /\ UNCHANGED audit
        \/ Close(r, "deny")
    BY <1>4 DEF Authorize
  <2>3. CASE pc' = [pc EXCEPT ![r] = "sign"] /\ UNCHANGED audit
    BY <1>1, <2>1, <2>3 DEF TInv, TypeOK
  <2>4. CASE Close(r, "deny") /\ q = r
    <3>1. pc'[q] = "closed" /\ audit'[q] = "deny"
      BY <2>4 DEF Close, TInv, TypeOK
    <3>2. IssuedFor(q)' = {} /\ DeliveredFor(q)' = {}
      BY <2>1, <2>4 DEF Accounted, IssuedFor, DeliveredFor
    <3> QED BY <3>1, <3>2 DEF Accounted
  <2>5. CASE Close(r, "deny") /\ q # r
    BY <2>1, <2>5, AccountedStays DEF Close, TInv, TypeOK, IssuedFor, DeliveredFor
  <2> QED BY <2>2, <2>3, <2>4, <2>5
<1>5. ASSUME NEW r \in Reqs, SignAnswered(r) \/ SignGarbled(r) \/ SignLost(r)
      PROVE  Accounted(q)'
  <2>1. /\ UNCHANGED <<audit, delivered>> /\ pc[r] = "sign"
        /\ pc' = [pc EXCEPT ![r] = "verify"] \/ pc' = pc
    BY <1>5 DEF SignAnswered, SignGarbled, SignLost, MayTry
  <2>2. PICK c : issued' = issued \cup {[cert |-> c, by |-> r]}
    BY <1>5 DEF SignAnswered, SignGarbled, SignLost
  <2>3. CASE q # r
    <3>1. IssuedFor(q)' = IssuedFor(q) /\ DeliveredFor(q)' = DeliveredFor(q)
      BY <2>1, <2>2, <2>3 DEF IssuedFor, DeliveredFor
    <3>2. pc'[q] = pc[q] /\ audit'[q] = audit[q]
      BY <2>1, <2>3 DEF TInv, TypeOK
    <3> QED BY <3>1, <3>2, AccountedStays
  <2>4. CASE q = r
    <3>1. pc'[q] \in {"sign", "verify"}
      BY <2>1, <2>4 DEF TInv, TypeOK
    <3>2. IssuedFor(q)' # {}
      <4>1. [cert |-> c, by |-> r] \in issued'
        BY <2>2
      <4>2. [cert |-> c, by |-> r].by = q
        BY <2>4
      <4>3. [cert |-> c, by |-> r] \in IssuedFor(q)'
        BY <4>1, <4>2 DEF IssuedFor
      <4> QED BY <4>3
    <3>3. audit'[q] = "none" /\ DeliveredFor(q)' = {}
      BY <2>1, <2>4 DEF Accounted, DeliveredFor
    <3> QED BY <3>1, <3>2, <3>3 DEF Accounted
  <2> QED BY <2>3, <2>4
<1>6. ASSUME NEW r \in Reqs, SignError(r) \/ Withhold(r) PROVE Accounted(q)'
  <2>1. UNCHANGED <<issued, delivered>>
    BY <1>6 DEF SignError, Withhold, history
  <2>2. /\ pc' = [pc EXCEPT ![r] = "closed"]
        /\ \/ pc[r] = "sign" /\ audit' = [audit EXCEPT ![r] = "issue-error"]
           \/ pc[r] = "verify" /\ audit' = [audit EXCEPT ![r] = "constraint-violation"]
    BY <1>6 DEF SignError, Withhold, Close
  <2>3. IssuedFor(q)' = IssuedFor(q) /\ DeliveredFor(q)' = DeliveredFor(q)
    BY <2>1 DEF IssuedFor, DeliveredFor
  <2>4. CASE q # r
    <3>1. pc'[q] = pc[q] /\ audit'[q] = audit[q]
      BY <2>2, <2>4 DEF TInv, TypeOK
    <3> QED BY <2>3, <3>1, AccountedStays
  <2>5. CASE q = r
    <3>1. /\ pc'[q] = "closed"
          /\ \/ pc[q] = "sign" /\ audit'[q] = "issue-error"
             \/ pc[q] = "verify" /\ audit'[q] = "constraint-violation"
      BY <2>2, <2>5 DEF TInv, TypeOK
    <3> QED BY <2>3, <3>1 DEF Accounted
  <2> QED BY <2>4, <2>5
<1>7. ASSUME NEW r \in Reqs, Reply(r) PROVE Accounted(q)'
  <2>1. /\ UNCHANGED <<issued, delivered>> /\ pc[r] = "verify"
        /\ pc' = [pc EXCEPT ![r] = "respond"]
        /\ audit' = [audit EXCEPT ![r] = "issued"]
    BY <1>7 DEF Reply, history
  <2>2. IssuedFor(q)' = IssuedFor(q) /\ DeliveredFor(q)' = DeliveredFor(q)
    BY <2>1 DEF IssuedFor, DeliveredFor
  <2>3. CASE q # r
    <3>1. pc'[q] = pc[q] /\ audit'[q] = audit[q]
      BY <2>1, <2>3 DEF TInv, TypeOK
    <3> QED BY <2>2, <3>1, AccountedStays
  <2>4. CASE q = r
    <3>1. pc'[q] = "respond" /\ audit'[q] = "issued"
      BY <2>1, <2>4 DEF TInv, TypeOK
    <3> QED BY <2>1, <2>2, <2>4, <3>1 DEF Accounted
  <2> QED BY <2>3, <2>4
<1>8. ASSUME NEW r \in Reqs, Deliver(r) PROVE Accounted(q)'
  <2>1. /\ UNCHANGED <<issued, audit>> /\ pc[r] = "respond"
        /\ pc' = [pc EXCEPT ![r] = "closed"]
        /\ delivered' = delivered \cup {[cert |-> bundle[r], by |-> r]}
    BY <1>8 DEF Deliver
  <2>2. IssuedFor(q)' = IssuedFor(q)
    BY <2>1 DEF IssuedFor
  <2>3. CASE q # r
    <3>1. pc'[q] = pc[q] /\ audit'[q] = audit[q] /\ DeliveredFor(q)' = DeliveredFor(q)
      BY <2>1, <2>3 DEF TInv, TypeOK, DeliveredFor
    <3> QED BY <2>2, <3>1, AccountedStays
  <2>4. CASE q = r
    <3>1. pc'[q] = "closed" /\ audit'[q] = "issued"
      BY <2>1, <2>4 DEF TInv, TypeOK, Accounted
    <3> QED BY <2>1, <2>2, <2>4, <3>1 DEF Accounted
  <2> QED BY <2>3, <2>4
<1>9. ASSUME NEW i \in CodeIds, AddCode(i) PROVE Accounted(q)'
  BY <1>1, <1>9 DEF AddCode, local, history
<1>10. CASE Tick
  BY <1>1, <1>10 DEF Tick, local, history
<1>11. CASE Restart
  BY <1>1, <1>11 DEF Restart
<1>12. CASE UNCHANGED vars
  BY <1>1, <1>12 DEF vars, local, history
<1> QED
  BY <1>2, <1>3, <1>4, <1>5, <1>6, <1>7, <1>8, <1>9, <1>10, <1>11, <1>12
     DEF Next, RequestStep

\* Across retries, lost answers and crashes, "deny" means OpenBao issued nothing
\* for the request, "issued" and "constraint-violation" mean it did, and
\* no certificate reaches a client before its "issued" line is written.
THEOREM AuditBelievable == Spec => []AuditTruthful
<1>1. Init => AuditInv
  BY DEF Init, AuditInv, Accounted, IssuedFor, DeliveredFor
<1>2. AuditInv => AuditTruthful
  BY DEF AuditInv, Accounted, AuditTruthful
<1> QED BY <1>1, <1>2, InitTyping, Typing, Accounting, PTL DEF Spec
=============================================================================
