---------------------------- MODULE PromiseProofs ----------------------------
(***************************************************************************)
(* Enrollment implements Issuance, for every set of requests, messages,     *)
(* policies and roles: each step of a handler, of OpenBao or of a crash is a  *)
(* step of Issuance or leaves it alone. Beyond types and what a request knows *)
(* (EnrollmentProofs) it takes that the certificate a handler holds is one    *)
(* OpenBao issued for that very request.                                    *)
(***************************************************************************)
EXTENDS EnrollmentProofs

\* What a handler holds, OpenBao issued for it.
HoldsOwn(r) ==
    (pc[r] \in {"verify", "respond"} /\ bundle[r] # Garbled)
        => [cert |-> bundle[r], by |-> r] \in issued

HoldInv == \A r \in Reqs : HoldsOwn(r)

RInv == TInv /\ KnowInv /\ HoldInv

\* Issuance's view of the requests.
StateMap == [r \in Reqs |-> Progress(r)]
PermitMap == [r \in Reqs |-> decision[r].cons]

-----------------------------------------------------------------------------
(* What each step does to the view                                          *)

\* A step that moves only r moves only r in the view.
LEMMA OneMoves ==
    ASSUME TInv, NEW r \in Reqs, NEW l \in PCs, pc' = [pc EXCEPT ![r] = l]
    PROVE  /\ pc'[r] = l
           /\ StateMap' = [StateMap EXCEPT ![r] = Progress(r)']
           /\ \A q \in Reqs : q # r => pc'[q] = pc[q]
<1>1. pc'[r] = l /\ \A q \in Reqs : q # r => pc'[q] = pc[q]
  BY DEF TInv, TypeOK
<1>2. \A q \in Reqs : q # r => Progress(q)' = Progress(q)
  BY <1>1 DEF Progress
<1>3. StateMap' = [q \in Reqs |-> Progress(q)']
  BY DEF StateMap
<1> QED BY <1>1, <1>2, <1>3 DEF StateMap

\* With the decisions as they are, so are the permits.
LEMMA SamePermits == ASSUME UNCHANGED decision PROVE UNCHANGED PermitMap
BY DEF PermitMap

\* With the requests where they are, so is the view.
LEMMA SameStates == ASSUME UNCHANGED pc PROVE UNCHANGED StateMap
BY DEF StateMap, Progress

\* A request that is under way and closes, without anything handed over, ends.
LEMMA Ending ==
    ASSUME TInv, NEW r \in Reqs, pc' = [pc EXCEPT ![r] = "closed"],
           pc[r] \in {"replay", "authorize", "sign", "verify", "respond"},
           UNCHANGED <<decision, issued, delivered>>
    PROVE  Promise!End(r)
<1>1. Progress(r) \in {"open", "approved"} /\ Progress(r)' = "ended"
  <2>1. pc'[r] = "closed"
    BY DEF TInv, TypeOK
  <2> QED BY <2>1 DEF Progress
<1>2. "closed" \in PCs
  BY DEF PCs
<1>3. StateMap' = [StateMap EXCEPT ![r] = "ended"]
  BY <1>1, <1>2, OneMoves
<1>4. StateMap[r] \in {"open", "approved"}
  BY <1>1 DEF StateMap
<1> QED BY <1>3, <1>4, SamePermits DEF Promise!End, StateMap, PermitMap

-----------------------------------------------------------------------------
(* The handler holds what OpenBao issued for it                              *)

\* Every step keeps it so.
LEMMA Holding == TInv /\ HoldInv /\ [Next]_vars => HoldInv'
<1> SUFFICES ASSUME TInv, HoldInv, [Next]_vars, NEW q \in Reqs
             PROVE  HoldsOwn(q)'
  BY DEF HoldInv
<1>0. HoldsOwn(q)
  BY DEF HoldInv
<1>1. ASSUME issued \subseteq issued', bundle'[q] = bundle[q],
             \/ pc'[q] = pc[q]
             \/ pc'[q] \notin {"verify", "respond"}
             \/ pc[q] = "verify" /\ pc'[q] = "respond"
      PROVE  HoldsOwn(q)'
  BY <1>0, <1>1 DEF HoldsOwn
<1>2. ASSUME NEW r \in Reqs, SignAnswered(r) PROVE HoldsOwn(q)'
  <2>1. PICK c \in FreshCerts(r) :
           /\ issued' = issued \cup {[cert |-> c, by |-> r]}
           /\ bundle' = [bundle EXCEPT ![r] = c]
    BY <1>2 DEF SignAnswered
  <2>2. pc' = [pc EXCEPT ![r] = "verify"]
    BY <1>2 DEF SignAnswered
  <2>3. CASE q = r
    <3>1. bundle'[q] = c
      BY <2>1, <2>3 DEF TInv, TypeOK
    <3> QED BY <2>1, <2>3, <3>1 DEF HoldsOwn
  <2>4. CASE q # r
    <3>1. bundle'[q] = bundle[q] /\ pc'[q] = pc[q] /\ issued \subseteq issued'
      BY <2>1, <2>2, <2>4 DEF TInv, TypeOK
    <3> QED BY <1>1, <3>1
  <2> QED BY <2>3, <2>4
<1>3. ASSUME NEW r \in Reqs, SignGarbled(r) PROVE HoldsOwn(q)'
  <2>1. /\ issued \subseteq issued' /\ bundle' = [bundle EXCEPT ![r] = Garbled]
        /\ pc' = [pc EXCEPT ![r] = "verify"]
    BY <1>3 DEF SignGarbled
  <2>2. CASE q = r
    <3>1. bundle'[q] = Garbled
      BY <2>1, <2>2 DEF TInv, TypeOK
    <3> QED BY <3>1 DEF HoldsOwn
  <2>3. CASE q # r
    <3>1. bundle'[q] = bundle[q] /\ pc'[q] = pc[q] /\ issued \subseteq issued'
      BY <2>1, <2>3 DEF TInv, TypeOK
    <3> QED BY <1>1, <3>1
  <2> QED BY <2>2, <2>3
<1>4. ASSUME NEW r \in Reqs,
             \/ EstReceive(r) \/ ScepReceive(r) \/ ScepReplayed(r) \/ ScepFresh(r)
             \/ Authorize(r) \/ SignLost(r) \/ SignFailed(r) \/ SignError(r)
             \/ Undecodable(r) \/ Withhold(r) \/ ReplyFails(r) \/ Deliver(r)
             \/ ResponseLost(r)
      PROVE  HoldsOwn(q)'
  <2>1. issued \subseteq issued' /\ UNCHANGED bundle
    BY <1>4 DEF EstReceive, ScepReceive, ScepReplayed, ScepFresh, Authorize, SignLost,
       SignFailed, SignError, Undecodable, Withhold, ReplyFails, Deliver, ResponseLost,
       history
  <2>2. pc' = pc \/ \E l \in {"replay", "authorize", "sign", "closed"} :
                       pc' = [pc EXCEPT ![r] = l]
    BY <1>4 DEF EstReceive, ScepReceive, ScepReplayed, ScepFresh, Authorize, SignLost,
       SignFailed, SignError, Undecodable, Withhold, ReplyFails, Deliver, ResponseLost,
       Close
  <2> QED BY <1>1, <2>1, <2>2 DEF TInv, TypeOK
<1>5. ASSUME NEW r \in Reqs, Reply(r) PROVE HoldsOwn(q)'
  BY <1>1, <1>5 DEF Reply, history, TInv, TypeOK
<1>6. ASSUME NEW i \in CodeIds, AddCode(i) PROVE HoldsOwn(q)'
  BY <1>1, <1>6 DEF AddCode, local, history
<1>7. CASE Tick
  BY <1>1, <1>7 DEF Tick, local, history
<1>8. CASE Restart
  BY <1>1, <1>8 DEF Restart
<1>9. CASE UNCHANGED vars
  BY <1>1, <1>9 DEF vars, local, history
<1> QED
  BY <1>2, <1>3, <1>4, <1>5, <1>6, <1>7, <1>8, <1>9 DEF Next, RequestStep

-----------------------------------------------------------------------------
(* Every step is a step of Issuance                                          *)

\* Receiving a message is taking a request on, or turning it away.
LEMMA ReceiveTakes ==
    ASSUME TInv, NEW r \in Reqs, EstReceive(r) \/ ScepReceive(r)
    PROVE  Promise!Take(r)
<1>1. PICK l \in {"replay", "authorize", "closed"} : pc' = [pc EXCEPT ![r] = l]
  BY DEF EstReceive, ScepReceive
<1>2. l \in PCs
  BY DEF PCs
<1>3. pc[r] = "idle" /\ UNCHANGED <<decision, issued, delivered>>
  BY DEF EstReceive, ScepReceive, history
<1>4. /\ pc'[r] = l
      /\ StateMap' = [StateMap EXCEPT ![r] = Progress(r)']
  BY <1>1, <1>2, OneMoves
<1>5. Progress(r) = "new" /\ Progress(r)' \in {"open", "ended"}
  BY <1>3, <1>4 DEF Progress
<1>6. StateMap[r] = "new"
  BY <1>5 DEF StateMap
<1> QED BY <1>3, <1>4, <1>5, <1>6, SamePermits DEF Promise!Take, StateMap, PermitMap

\* Authorize approves, for constraints fixed in the decision, or ends the request.
LEMMA AuthorizeApproves ==
    ASSUME TInv, NEW r \in Reqs, Authorize(r)
    PROVE  Promise!Approve(r) \/ Promise!End(r)
<1>1. pc[r] = "authorize" /\ UNCHANGED <<issued, delivered>>
  BY DEF Authorize
<1>2. CASE pc' = [pc EXCEPT ![r] = "closed"] /\ UNCHANGED decision
  BY <1>1, <1>2, Ending
<1>3. ASSUME NEW d, pc' = [pc EXCEPT ![r] = "sign"], decision' = [decision EXCEPT ![r] = d]
      PROVE  Promise!Approve(r)
  <2>1. "sign" \in PCs
    BY DEF PCs
  <2>2. pc'[r] = "sign" /\ StateMap' = [StateMap EXCEPT ![r] = Progress(r)']
    BY <1>3, <2>1, OneMoves
  <2>3. Progress(r) = "open" /\ Progress(r)' = "approved"
    BY <1>1, <2>2 DEF Progress
  <2>4. StateMap[r] = "open" /\ StateMap' = [StateMap EXCEPT ![r] = "approved"]
    BY <2>2, <2>3 DEF StateMap
  <2>5. \A q \in Reqs : q # r => decision'[q] = decision[q]
    BY <1>3 DEF TInv, TypeOK
  <2>6. PermitMap' = [PermitMap EXCEPT ![r] = PermitMap'[r]]
    BY <2>5 DEF PermitMap
  <2> QED BY <1>1, <2>4, <2>6 DEF Promise!Approve, StateMap, PermitMap
<1>4. \/ pc' = [pc EXCEPT ![r] = "closed"] /\ UNCHANGED decision
      \/ \E d : pc' = [pc EXCEPT ![r] = "sign"] /\ decision' = [decision EXCEPT ![r] = d]
  BY DEF Authorize, Close
<1> QED BY <1>2, <1>3, <1>4

\* An attempt that reaches OpenBao makes certificates for a request that stands
\* approved; the other steps of the loop leave the view alone.
LEMMA AttemptMakes ==
    ASSUME TInv, NEW r \in Reqs,
           SignAnswered(r) \/ SignGarbled(r) \/ SignLost(r) \/ SignFailed(r)
    PROVE  Promise!Make(r)
<1>1. /\ pc[r] = "sign"
      /\ pc' = pc \/ pc' = [pc EXCEPT ![r] = "verify"]
      /\ UNCHANGED <<decision, delivered>>
  BY DEF SignAnswered, SignGarbled, SignLost, SignFailed, MayTry, history
<1>2. issued \subseteq issued' /\ \A m \in issued' \ issued : m.by = r
  BY DEF SignAnswered, SignGarbled, SignLost, SignFailed, history
<1>3. UNCHANGED StateMap
  <2>1. "verify" \in PCs
    BY DEF PCs
  <2>2. CASE pc' = [pc EXCEPT ![r] = "verify"]
    <3>1. pc'[r] = "verify" /\ StateMap' = [StateMap EXCEPT ![r] = Progress(r)']
      BY <2>1, <2>2, OneMoves
    <3>2. Progress(r)' = "approved" /\ Progress(r) = "approved"
      BY <1>1, <3>1 DEF Progress
    <3> QED BY <3>1, <3>2 DEF StateMap
  <2> QED BY <1>1, <2>2, SameStates
<1>4. StateMap[r] = "approved"
  BY <1>1 DEF StateMap, Progress
<1> QED BY <1>1, <1>2, <1>3, <1>4, SamePermits DEF Promise!Make, StateMap, PermitMap

\* What is delivered is a certificate made for r, within r's permit.
LEMMA DeliverHands ==
    ASSUME RInv, NEW r \in Reqs, Deliver(r)
    PROVE  Promise!Hand(r)
<1>1. /\ pc[r] = "respond" /\ pc' = [pc EXCEPT ![r] = "closed"]
      /\ delivered' = delivered \cup {[cert |-> bundle[r], by |-> r]}
      /\ UNCHANGED <<decision, issued>>
  BY DEF Deliver
<1>2. bundle[r] # Garbled /\ VerifyIssued(bundle[r], decision[r].cons)
  BY <1>1 DEF RInv, KnowInv, Knows
<1>3. [cert |-> bundle[r], by |-> r] \in issued
  BY <1>1, <1>2 DEF RInv, HoldInv, HoldsOwn
<1>4. "closed" \in PCs
  BY DEF PCs
<1>5. pc'[r] = "closed" /\ StateMap' = [StateMap EXCEPT ![r] = Progress(r)']
  BY <1>1, <1>4, OneMoves DEF RInv
<1>6. Progress(r)' = "ended" /\ Progress(r) = "approved"
  BY <1>1, <1>5 DEF Progress
<1>7. StateMap[r] = "approved" /\ PermitMap[r] = decision[r].cons
  BY <1>6 DEF StateMap, PermitMap
<1>8. \E m \in issued : /\ m.by = r /\ VerifyIssued(m.cert, PermitMap[r])
                        /\ delivered' = delivered \cup {m}
  <2> WITNESS [cert |-> bundle[r], by |-> r] \in issued
  <2> QED BY <1>1, <1>2, <1>7
<1> QED
  BY <1>1, <1>5, <1>6, <1>7, <1>8, SamePermits DEF Promise!Hand, StateMap, PermitMap

\* The steps of a request that end it with nothing.
LEMMA FailureEnds ==
    ASSUME TInv, NEW r \in Reqs,
           \/ ScepReplayed(r) \/ SignError(r) \/ Undecodable(r) \/ Withhold(r)
           \/ ReplyFails(r) \/ ResponseLost(r)
    PROVE  Promise!End(r)
<1>1. /\ pc' = [pc EXCEPT ![r] = "closed"]
      /\ pc[r] \in {"replay", "authorize", "sign", "verify", "respond"}
      /\ UNCHANGED <<decision, issued, delivered>>
  BY DEF ScepReplayed, SignError, Undecodable, Withhold, ReplyFails, ResponseLost,
         Close, history
<1> QED BY <1>1, Ending

\* Passing the replay check and building a reply are no steps of Issuance.
LEMMA InnerStutters ==
    ASSUME TInv, NEW r \in Reqs, ScepFresh(r) \/ Reply(r)
    PROVE  UNCHANGED <<StateMap, PermitMap, issued, delivered>>
<1>1. PICK l \in {"authorize", "respond"} :
         /\ pc' = [pc EXCEPT ![r] = l]
         /\ l = "authorize" => pc[r] = "replay"
         /\ l = "respond" => pc[r] = "verify"
  BY DEF ScepFresh, Reply
<1>2. UNCHANGED <<decision, issued, delivered>>
  BY DEF ScepFresh, Reply, history
<1>3. l \in PCs
  BY DEF PCs
<1>4. pc'[r] = l /\ StateMap' = [StateMap EXCEPT ![r] = Progress(r)']
  BY <1>1, <1>3, OneMoves
<1>5. Progress(r)' = Progress(r)
  BY <1>1, <1>4 DEF Progress
<1>6. UNCHANGED StateMap
  BY <1>4, <1>5 DEF StateMap
<1> QED BY <1>2, <1>6, SamePermits

\* A restart ends what was under way.
LEMMA RestartCrashes == ASSUME TInv, Restart PROVE Promise!Crash
<1>1. /\ pc' = [r \in Reqs |-> IF pc[r] \in {"idle", "closed"} THEN pc[r] ELSE "crashed"]
      /\ UNCHANGED <<decision, issued, delivered>>
  BY DEF Restart
<1>2. ASSUME NEW r \in Reqs
      PROVE  Progress(r)' = IF Progress(r) = "new" THEN "new" ELSE "ended"
  <2>1. pc'[r] = IF pc[r] \in {"idle", "closed"} THEN pc[r] ELSE "crashed"
    BY <1>1
  <2>2. CASE pc[r] = "idle"
    BY <2>1, <2>2 DEF Progress
  <2>3. CASE pc[r] # "idle"
    <3>1. pc'[r] \in {"closed", "crashed"}
      BY <2>1, <2>3
    <3>2. Progress(r)' = "ended"
      BY <3>1 DEF Progress
    <3>3. Progress(r) # "new"
      BY <2>3 DEF Progress
    <3> QED BY <3>2, <3>3
  <2> QED BY <2>2, <2>3
<1>3. StateMap' = [r \in Reqs |-> IF StateMap[r] = "new" THEN "new" ELSE "ended"]
  BY <1>2 DEF StateMap
<1> QED BY <1>1, <1>3, SamePermits DEF Promise!Crash, StateMap, PermitMap

\* Every step of Enrollment is one of Issuance or leaves its state alone.
LEMMA StepImplements == RInv /\ [Next]_vars => [Promise!Next]_(Promise!vars)
<1> SUFFICES ASSUME RInv, [Next]_vars
             PROVE  Promise!Next \/ UNCHANGED <<StateMap, PermitMap, issued, delivered>>
  BY DEF Promise!vars, StateMap, PermitMap
<1>0. TInv
  BY DEF RInv
<1>1. ASSUME NEW r \in Reqs, EstReceive(r) \/ ScepReceive(r) PROVE Promise!Next
  BY <1>0, <1>1, ReceiveTakes DEF Promise!Next
<1>2. ASSUME NEW r \in Reqs, Authorize(r) PROVE Promise!Next
  BY <1>0, <1>2, AuthorizeApproves DEF Promise!Next
<1>3. ASSUME NEW r \in Reqs,
             SignAnswered(r) \/ SignGarbled(r) \/ SignLost(r) \/ SignFailed(r)
      PROVE  Promise!Next
  BY <1>0, <1>3, AttemptMakes DEF Promise!Next
<1>4. ASSUME NEW r \in Reqs, Deliver(r) PROVE Promise!Next
  BY <1>4, DeliverHands DEF Promise!Next
<1>5. ASSUME NEW r \in Reqs,
             \/ ScepReplayed(r) \/ SignError(r) \/ Undecodable(r) \/ Withhold(r)
             \/ ReplyFails(r) \/ ResponseLost(r)
      PROVE  Promise!Next
  BY <1>0, <1>5, FailureEnds DEF Promise!Next
<1>6. ASSUME NEW r \in Reqs, ScepFresh(r) \/ Reply(r)
      PROVE  UNCHANGED <<StateMap, PermitMap, issued, delivered>>
  BY <1>0, <1>6, InnerStutters
<1>7. ASSUME \/ \E i \in CodeIds : AddCode(i)
             \/ Tick \/ UNCHANGED vars
      PROVE  UNCHANGED <<StateMap, PermitMap, issued, delivered>>
  <2>1. UNCHANGED <<pc, decision, issued, delivered>>
    BY <1>7 DEF AddCode, Tick, vars, local, history
  <2> QED BY <2>1, SameStates, SamePermits
<1>8. CASE Restart
  BY <1>0, <1>8, RestartCrashes DEF Promise!Next
<1> QED
  BY <1>1, <1>2, <1>3, <1>4, <1>5, <1>6, <1>7, <1>8 DEF Next, RequestStep

\* The broker starts where Issuance starts.
LEMMA InitImplements == Init => RInv /\ Promise!Init
<1> SUFFICES ASSUME Init PROVE RInv /\ Promise!Init
  OBVIOUS
<1>1. HoldInv
  BY DEF Init, HoldInv, HoldsOwn
<1>2. \A r \in Reqs : Progress(r) = "new" /\ decision[r].cons = NoConstraints
  BY DEF Init, Progress, Undecided
<1> QED BY <1>1, <1>2, InitTyping, InitKnowing DEF RInv, Promise!Init, Init

\* The handlers, the pipeline, the retries at OpenBao and the crashes together
\* implement Issuance, for any number of requests and whatever the roles allow.
THEOREM BrokerKeepsPromise == Spec => KeepsPromise
<1>1. RInv /\ [Next]_vars => RInv'
  BY Typing, Knowing, Holding DEF RInv
<1> QED
  BY <1>1, InitImplements, StepImplements, PTL DEF Spec, KeepsPromise, Promise!Spec

-----------------------------------------------------------------------------
(* One certificate at most, within the decision                              *)

\* Whoever was given a certificate is done, and it is the one its handler held.
Given(d) ==
    /\ pc[d.by] = "closed" /\ d.cert = bundle[d.by]
    /\ VerifyIssued(d.cert, decision[d.by].cons)

GivenInv == \A d \in delivered : Given(d)

\* Only its own request's step could disturb it, and a closed request has none.
LEMMA Giving == RInv /\ GivenInv /\ [Next]_vars => GivenInv'
<1> SUFFICES ASSUME RInv, GivenInv, [Next]_vars PROVE GivenInv'
  OBVIOUS
<1>0. TInv
  BY DEF RInv
<1>1. \A d \in delivered : d.by \in Reqs /\ Given(d)
  BY <1>0 DEF GivenInv, TInv, TypeOK
<1>2. ASSUME NEW d \in delivered, UNCHANGED <<pc[d.by], bundle[d.by], decision[d.by]>>
      PROVE  Given(d)'
  BY <1>1, <1>2 DEF Given
<1>3. ASSUME NEW r \in Reqs, Deliver(r) PROVE GivenInv'
  <2>1. /\ delivered' = delivered \cup {[cert |-> bundle[r], by |-> r]}
        /\ UNCHANGED <<bundle, decision>> /\ pc[r] = "respond"
        /\ pc' = [pc EXCEPT ![r] = "closed"]
    BY <1>3 DEF Deliver
  <2>2. pc'[r] = "closed" /\ \A q \in Reqs : q # r => pc'[q] = pc[q]
    BY <1>0, <2>1 DEF TInv, TypeOK
  <2>3. VerifyIssued(bundle[r], decision[r].cons)
    BY <2>1 DEF RInv, KnowInv, Knows
  <2>4. Given([cert |-> bundle[r], by |-> r])'
    BY <2>1, <2>2, <2>3 DEF Given
  <2>5. ASSUME NEW d \in delivered PROVE Given(d)'
    <3>1. d.by # r /\ d.by \in Reqs
      BY <1>1, <2>1, <2>5 DEF Given
    <3> QED BY <1>2, <2>1, <2>2, <3>1
  <2> QED BY <2>1, <2>4, <2>5 DEF GivenInv
<1>4. ASSUME NEW r \in Reqs, pc[r] # "closed", UNCHANGED delivered,
             \A q \in Reqs : q # r => UNCHANGED <<pc[q], bundle[q], decision[q]>>
      PROVE  GivenInv'
  <2>1. ASSUME NEW d \in delivered PROVE Given(d)'
    <3>1. d.by # r /\ d.by \in Reqs
      BY <1>1, <1>4, <2>1 DEF Given
    <3> QED BY <1>2, <1>4, <3>1
  <2> QED BY <1>4, <2>1 DEF GivenInv
<1>5. ASSUME NEW r \in Reqs, EstReceive(r) \/ ScepReceive(r) PROVE GivenInv'
  <2>1. pc[r] = "idle" /\ UNCHANGED <<bundle, decision, delivered>>
    BY <1>5 DEF EstReceive, ScepReceive, history
  <2>2. \A q \in Reqs : q # r => pc'[q] = pc[q]
    BY <1>0, <1>5 DEF EstReceive, ScepReceive, TInv, TypeOK
  <2> QED BY <1>4, <2>1, <2>2
<1>6. ASSUME NEW r \in Reqs,
             \/ Authorize(r) \/ SignAnswered(r) \/ SignGarbled(r) \/ SignLost(r)
             \/ SignFailed(r)
      PROVE  GivenInv'
  <2>1. pc[r] \in {"authorize", "sign"} /\ UNCHANGED delivered
    BY <1>6 DEF Authorize, SignAnswered, SignGarbled, SignLost, SignFailed, MayTry, history
  <2>2. \A q \in Reqs : q # r => UNCHANGED <<pc[q], bundle[q], decision[q]>>
    BY <1>0, <1>6 DEF Authorize, SignAnswered, SignGarbled, SignLost, SignFailed, Close,
       TInv, TypeOK
  <2> QED BY <1>4, <2>1, <2>2
<1>7. ASSUME NEW r \in Reqs,
             \/ ScepReplayed(r) \/ ScepFresh(r) \/ SignError(r) \/ Undecodable(r)
             \/ Withhold(r) \/ ReplyFails(r) \/ Reply(r) \/ ResponseLost(r)
      PROVE  GivenInv'
  <2>1. pc[r] # "closed" /\ UNCHANGED <<bundle, decision, delivered>>
    BY <1>7 DEF ScepReplayed, ScepFresh, SignError, Undecodable, Withhold, ReplyFails,
       Reply, ResponseLost, history
  <2>2. \A q \in Reqs : q # r => pc'[q] = pc[q]
    BY <1>0, <1>7 DEF ScepReplayed, ScepFresh, SignError, Undecodable, Withhold,
       ReplyFails, Reply, ResponseLost, Close, TInv, TypeOK
  <2> QED BY <1>4, <2>1, <2>2
<1>8. CASE Restart
  <2>1. /\ UNCHANGED <<bundle, decision, delivered>>
        /\ \A q \in Reqs : pc[q] = "closed" => pc'[q] = pc[q]
    BY <1>8 DEF Restart
  <2>2. ASSUME NEW d \in delivered PROVE Given(d)'
    BY <1>1, <1>2, <2>1, <2>2 DEF Given
  <2> QED BY <2>1, <2>2 DEF GivenInv
<1>9. ASSUME \/ \E i \in CodeIds : AddCode(i)
             \/ Tick \/ UNCHANGED vars
      PROVE  GivenInv'
  <2>1. UNCHANGED <<pc, bundle, decision, delivered>>
    BY <1>9 DEF AddCode, Tick, vars, local, history
  <2> QED BY <2>1 DEF GivenInv, Given
<1> QED
  BY <1>3, <1>5, <1>6, <1>7, <1>8, <1>9 DEF Next, RequestStep

\* However often OpenBao was tried, no request is handed two certificates, and
\* the one it is handed keeps to the decision it was approved under.
THEOREM OneCertificateEach == Spec => []HandedOnce
<1>1. RInv /\ [Next]_vars => RInv'
  BY Typing, Knowing, Holding DEF RInv
<1>2. Init => GivenInv
  BY DEF Init, GivenInv
<1>3. RInv /\ GivenInv => HandedOnce
  <2> SUFFICES ASSUME RInv, GivenInv,
                      NEW h \in delivered
               PROVE  /\ VerifyIssued(h.cert, PermitMap[h.by])
                      /\ \A g \in delivered : g.by = h.by => g = h
    BY DEF HandedOnce, Promise!HandedOnceWithinPermit, PermitMap
  <2>1. \A d \in delivered : d \in [cert : Cert, by : Reqs] /\ Given(d)
    BY DEF RInv, TInv, TypeOK, GivenInv
  <2>2. VerifyIssued(h.cert, PermitMap[h.by])
    BY <2>1 DEF Given, PermitMap
  <2>3. ASSUME NEW g \in delivered, g.by = h.by PROVE g = h
    <3>1. g.cert = h.cert
      BY <2>1, <2>3 DEF Given
    <3>2. g = [cert |-> g.cert, by |-> g.by] /\ h = [cert |-> h.cert, by |-> h.by]
      BY <2>1
    <3> QED BY <2>3, <3>1, <3>2
  <2> QED BY <2>2, <2>3
<1> QED BY <1>1, <1>2, <1>3, InitImplements, Giving, PTL DEF Spec
=============================================================================
