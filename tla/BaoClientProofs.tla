--------------------------- MODULE BaoClientProofs ---------------------------
(***************************************************************************)
(* Proofs about BaoClient for any number of callers, any lease times and any  *)
(* deadline. The invariant dates what each caller holds by the instant its     *)
(* call began: calls are short (Latency), so an answer applied late, or to a    *)
(* token another caller put there, is late by a bounded amount.               *)
(***************************************************************************)
EXTENDS BaoClient, TLAPS

\* Token t was given out, for a first lease, at most one deadline before b.
Lasts(t, b) == bao[t].expires + Latency >= b + FirstLease

\* Token t runs as long as a first lease would, or to its maximum age.
Runs(t, b) == Lasts(t, b) \/ bao[t].expires = bao[t].born + MaxTTL

\* No lease runs for more than TTL from now, or past the token's maximum age; a
\* revoked token is not renewed.
TokenOK(t) ==
    /\ bao[t].born <= clock
    /\ bao[t].expires <= clock + TTL
    /\ bao[t].expires <= bao[t].born + MaxTTL
    /\ bao[t].revoked # NotRevoked => bao[t].expires <= bao[t].revoked + TTL

\* What caller record k says of the tokens, as far as its call has come.
CallOK(k) ==
    /\ k.pc # "idle" => k.began <= clock /\ clock <= k.began + Latency
    /\ (k.pc = "decide" /\ k.tok # NoToken) =>
          /\ token # NoToken
          /\ Sec = 1 => k.expiry <= bao[k.tok].expires + 2 * Latency
    /\ k.pc = "renewing" => token # NoToken
    /\ k.pc = "renew" =>
          /\ token # NoToken /\ k.tok # NoToken
          /\ k.tok = token \/ Lasts(token, k.began)
    /\ k.pc = "renewed" =>
          /\ token # NoToken /\ Runs(token, k.began)
          /\ Sec = 1 => /\ k.lease \in 1..FirstLease
                        /\ bao[token].expires + Latency >= k.began + k.lease
    /\ k.pc = "loggedIn" =>
          /\ k.tok # NoToken /\ bao[k.tok].expires >= k.began + FirstLease
          /\ Sec = 1 => k.lease = FirstLease
    /\ k.pc = "return" =>
          /\ token # NoToken /\ k.via # "held"
          /\ k.via = "renewed" => Runs(token, k.began)
          /\ k.via = "login" => Lasts(token, k.began)
    /\ k.pc = "use" =>
          /\ k.tok # NoToken
          /\ k.via = "renewed" => Runs(k.tok, k.began)
          /\ k.via = "login" => Lasts(k.tok, k.began)
          /\ (k.via = "held" /\ Sec = 1 /\ RenewThreshold >= 3 * Latency) =>
                bao[k.tok].expires > k.began + Latency

\* The invariant beyond types: every token, every caller, and the recorded expiry.
BInv ==
    /\ \A t \in DOMAIN bao : TokenOK(t)
    /\ \A c \in Callers : CallOK(call[c])
    /\ ExpiryTracksLease

USE TimesAssumption, BoundsAssumption

-----------------------------------------------------------------------------
(* Arithmetic                                                              *)

\* A first lease is positive and within both of OpenBao's limits.
LEMMA FirstLeaseType == FirstLease \in Nat \ {0} /\ FirstLease <= TTL /\ FirstLease <= MaxTTL
  BY DEF FirstLease

\* Whole seconds are a number, and with ticks of a second nothing is cut off.
LEMMA WholeSeconds ==
    ASSUME NEW n \in Nat
    PROVE  n \div Sec \in Nat /\ (Sec = 1 => n \div Sec = n)
  OBVIOUS

\* What leaseExpiry computes is an instant.
LEMMA ExpiryType == ASSUME clock \in Nat, NEW s \in Nat PROVE LeaseExpiry(s) \in Nat
<1>1. s * Sec \in Nat
  OBVIOUS
<1> QED  BY <1>1 DEF LeaseExpiry

-----------------------------------------------------------------------------
(* OpenBao's tokens                                                        *)

\* What OpenBao keeps of a token.
BaoTokens == [born : Nat, expires : Nat, revoked : Nat \cup {NotRevoked}]

\* OpenBao's side of the invariant.
BaoInv == clock \in Nat /\ bao \in Seq(BaoTokens) /\ \A t \in DOMAIN bao : TokenOK(t)

\* The types of one token's fields.
LEMMA BaoTyped ==
    ASSUME BaoInv, NEW t \in DOMAIN bao
    PROVE  /\ bao[t].born \in Nat /\ bao[t].expires \in Nat
           /\ bao[t].revoked \in Nat \cup {NotRevoked}
<1>1. bao[t] \in BaoTokens
  BY DEF BaoInv
<1> QED  BY <1>1 DEF BaoTokens

\* No token is forgotten, and none runs out sooner than it would have.
Grows ==
    \A t \in DOMAIN bao :
        /\ t \in DOMAIN bao'
        /\ bao'[t].expires >= bao[t].expires
        /\ bao[t].expires = bao[t].born + MaxTTL => bao'[t].expires = bao'[t].born + MaxTTL

\* Grows for one token, with the types the arithmetic needs.
LEMMA TokenGrows ==
    ASSUME BaoInv, BaoInv', Grows, NEW t \in DOMAIN bao
    PROVE  /\ t \in DOMAIN bao'
           /\ bao[t].expires \in Nat /\ bao'[t].expires \in Nat
           /\ bao'[t].expires >= bao[t].expires
           /\ bao[t].expires = bao[t].born + MaxTTL => bao'[t].expires = bao'[t].born + MaxTTL
<1>1. t \in DOMAIN bao'
  BY DEF Grows
<1>2. bao'[t] \in BaoTokens
  BY <1>1 DEF BaoInv
<1> QED  BY <1>1, <1>2, BaoTyped DEF Grows, BaoTokens

\* A step that leaves OpenBao alone keeps its tokens in order.
LEMMA SameTokens ==
    ASSUME BaoInv, bao' = bao, clock' = clock
    PROVE  BaoInv' /\ Grows
<1>1. \A t \in DOMAIN bao : bao[t].expires \in Nat
  BY BaoTyped
<1> QED  BY <1>1 DEF BaoInv, TokenOK, Grows

\* A renewal runs at least as long as what it replaces.
LEMMA RenewalLonger ==
    ASSUME BaoInv, NEW t \in DOMAIN bao, Valid(t)
    PROVE  /\ RenewedUntil(t) \in Nat /\ RenewedUntil(t) >= bao[t].expires
           /\ RenewedUntil(t) > clock
           /\ RenewedUntil(t) <= clock + TTL /\ RenewedUntil(t) <= bao[t].born + MaxTTL
<1>1. bao[t] \in BaoTokens /\ TokenOK(t)
  BY DEF BaoInv
<1>2. bao[t].born \in Nat /\ bao[t].expires \in Nat /\ clock \in Nat
  BY <1>1 DEF BaoTokens, BaoInv
<1> QED  BY <1>1, <1>2 DEF RenewedUntil, TokenOK, Valid, InLease

\* So does a renewal.
LEMMA RenewedOK ==
    ASSUME BaoInv, NEW t \in DOMAIN bao, Valid(t), bao' = Renewed(t), clock' = clock
    PROVE  BaoInv' /\ Grows
<1>1. DOMAIN bao' = DOMAIN bao /\ \A u \in DOMAIN bao : u # t => bao'[u] = bao[u]
  BY DEF Renewed, BaoInv
<1>2. bao[t] \in BaoTokens /\ bao'[t] = [bao[t] EXCEPT !.expires = RenewedUntil(t)]
  BY DEF Renewed, BaoInv
<1>3. /\ bao'[t] \in BaoTokens
      /\ bao'[t].expires = RenewedUntil(t) /\ bao'[t].born = bao[t].born
      /\ bao'[t].revoked = NotRevoked
  BY <1>2, RenewalLonger DEF BaoTokens, Valid
<1>4. bao' \in Seq(BaoTokens)
  BY <1>3 DEF Renewed, BaoInv
<1>5. bao[t].born \in Nat /\ bao[t].expires \in Nat /\ clock \in Nat /\ TokenOK(t)
  BY <1>2 DEF BaoTokens, BaoInv
<1>6. TokenOK(t)'
  BY <1>3, <1>5, RenewalLonger DEF TokenOK, NotRevoked
<1>7. \A u \in DOMAIN bao : u # t => TokenOK(u)'
  BY <1>1 DEF TokenOK, BaoInv
<1>8. Grows
  <2> SUFFICES ASSUME NEW u \in DOMAIN bao
               PROVE  /\ u \in DOMAIN bao' /\ bao'[u].expires >= bao[u].expires
                      /\ bao[u].expires = bao[u].born + MaxTTL
                             => bao'[u].expires = bao'[u].born + MaxTTL
    BY DEF Grows
  <2>1. CASE u = t
    <3>1. bao[t].expires <= RenewedUntil(t) /\ RenewedUntil(t) <= bao[t].born + MaxTTL
          /\ RenewedUntil(t) \in Nat
      BY RenewalLonger
    <3> QED  BY <2>1, <3>1, <1>1, <1>3, <1>5
  <2>2. CASE u # t
    <3>1. bao[u] \in BaoTokens
      BY DEF BaoInv
    <3> QED  BY <2>2, <3>1, <1>1 DEF BaoTokens
  <2> QED  BY <2>1, <2>2
<1> QED  BY <1>1, <1>4, <1>5, <1>6, <1>7, <1>8 DEF BaoInv

\* So does a login, whose token runs a first lease from now.
LEMMA NewTokenOK ==
    ASSUME BaoInv, bao' = Append(bao, NewToken), clock' = clock,
           NEW n, n = Len(bao) + 1
    PROVE  /\ BaoInv' /\ Grows
           /\ n \in DOMAIN bao' /\ n # NoToken
           /\ bao'[n].expires = clock + FirstLease
<1>1. NewToken \in BaoTokens
  BY FirstLeaseType DEF NewToken, BaoTokens, BaoInv
<1>2. /\ DOMAIN bao' = DOMAIN bao \cup {n} /\ n \in Nat \ {0}
      /\ \A u \in DOMAIN bao : bao'[u] = bao[u]
      /\ bao'[n] = NewToken
      /\ bao' \in Seq(BaoTokens)
  BY <1>1 DEF BaoInv
<1>3. TokenOK(n)'
  <2>1. clock \in Nat
    BY DEF BaoInv
  <2> QED  BY <1>2, <2>1, FirstLeaseType DEF TokenOK, NewToken
<1>4. \A u \in DOMAIN bao : TokenOK(u)'
  BY <1>2 DEF TokenOK, BaoInv
<1>5. BaoInv'
  BY <1>2, <1>3, <1>4 DEF BaoInv
<1>6. Grows
  <2>1. \A u \in DOMAIN bao : bao[u].expires \in Nat
    BY BaoTyped
  <2> QED  BY <1>2, <2>1 DEF Grows
<1> QED  BY <1>2, <1>5, <1>6 DEF NewToken, NoToken

-----------------------------------------------------------------------------
(* The callers                                                             *)

\* The locals of a caller when T is the set of tokens.
Locals(T) == [pc : PCs, began : Nat, tok : T, expiry : Nat, lease : Nat,
              renewable : BOOLEAN, tries : 0..(MaxRetries + 1),
              via : {"none", "held", "renewed", "login"}]
CallType == Locals(OptToken)

\* The inductive invariant.
Inv == TypeOK /\ BInv

\* The parts of the invariant, and the types of a caller's locals.
LEMMA Parts ==
    ASSUME Inv
    PROVE  /\ BaoInv /\ clock \in Nat
           /\ token \in OptToken /\ tokenExpiry \in Nat /\ renewable \in BOOLEAN
           /\ call \in [Callers -> CallType]
           /\ \A c \in Callers : call[c] \in CallType /\ CallOK(call[c])
           /\ ExpiryTracksLease
  BY DEF Inv, BInv, TypeOK, BaoInv, BaoTokens, CallType, Locals

\* The types of the fields of a caller's locals.
LEMMA CallTyped ==
    ASSUME NEW k \in CallType
    PROVE  /\ k.pc \in PCs /\ k.began \in Nat /\ k.tok \in OptToken /\ k.expiry \in Nat
           /\ k.lease \in Nat /\ k.renewable \in BOOLEAN /\ k.tries \in 0..(MaxRetries + 1)
           /\ k.via \in {"none", "held", "renewed", "login"}
  BY DEF CallType, Locals

\* What a caller knows of tokens it goes on knowing, while the clock and the
\* client's token stay.
LEMMA CallKept ==
    ASSUME Inv, BaoInv', Grows, clock' = clock, token' = token,
           NEW q \in Callers, call'[q] = call[q]
    PROVE  CallOK(call[q])'
<1> DEFINE k == call[q]
<1>1. /\ k.began \in Nat /\ k.tok \in OptToken /\ k.expiry \in Nat /\ k.lease \in Nat
      /\ token \in OptToken /\ CallOK(k) /\ clock \in Nat /\ FirstLease \in Nat
  BY Parts, CallTyped, FirstLeaseType
<1>2. \A t \in OptToken : t # NoToken =>
         /\ t \in DOMAIN bao
         /\ bao[t].expires \in Nat /\ bao'[t].expires \in Nat
         /\ bao'[t].expires >= bao[t].expires
         /\ bao[t].expires = bao[t].born + MaxTTL => bao'[t].expires = bao'[t].born + MaxTTL
  <2> SUFFICES ASSUME NEW t \in OptToken, t # NoToken
               PROVE  /\ t \in DOMAIN bao
                      /\ bao[t].expires \in Nat /\ bao'[t].expires \in Nat
                      /\ bao'[t].expires >= bao[t].expires
                      /\ bao[t].expires = bao[t].born + MaxTTL
                             => bao'[t].expires = bao'[t].born + MaxTTL
    OBVIOUS
  <2>1. t \in DOMAIN bao
    BY DEF OptToken
  <2> QED  BY <2>1, Parts, TokenGrows
<1>3. ASSUME NEW t \in OptToken, t # NoToken, NEW b \in Nat
      PROVE  /\ Lasts(t, b) => Lasts(t, b)'
             /\ Runs(t, b) => Runs(t, b)'
  BY <1>1, <1>2, <1>3 DEF Lasts, Runs
<1>4. CallOK(k)'
  BY <1>1, <1>2, <1>3 DEF CallOK, Lasts, Runs
<1> QED  BY <1>4

\* So a step of one caller that leaves the clock and the token alone need only
\* keep the caller's own locals in order, and the recorded expiry.
LEMMA OneMoves ==
    ASSUME Inv, BaoInv', Grows, clock' = clock, token' = token,
           tokenExpiry' \in Nat, renewable' \in BOOLEAN, ExpiryTracksLease',
           NEW c \in Callers, NEW k \in CallType', call' = [call EXCEPT ![c] = k],
           CallOK(call[c])'
    PROVE  Inv'
<1>1. BaoInv /\ token \in OptToken /\ call \in [Callers -> CallType]
  BY Parts
<1>2. OptToken \subseteq OptToken'
  BY DEF OptToken, Grows
<1>3. CallType \subseteq CallType'
  BY <1>2 DEF CallType, Locals
<1>4. call' \in [Callers -> CallType']
  BY <1>1, <1>3
<1>5. TypeOK'
  BY <1>1, <1>2, <1>4 DEF TypeOK, BaoInv, BaoTokens, CallType, Locals
<1>6. \A q \in Callers : CallOK(call[q])'
  <2> TAKE q \in Callers
  <2>1. CASE q = c
    BY <2>1
  <2>2. CASE q # c
    <3>1. call'[q] = call[q]
      BY <1>1, <2>2
    <3> QED  BY <3>1, CallKept
  <2> QED  BY <2>1, <2>2
<1> QED  BY <1>5, <1>6 DEF Inv, BInv, BaoInv

\* The same for a step that leaves the client's three fields alone.
LEMMA OneCalls ==
    ASSUME Inv, BaoInv', Grows, clock' = clock, UNCHANGED client,
           NEW c \in Callers, NEW k \in CallType', call' = [call EXCEPT ![c] = k],
           CallOK(call[c])'
    PROVE  Inv'
<1>1. /\ BaoInv /\ token \in OptToken /\ tokenExpiry \in Nat /\ renewable \in BOOLEAN
      /\ ExpiryTracksLease
  BY Parts
<1>2. ExpiryTracksLease'
  <2> SUFFICES ASSUME Sec = 1, token' # NoToken
               PROVE  tokenExpiry' <= bao'[token'].expires + 2 * Latency
    BY DEF ExpiryTracksLease
  <2>1. token \in DOMAIN bao /\ token' = token /\ tokenExpiry' = tokenExpiry
    BY <1>1 DEF client, OptToken
  <2>2. tokenExpiry <= bao[token].expires + 2 * Latency
    BY <2>1, <1>1 DEF ExpiryTracksLease
  <2>3. /\ bao[token].expires \in Nat /\ bao'[token].expires \in Nat
        /\ bao'[token].expires >= bao[token].expires
    BY <2>1, <1>1, TokenGrows
  <2> QED  BY <1>1, <2>1, <2>2, <2>3
<1> QED  BY <1>1, <1>2, OneMoves DEF client

-----------------------------------------------------------------------------
(* The steps                                                               *)

\* An idle caller's locals are typed.
LEMMA IdleOK ==
    /\ Idle \in CallType
    /\ Idle.pc = "idle"
  BY DEF Idle, CallType, Locals, PCs, OptToken, NoToken

\* So are those of a caller that has moved on with nothing in hand.
LEMMA AtTyped ==
    ASSUME NEW T, NoToken \in T, NEW c, call[c].began \in Nat, NEW label \in PCs
    PROVE  At(c, label) \in Locals(T)
<1>1. Idle \in Locals(T)
  BY DEF Idle, Locals, PCs
<1> QED  BY <1>1 DEF At, Locals

\* The locals of a caller with an answer.
LEMMA AnswerTyped ==
    ASSUME NEW T, NEW k \in Locals(T), NEW t \in T, NEW l \in Nat, NEW a \in BOOLEAN
    PROVE  /\ [k EXCEPT !.lease = l, !.renewable = a] \in Locals(T)
           /\ [k EXCEPT !.tok = t, !.lease = l, !.renewable = a] \in Locals(T)
  BY DEF Locals

\* ensureToken looks at the client's token, then uses it or sets out to replace it.
LEMMA LookOK ==
    ASSUME Inv, NEW c \in Callers,
           \/ EnsureToken(c) \/ UseHeld(c) \/ BeginRenew(c) \/ BeginLogin(c)
           \/ RenewSelf(c)
    PROVE  Inv'
<1>1. /\ BaoInv /\ call \in [Callers -> CallType] /\ call[c] \in CallType
      /\ CallOK(call[c]) /\ ExpiryTracksLease /\ clock \in Nat
      /\ token \in OptToken /\ tokenExpiry \in Nat /\ renewable \in BOOLEAN
  BY Parts
<1>2. UNCHANGED <<clock, client, bao>>
  BY DEF EnsureToken, UseHeld, BeginRenew, BeginLogin, RenewSelf
<1>3. BaoInv' /\ Grows /\ OptToken' = OptToken /\ CallType' = CallType
  BY <1>1, <1>2, SameTokens DEF OptToken, CallType, Locals
<1>4. /\ call[c].began \in Nat /\ call[c].tok \in OptToken /\ call[c].expiry \in Nat
  BY <1>1, CallTyped
<1>5. CASE EnsureToken(c)
  <2> DEFINE k == [Idle EXCEPT !.pc = "decide", !.began = clock, !.tok = token,
                               !.expiry = tokenExpiry, !.renewable = renewable]
  <2>1. k \in CallType /\ call' = [call EXCEPT ![c] = k]
    BY <1>1, <1>5, IdleOK DEF EnsureToken, CallType, Locals, PCs, Idle
  <2>2. /\ call'[c].pc = "decide" /\ call'[c].began = clock
        /\ call'[c].tok = token /\ call'[c].expiry = tokenExpiry
    BY <2>1, <1>1 DEF Idle
  <2> HIDE DEF k
  <2>3. CallOK(call[c])'
    BY <1>1, <1>2, <2>2 DEF CallOK, ExpiryTracksLease, client
  <2> QED  BY <1>2, <1>3, <2>1, <2>3, OneCalls
<1>6. CASE UseHeld(c)
  <2> DEFINE k == [At(c, "use") EXCEPT !.tok = call[c].tok, !.via = "held"]
  <2>1. k \in CallType /\ call' = [call EXCEPT ![c] = k]
    BY <1>1, <1>4, <1>6, IdleOK DEF UseHeld, CallType, Locals, PCs, Idle, At
  <2>2. /\ call'[c].pc = "use" /\ call'[c].began = call[c].began
        /\ call'[c].tok = call[c].tok /\ call'[c].via = "held"
    BY <2>1, <1>1 DEF Idle, At
  <2> HIDE DEF k
  <2>3. call[c].pc = "decide" /\ call[c].tok # NoToken /\ call[c].expiry - clock > RenewThreshold
    BY <1>6 DEF UseHeld, ComfortablyValid
  <2>4. call[c].tok \in DOMAIN bao /\ bao[call[c].tok].expires \in Nat
    BY <1>1, <1>4, <2>3, BaoTyped DEF OptToken
  <2>5. call[c].began <= clock /\ clock <= call[c].began + Latency
        /\ (Sec = 1 => call[c].expiry <= bao[call[c].tok].expires + 2 * Latency)
    BY <1>1, <2>3 DEF CallOK
  <2>6. (Sec = 1 /\ RenewThreshold >= 3 * Latency) =>
            bao[call[c].tok].expires > call[c].began + Latency
    BY <1>1, <1>4, <2>3, <2>4, <2>5
  <2>7. CallOK(call[c])'
    BY <1>2, <2>2, <2>3, <2>5, <2>6 DEF CallOK
  <2> QED  BY <1>2, <1>3, <2>1, <2>7, OneCalls
<1>7. CASE BeginRenew(c)
  <2>1. At(c, "renewing") \in CallType /\ call' = [call EXCEPT ![c] = At(c, "renewing")]
    BY <1>1, <1>4, <1>7, IdleOK DEF BeginRenew, CallType, Locals, PCs, Idle, At
  <2>2. call'[c].pc = "renewing" /\ call'[c].began = call[c].began
    BY <2>1, <1>1 DEF Idle, At
  <2>3. token # NoToken /\ call[c].began <= clock /\ clock <= call[c].began + Latency
    BY <1>1, <1>7 DEF BeginRenew, CanRenew, CallOK
  <2>4. CallOK(call[c])'
    BY <1>2, <2>2, <2>3 DEF CallOK, client
  <2> QED  BY <1>2, <1>3, <2>1, <2>4, OneCalls
<1>8. CASE BeginLogin(c)
  <2>1. At(c, "login") \in CallType /\ call' = [call EXCEPT ![c] = At(c, "login")]
    BY <1>1, <1>4, <1>8, IdleOK DEF BeginLogin, CallType, Locals, PCs, Idle, At
  <2>2. call'[c].pc = "login" /\ call'[c].began = call[c].began
    BY <2>1, <1>1 DEF Idle, At
  <2>3. call[c].began <= clock /\ clock <= call[c].began + Latency
    BY <1>1, <1>8 DEF BeginLogin, CallOK
  <2>4. CallOK(call[c])'
    BY <1>2, <2>2, <2>3 DEF CallOK
  <2> QED  BY <1>2, <1>3, <2>1, <2>4, OneCalls
<1>9. CASE RenewSelf(c)
  <2> DEFINE k == [At(c, "renew") EXCEPT !.tok = token]
  <2>1. k \in CallType /\ call' = [call EXCEPT ![c] = k]
    BY <1>1, <1>4, <1>9, IdleOK DEF RenewSelf, CallType, Locals, PCs, Idle, At
  <2>2. call'[c].pc = "renew" /\ call'[c].began = call[c].began /\ call'[c].tok = token
    BY <2>1, <1>1 DEF Idle, At
  <2> HIDE DEF k
  <2>3. token # NoToken /\ call[c].began <= clock /\ clock <= call[c].began + Latency
    BY <1>1, <1>9 DEF RenewSelf, CallOK
  <2>4. CallOK(call[c])'
    BY <1>2, <2>2, <2>3 DEF CallOK, client
  <2> QED  BY <1>2, <1>3, <2>1, <2>4, OneCalls
<1> QED  BY <1>5, <1>6, <1>7, <1>8, <1>9

\* A renewal is answered, lost or refused.
LEMMA RenewOK ==
    ASSUME Inv, NEW c \in Callers, RenewAnswered(c) \/ RenewLost(c) \/ RenewFails(c)
    PROVE  Inv'
<1>1. /\ BaoInv /\ call \in [Callers -> CallType] /\ call[c] \in CallType
      /\ CallOK(call[c]) /\ clock \in Nat /\ token \in OptToken
  BY Parts
<1>2. UNCHANGED <<clock, client>> /\ call[c].pc = "renew"
  BY DEF RenewAnswered, RenewLost, RenewFails
<1>3. /\ call[c].began \in Nat /\ call[c].tok \in OptToken
      /\ call[c].tries \in 0..(MaxRetries + 1)
  BY <1>1, CallTyped
<1>4. /\ call[c].began <= clock /\ clock <= call[c].began + Latency
      /\ token # NoToken /\ call[c].tok # NoToken
      /\ call[c].tok = token \/ Lasts(token, call[c].began)
  BY <1>1, <1>2 DEF CallOK
<1> DEFINE t == call[c].tok
<1>5. t \in DOMAIN bao /\ token \in DOMAIN bao
  BY <1>1, <1>3, <1>4 DEF OptToken
<1>6. CASE RenewAnswered(c)
  <2>1. Valid(t) /\ bao' = Renewed(t)
    BY <1>6 DEF RenewAnswered
  <2>2. BaoInv' /\ Grows
    BY <1>1, <1>2, <1>5, <2>1, RenewedOK
  <2>3. /\ RenewedUntil(t) \in Nat /\ RenewedUntil(t) > clock
        /\ RenewedUntil(t) <= clock + TTL /\ RenewedUntil(t) <= bao[t].born + MaxTTL
        /\ RenewedUntil(t) = clock + TTL \/ RenewedUntil(t) = bao[t].born + MaxTTL
    BY <1>1, <1>5, <2>1, RenewalLonger DEF RenewedUntil
  <2> DEFINE lease == Reported(RenewedUntil(t))
  <2>4. lease \in Nat /\ (Sec = 1 => lease = RenewedUntil(t) - clock)
    BY <1>1, <2>3, WholeSeconds DEF Reported
  <2> HIDE DEF lease
  <2>5. PICK again \in BOOLEAN :
           call' = [call EXCEPT ![c] = [At(c, "renewed") EXCEPT !.lease = lease,
                                                               !.renewable = again]]
    BY <1>6 DEF RenewAnswered, lease
  <2> DEFINE k == [At(c, "renewed") EXCEPT !.lease = lease, !.renewable = again]
  <2>6. At(c, "renewed") \in Locals(OptToken')
    BY <1>3, AtTyped DEF PCs, OptToken
  <2>7. k \in CallType'
    BY <2>4, <2>5, <2>6, AnswerTyped, Zenon DEF CallType, Locals
  <2>8. call'[c].pc = "renewed" /\ call'[c].began = call[c].began /\ call'[c].lease = lease
    BY <1>1, <2>5 DEF Idle, At
  <2> HIDE DEF k
  <2>9. /\ bao'[token].expires \in Nat /\ bao[token].expires \in Nat
        /\ bao'[token].expires >= bao[token].expires
    BY <1>1, <1>5, <2>2, TokenGrows
  <2>10. /\ bao'[t].expires = RenewedUntil(t) /\ bao'[t].born = bao[t].born
         /\ bao[t].born \in Nat /\ TokenOK(t)
    <3>1. bao[t] \in BaoTokens /\ TokenOK(t) /\ bao[t].born \in Nat
      BY <1>1, <1>5, BaoTyped DEF BaoInv
    <3>2. bao'[t] = [bao[t] EXCEPT !.expires = RenewedUntil(t)]
      BY <1>1, <1>5, <2>1 DEF Renewed, BaoInv
    <3> QED  BY <3>1, <3>2 DEF BaoTokens
  <2>11. Sec = 1 => lease \in 1..FirstLease
    BY <1>1, <2>3, <2>4, <2>10 DEF TokenOK, FirstLease
  <2>12. Runs(token, call[c].began)'
         /\ (Sec = 1 => bao'[token].expires + Latency >= call[c].began + lease)
    <3>1. CASE t = token
      <4>1. Sec = 1 => bao'[token].expires + Latency >= call[c].began + lease
        BY <1>1, <1>3, <1>4, <2>3, <2>4, <2>10, <3>1
      <4>2. \/ bao'[token].expires = bao'[token].born + MaxTTL
            \/ bao'[token].expires + Latency >= call[c].began + FirstLease
        BY <1>1, <1>3, <1>4, <2>3, <2>10, <3>1, FirstLeaseType
      <4> QED  BY <4>1, <4>2, <1>2, <2>8 DEF Runs, Lasts, client
    <3>2. CASE t # token
      <4>1. bao[token].expires + Latency >= call[c].began + FirstLease
        BY <1>4, <3>2 DEF Lasts
      <4>2. bao'[token].expires + Latency >= call[c].began + FirstLease
        BY <1>3, <2>9, <4>1, FirstLeaseType
      <4>3. Sec = 1 => bao'[token].expires + Latency >= call[c].began + lease
        BY <1>3, <2>4, <2>9, <2>11, <4>2, FirstLeaseType
      <4> QED  BY <4>2, <4>3, <1>2, <2>8 DEF Runs, Lasts, client
    <3> QED  BY <3>1, <3>2
  <2>13. CallOK(call[c])'
    BY <1>2, <1>4, <2>8, <2>11, <2>12 DEF CallOK, client
  <2> QED  BY <1>2, <2>2, <2>5, <2>7, <2>13, OneCalls DEF k
<1>7. CASE RenewLost(c)
  <2>1. BaoInv' /\ Grows
    BY <1>1, <1>2, <1>5, <1>7, SameTokens, RenewedOK DEF RenewLost
  <2> DEFINE k == [call[c] EXCEPT !.tries = @ + 1]
  <2>2. call' = [call EXCEPT ![c] = k] /\ call[c].tries <= MaxRetries
    BY <1>7 DEF RenewLost, MayTry
  <2>3. OptToken \subseteq OptToken'
    BY <2>1 DEF OptToken, Grows
  <2>4. k \in CallType'
    BY <1>1, <1>3, <2>2, <2>3 DEF CallType, Locals
  <2>5. /\ call'[c].pc = "renew" /\ call'[c].began = call[c].began
        /\ call'[c].tok = t
    BY <1>1, <1>2, <2>2 DEF CallType, Locals
  <2> HIDE DEF k
  <2>6. /\ bao'[token].expires \in Nat /\ bao[token].expires \in Nat
        /\ bao'[token].expires >= bao[token].expires
    BY <1>1, <1>5, <2>1, TokenGrows
  <2>7. t = token \/ Lasts(token, call[c].began)'
    BY <1>2, <1>3, <1>4, <2>5, <2>6, FirstLeaseType DEF Lasts, client
  <2>8. CallOK(call[c])'
    BY <1>2, <1>4, <2>5, <2>7 DEF CallOK, client
  <2> QED  BY <1>2, <2>1, <2>2, <2>4, <2>8, OneCalls
<1>8. CASE RenewFails(c)
  <2>1. BaoInv' /\ Grows /\ OptToken' = OptToken /\ CallType' = CallType
    BY <1>1, <1>2, <1>8, SameTokens DEF RenewFails, OptToken, CallType, Locals
  <2>2. At(c, "login") \in CallType /\ call' = [call EXCEPT ![c] = At(c, "login")]
    BY <1>1, <1>3, <1>8, IdleOK DEF RenewFails, CallType, Locals, PCs, Idle, At
  <2>3. call'[c].pc = "login" /\ call'[c].began = call[c].began
    BY <2>2, <1>1 DEF Idle, At
  <2>4. CallOK(call[c])'
    BY <1>2, <1>4, <2>3 DEF CallOK
  <2> QED  BY <1>2, <2>1, <2>2, <2>4, OneCalls
<1> QED  BY <1>6, <1>7, <1>8

\* A login is answered, lost or refused.
LEMMA LoginOK ==
    ASSUME Inv, NEW c \in Callers, LoginAnswered(c) \/ LoginLost(c) \/ LoginFails(c)
    PROVE  Inv'
<1>1. /\ BaoInv /\ call \in [Callers -> CallType] /\ call[c] \in CallType
      /\ CallOK(call[c]) /\ clock \in Nat /\ token \in OptToken
  BY Parts
<1>2. UNCHANGED <<clock, client>> /\ call[c].pc = "login"
  BY DEF LoginAnswered, LoginLost, LoginFails
<1>3. call[c].began \in Nat /\ call[c].tries \in 0..(MaxRetries + 1)
  BY <1>1, CallTyped
<1>4. call[c].began <= clock /\ clock <= call[c].began + Latency
  BY <1>1, <1>2 DEF CallOK
<1>5. CASE LoginAnswered(c)
  <2>0. PICK n : n = Len(bao) + 1
    OBVIOUS
  <2>1. bao' = Append(bao, NewToken)
    BY <1>5 DEF LoginAnswered
  <2>2. /\ BaoInv' /\ Grows /\ n \in DOMAIN bao' /\ n # NoToken
        /\ bao'[n].expires = clock + FirstLease
    BY <1>1, <1>2, <2>0, <2>1, NewTokenOK
  <2> DEFINE lease == Reported(clock + FirstLease)
  <2>3. lease \in Nat /\ (Sec = 1 => lease = FirstLease)
    <3>1. lease = FirstLease \div Sec
      <4>1. (clock + FirstLease) - clock = FirstLease
        BY <1>1, FirstLeaseType
      <4> QED  BY <4>1, Zenon DEF Reported, lease
    <3>2. FirstLease \in Nat
      BY FirstLeaseType
    <3> QED  BY <3>1, <3>2, WholeSeconds, Zenon
  <2> HIDE DEF lease
  <2>4. PICK again \in BOOLEAN :
           call' = [call EXCEPT ![c] = [At(c, "loggedIn") EXCEPT
                       !.tok = n, !.lease = lease, !.renewable = again]]
    BY <1>5, <2>0 DEF LoginAnswered, lease
  <2> DEFINE k == [At(c, "loggedIn") EXCEPT !.tok = n, !.lease = lease, !.renewable = again]
  <2>5. k \in CallType'
    <3>1. At(c, "loggedIn") \in Locals(OptToken') /\ n \in OptToken'
      BY <1>3, <2>2, AtTyped DEF PCs, OptToken
    <3> QED  BY <2>3, <2>4, <3>1, AnswerTyped, Zenon DEF CallType, Locals
  <2>6. /\ call'[c].pc = "loggedIn" /\ call'[c].began = call[c].began
        /\ call'[c].lease = lease /\ call'[c].tok = n
    BY <1>1, <2>4 DEF Idle, At
  <2> HIDE DEF k
  <2>7. bao'[n].expires >= call[c].began + FirstLease
    BY <1>1, <1>3, <1>4, <2>2, FirstLeaseType
  <2>8. CallOK(call[c])'
    BY <1>2, <1>4, <2>2, <2>3, <2>6, <2>7 DEF CallOK
  <2> QED  BY <1>2, <2>2, <2>4, <2>5, <2>8, OneCalls DEF k
<1>6. CASE LoginLost(c)
  <2>1. BaoInv' /\ Grows
    BY <1>1, <1>2, <1>6, SameTokens, NewTokenOK DEF LoginLost
  <2> DEFINE k == [call[c] EXCEPT !.tries = @ + 1]
  <2>2. call' = [call EXCEPT ![c] = k] /\ call[c].tries <= MaxRetries
    BY <1>6 DEF LoginLost, MayTry
  <2>3. OptToken \subseteq OptToken'
    BY <2>1 DEF OptToken, Grows
  <2>4. k \in CallType'
    BY <1>1, <1>3, <2>2, <2>3 DEF CallType, Locals
  <2>5. call'[c].pc = "login" /\ call'[c].began = call[c].began
    BY <1>1, <1>2, <2>2 DEF CallType, Locals
  <2> HIDE DEF k
  <2>6. CallOK(call[c])'
    BY <1>2, <1>4, <2>5 DEF CallOK
  <2> QED  BY <1>2, <2>1, <2>2, <2>4, <2>6, OneCalls
<1>7. CASE LoginFails(c)
  <2>1. BaoInv' /\ Grows /\ OptToken' = OptToken /\ CallType' = CallType
    BY <1>1, <1>2, <1>7, SameTokens DEF LoginFails, OptToken, CallType, Locals
  <2>2. call' = [call EXCEPT ![c] = Idle] /\ call'[c].pc = "idle"
    BY <1>1, <1>7, IdleOK DEF LoginFails
  <2>3. CallOK(call[c])'
    BY <2>2 DEF CallOK
  <2> QED  BY <1>2, <2>1, <2>2, <2>3, IdleOK, OneCalls
<1> QED  BY <1>5, <1>6, <1>7

\* The answer to a renewal is applied, to whatever token is held.
LEMMA ApplyRenewOK ==
    ASSUME Inv, NEW c \in Callers, ApplyRenew(c) PROVE Inv'
<1>1. /\ BaoInv /\ call \in [Callers -> CallType] /\ call[c] \in CallType
      /\ CallOK(call[c]) /\ clock \in Nat /\ token \in OptToken
  BY Parts
<1>2. /\ call[c].pc = "renewed" /\ UNCHANGED <<clock, token, bao>>
      /\ renewable' = call[c].renewable /\ tokenExpiry' = LeaseExpiry(call[c].lease)
  BY DEF ApplyRenew
<1>3. /\ call[c].began \in Nat /\ call[c].lease \in Nat /\ call[c].renewable \in BOOLEAN
      /\ clock \in Nat
  BY <1>1, CallTyped
<1>4. /\ call[c].began <= clock /\ clock <= call[c].began + Latency
      /\ token # NoToken /\ Runs(token, call[c].began)
      /\ Sec = 1 => /\ call[c].lease \in 1..FirstLease
                    /\ bao[token].expires + Latency >= call[c].began + call[c].lease
  BY <1>1, <1>2 DEF CallOK
<1>5. bao[token].expires \in Nat
  BY <1>1, <1>4, BaoTyped DEF OptToken
<1>6. BaoInv' /\ Grows /\ OptToken' = OptToken /\ CallType' = CallType
  BY <1>1, <1>2, SameTokens DEF OptToken, CallType
<1>7. tokenExpiry' \in Nat /\ renewable' \in BOOLEAN
  BY <1>2, <1>3, ExpiryType
<1>8. ExpiryTracksLease'
  <2>1. Sec = 1 => tokenExpiry' = clock + call[c].lease
    BY <1>2, <1>3, <1>4, FirstLeaseType DEF LeaseExpiry
  <2>2. Sec = 1 => tokenExpiry' <= bao[token].expires + 2 * Latency
    BY <1>3, <1>4, <1>5, <2>1
  <2> QED  BY <1>2, <2>2 DEF ExpiryTracksLease
<1> DEFINE k == [At(c, "return") EXCEPT !.via = "renewed"]
<1>9. k \in CallType /\ call' = [call EXCEPT ![c] = k]
  BY <1>1, <1>3, IdleOK DEF ApplyRenew, CallType, Locals, PCs, Idle, At
<1>10. /\ call'[c].pc = "return" /\ call'[c].began = call[c].began
       /\ call'[c].via = "renewed"
  BY <1>1, <1>9 DEF Idle, At
<1> HIDE DEF k
<1>11. CallOK(call[c])'
  BY <1>2, <1>4, <1>10 DEF CallOK, Runs, Lasts
<1> QED  BY <1>2, <1>6, <1>7, <1>8, <1>9, <1>11, OneMoves

\* The answer to a login replaces the token under the other callers: what they
\* know of the token held holds of the new one, which is no older than a call.
LEMMA ApplyLoginOK ==
    ASSUME Inv, NEW c \in Callers, ApplyLogin(c) PROVE Inv'
<1>1. /\ BaoInv /\ call \in [Callers -> CallType] /\ call[c] \in CallType
      /\ CallOK(call[c]) /\ clock \in Nat
      /\ \A q \in Callers : call[q] \in CallType /\ CallOK(call[q])
  BY Parts
<1>2. /\ call[c].pc = "loggedIn" /\ UNCHANGED <<clock, bao>> /\ token' = call[c].tok
      /\ renewable' = call[c].renewable /\ tokenExpiry' = LeaseExpiry(call[c].lease)
  BY DEF ApplyLogin
<1>3. /\ call[c].began \in Nat /\ call[c].lease \in Nat /\ call[c].renewable \in BOOLEAN
      /\ clock \in Nat /\ call[c].tok \in OptToken
  BY <1>1, CallTyped
<1> DEFINE t == call[c].tok
<1>4. /\ call[c].began <= clock /\ clock <= call[c].began + Latency
      /\ t # NoToken /\ bao[t].expires >= call[c].began + FirstLease
      /\ Sec = 1 => call[c].lease = FirstLease
  BY <1>1, <1>2 DEF CallOK
<1>5. bao[t].expires \in Nat /\ FirstLease \in Nat \ {0}
  BY <1>1, <1>3, <1>4, BaoTyped, FirstLeaseType DEF OptToken
<1>6. BaoInv' /\ OptToken' = OptToken /\ CallType' = CallType
  BY <1>1, <1>2, SameTokens DEF OptToken, CallType
<1>7. tokenExpiry' \in Nat /\ renewable' \in BOOLEAN
  BY <1>2, <1>3, ExpiryType
<1>8. ExpiryTracksLease'
  <2>1. Sec = 1 => tokenExpiry' = clock + FirstLease
    BY <1>2, <1>3, <1>4, <1>5 DEF LeaseExpiry
  <2>2. Sec = 1 => tokenExpiry' <= bao[t].expires + 2 * Latency
    BY <1>3, <1>4, <1>5, <2>1
  <2> QED  BY <1>2, <2>2 DEF ExpiryTracksLease
<1> DEFINE k == [At(c, "return") EXCEPT !.via = "login"]
<1>9. k \in CallType /\ call' = [call EXCEPT ![c] = k]
  BY <1>1, <1>3, IdleOK DEF ApplyLogin, CallType, Locals, PCs, Idle, At
<1>10. /\ call'[c].pc = "return" /\ call'[c].began = call[c].began
       /\ call'[c].via = "login"
  BY <1>1, <1>9 DEF Idle, At
<1> HIDE DEF k
<1>11. \A b \in Nat : b <= clock => bao[t].expires + Latency >= b + FirstLease
  BY <1>3, <1>4, <1>5
<1>12. ASSUME NEW q \in Callers PROVE CallOK(call[q])'
  <2>1. CASE q = c
    <3>1. Lasts(token, call[c].began)'
      BY <1>2, <1>3, <1>4, <1>10, <1>11 DEF Lasts
    <3> QED  BY <1>2, <1>4, <1>10, <2>1, <3>1 DEF CallOK
  <2>2. CASE q # c
    <3>1. call'[q] = call[q] /\ CallOK(call[q])
      BY <1>1, <1>9, <2>2
    <3>2. call[q].began \in Nat /\ call[q].lease \in Nat
      BY <1>1, CallTyped
    <3>3. call[q].pc # "idle" =>
             /\ Lasts(token, call[q].began)'
             /\ Sec = 1 /\ call[q].lease \in 1..FirstLease =>
                   bao'[token'].expires + Latency >= call'[q].began + call'[q].lease
      BY <1>2, <1>5, <1>11, <3>1, <3>2 DEF Lasts, CallOK
    <3> QED  BY <1>2, <1>4, <3>1, <3>3 DEF CallOK, Runs, Lasts
  <2> QED  BY <2>1, <2>2
<1>13. TypeOK'
  <2>1. call' \in [Callers -> CallType]
    BY <1>1, <1>9
  <2> QED  BY <1>2, <1>3, <1>6, <1>7, <2>1 DEF TypeOK, BaoInv, BaoTokens, CallType, Locals
<1> QED  BY <1>6, <1>8, <1>12, <1>13 DEF Inv, BInv, BaoInv

\* ensureToken returns the token held, and the call it was for ends.
LEMMA EndOK ==
    ASSUME Inv, NEW c \in Callers, ReturnToken(c) \/ CallEnds(c) PROVE Inv'
<1>1. /\ BaoInv /\ call \in [Callers -> CallType] /\ call[c] \in CallType
      /\ CallOK(call[c]) /\ clock \in Nat /\ token \in OptToken
  BY Parts
<1>2. UNCHANGED <<clock, client, bao>>
  BY DEF ReturnToken, CallEnds
<1>3. BaoInv' /\ Grows /\ OptToken' = OptToken /\ CallType' = CallType
  BY <1>1, <1>2, SameTokens DEF OptToken, CallType
<1>4. call[c].began \in Nat /\ call[c].via \in {"none", "held", "renewed", "login"}
  BY <1>1, CallTyped
<1>5. CASE ReturnToken(c)
  <2> DEFINE k == [At(c, "use") EXCEPT !.tok = token, !.via = call[c].via]
  <2>1. k \in CallType /\ call' = [call EXCEPT ![c] = k]
    BY <1>1, <1>4, <1>5, IdleOK DEF ReturnToken, CallType, Locals, PCs, Idle, At
  <2>2. /\ call'[c].pc = "use" /\ call'[c].began = call[c].began
        /\ call'[c].tok = token /\ call'[c].via = call[c].via
    BY <1>1, <2>1 DEF Idle, At
  <2> HIDE DEF k
  <2>3. /\ call[c].pc = "return" /\ call[c].via # "held" /\ token # NoToken
        /\ call[c].began <= clock /\ clock <= call[c].began + Latency
        /\ call[c].via = "renewed" => Runs(token, call[c].began)
        /\ call[c].via = "login" => Lasts(token, call[c].began)
    BY <1>1, <1>5 DEF ReturnToken, CallOK
  <2>4. CallOK(call[c])'
    BY <1>2, <2>2, <2>3 DEF CallOK, Runs, Lasts
  <2> QED  BY <1>2, <1>3, <2>1, <2>4, OneCalls
<1>6. CASE CallEnds(c)
  <2>1. call' = [call EXCEPT ![c] = Idle] /\ call'[c].pc = "idle"
    BY <1>1, <1>6, IdleOK DEF CallEnds
  <2>2. CallOK(call[c])'
    BY <2>1 DEF CallOK
  <2> QED  BY <1>2, <1>3, <2>1, <2>2, IdleOK, OneCalls
<1> QED  BY <1>5, <1>6

\* An operator revokes a token: no caller's knowledge is about that.
LEMMA RevokeOK ==
    ASSUME Inv, NEW t \in DOMAIN bao, Revoke(t) PROVE Inv'
<1>1. /\ BaoInv /\ token \in OptToken /\ tokenExpiry \in Nat /\ renewable \in BOOLEAN
      /\ call \in [Callers -> CallType] /\ ExpiryTracksLease /\ clock \in Nat
  BY Parts
<1>2. /\ UNCHANGED <<clock, client, call>> /\ Valid(t)
      /\ bao' = [bao EXCEPT ![t].revoked = clock]
  BY DEF Revoke
<1>3. bao[t] \in BaoTokens /\ TokenOK(t)
  BY <1>1 DEF BaoInv
<1>4. /\ DOMAIN bao' = DOMAIN bao /\ \A u \in DOMAIN bao : u # t => bao'[u] = bao[u]
      /\ bao'[t] = [bao[t] EXCEPT !.revoked = clock]
  BY <1>1, <1>2 DEF BaoInv
<1>5. /\ bao'[t] \in BaoTokens /\ bao'[t].revoked = clock
      /\ bao'[t].expires = bao[t].expires /\ bao'[t].born = bao[t].born
  BY <1>1, <1>3, <1>4 DEF BaoTokens
<1>6. bao' \in Seq(BaoTokens)
  BY <1>1, <1>2, <1>5 DEF BaoInv
<1>7. TokenOK(t)'
  BY <1>2, <1>3, <1>5 DEF TokenOK
<1>8. \A u \in DOMAIN bao : u # t => TokenOK(u)'
  BY <1>1, <1>2, <1>4 DEF TokenOK, BaoInv
<1>9. BaoInv'
  BY <1>1, <1>2, <1>4, <1>6, <1>7, <1>8 DEF BaoInv
<1>10. \A u \in DOMAIN bao : /\ bao'[u].expires = bao[u].expires
                             /\ bao'[u].born = bao[u].born
                             /\ bao[u].expires \in Nat
  BY <1>1, <1>4, <1>5, BaoTyped
<1>11. Grows /\ OptToken' = OptToken /\ CallType' = CallType
  BY <1>4, <1>10 DEF Grows, OptToken, CallType
<1>12. \A q \in Callers : CallOK(call[q])'
  BY <1>2, <1>9, <1>11, CallKept DEF client
<1>13. ExpiryTracksLease'
  BY <1>1, <1>2, <1>10 DEF ExpiryTracksLease, client, OptToken
<1>14. TypeOK'
  BY <1>1, <1>2, <1>9, <1>11 DEF TypeOK, BaoInv, BaoTokens, CallType, Locals, client
<1> QED  BY <1>9, <1>12, <1>13, <1>14 DEF Inv, BInv, BaoInv

\* Time passes within every call's deadline.
LEMMA TickOK == ASSUME Inv, Tick PROVE Inv'
<1>1. /\ BaoInv /\ call \in [Callers -> CallType] /\ ExpiryTracksLease /\ clock \in Nat
      /\ \A q \in Callers : call[q] \in CallType /\ CallOK(call[q])
  BY Parts
<1>2. clock' = clock + 1 /\ UNCHANGED <<client, bao, call>>
      /\ \A q \in Callers : call[q].pc # "idle" => clock < call[q].began + Latency
  BY DEF Tick
<1>3. \A t \in DOMAIN bao : TokenOK(t)'
  <2> TAKE t \in DOMAIN bao
  <2>1. bao[t].born \in Nat /\ bao[t].expires \in Nat /\ TokenOK(t)
    BY <1>1, BaoTyped DEF BaoInv
  <2> QED  BY <1>1, <1>2, <2>1 DEF TokenOK
<1>4. \A q \in Callers : CallOK(call[q])'
  <2> TAKE q \in Callers
  <2>1. call[q].began \in Nat /\ CallOK(call[q])
    BY <1>1, CallTyped
  <2>2. call[q].pc # "idle" => call[q].began <= clock' /\ clock' <= call[q].began + Latency
    BY <1>1, <1>2, <2>1 DEF CallOK
  <2> QED  BY <1>2, <2>1, <2>2 DEF CallOK, Runs, Lasts, client
<1>5. ExpiryTracksLease'
  BY <1>1, <1>2 DEF ExpiryTracksLease, client
<1>6. TypeOK'
  BY <1>1, <1>2 DEF Inv, TypeOK, OptToken, client
<1> QED  BY <1>2, <1>3, <1>4, <1>5, <1>6 DEF Inv, BInv

\* A client that has not logged in starts in the invariant.
LEMMA InitOK == Init => Inv
<1> SUFFICES ASSUME Init PROVE Inv
  OBVIOUS
<1>1. DOMAIN bao = {} /\ bao \in Seq(BaoTokens)
  BY DEF Init
<1>2. call \in [Callers -> CallType] /\ \A c \in Callers : call[c].pc = "idle"
  BY IdleOK DEF Init
<1>3. \A c \in Callers : CallOK(call[c])
  BY <1>2 DEF CallOK
<1>4. TypeOK
  BY <1>1, <1>2 DEF Init, TypeOK, CallType, Locals, BaoTokens, OptToken
<1> QED  BY <1>1, <1>3, <1>4 DEF Init, Inv, BInv, ExpiryTracksLease

\* Every step keeps it.
LEMMA StepOK == Inv /\ [Next]_vars => Inv'
<1> SUFFICES ASSUME Inv, [Next]_vars PROVE Inv'
  OBVIOUS
<1>1. CASE UNCHANGED vars
  BY <1>1 DEF vars, client, Inv, BInv, TypeOK, OptToken, TokenOK, CallOK, Runs, Lasts,
              ExpiryTracksLease
<1>2. ASSUME NEW c \in Callers, EnsureToken(c) \/ CallerStep(c) PROVE Inv'
  BY <1>2, LookOK, RenewOK, LoginOK, ApplyRenewOK, ApplyLoginOK, EndOK DEF CallerStep
<1> QED  BY <1>1, <1>2, RevokeOK, TickOK DEF Next

\* So it always holds.
LEMMA Dated == Spec => []Inv
  BY InitOK, StepOK, PTL DEF Spec

-----------------------------------------------------------------------------
(* What follows                                                            *)

(* The client's fields, OpenBao's tokens and the callers' locals keep their    *)
(* types; in particular doRequest's loop never makes more than MaxRetries + 1   *)
(* attempts.                                                                *)
THEOREM TypeCorrect == Spec => []TypeOK
<1>1. Inv => TypeOK
  BY DEF Inv
<1> QED  BY <1>1, Dated, PTL

(* However many callers renew and log in at once and in whatever order their    *)
(* answers are applied, the expiry the client records is at most two deadlines  *)
(* later than OpenBao's.                                                     *)
THEOREM ExpiryIsTracked == Spec => []ExpiryTracksLease
<1>1. Inv => ExpiryTracksLease
  BY DEF Inv, BInv
<1> QED  BY <1>1, Dated, PTL

\* A caller's token is one OpenBao knows, with a lease that is a number.
LEMMA TokenInUse ==
    ASSUME Inv, NEW c \in Callers, call[c].pc = "use"
    PROVE  /\ call[c].tok \in DOMAIN bao /\ bao[call[c].tok].expires \in Nat
           /\ call[c].began \in Nat /\ clock \in Nat /\ CallOK(call[c])
           /\ clock <= call[c].began + Latency
<1>1. BaoInv /\ clock \in Nat /\ call[c] \in CallType /\ CallOK(call[c])
  BY Parts
<1>2. call[c].tok \in OptToken /\ call[c].tok # NoToken /\ call[c].began \in Nat
      /\ clock <= call[c].began + Latency
  BY <1>1, CallTyped DEF CallOK
<1> QED  BY <1>1, <1>2, BaoTyped DEF OptToken

(* ensureToken's "comfortably valid" is: a token taken for it stays within its  *)
(* lease until the call is over, if RenewThreshold is three deadlines or more.  *)
THEOREM HeldTokensLast == Spec => []HeldTokenInLease
<1>1. Inv => HeldTokenInLease
  <2> SUFFICES ASSUME Inv, Sec = 1, RenewThreshold >= 3 * Latency, NEW c \in Callers,
                      Using(c, "held")
               PROVE  clock < bao[call[c].tok].expires
    BY DEF HeldTokenInLease, InLease
  <2>1. call[c].pc = "use" /\ call[c].via = "held"
    BY DEF Using
  <2> QED  BY <2>1, TokenInUse DEF CallOK
<1> QED  BY <1>1, Dated, PTL

(* A caller that logged in leaves ensureToken with a token good for its call,   *)
(* its own or the one another caller's login put in its place.                *)
THEOREM FreshTokensLast == Spec => []FreshTokenInLease
<1>1. Inv => FreshTokenInLease
  <2> SUFFICES ASSUME Inv, FirstLease > 2 * Latency, NEW c \in Callers, Using(c, "login")
               PROVE  clock < bao[call[c].tok].expires
    BY DEF FreshTokenInLease, InLease
  <2>1. call[c].pc = "use" /\ call[c].via = "login"
    BY DEF Using
  <2> QED  BY <2>1, TokenInUse, FirstLeaseType DEF CallOK, Lasts
<1> QED  BY <1>1, Dated, PTL

(* A caller that renewed leaves ensureToken with a token good for its call,     *)
(* unless OpenBao cut the renewal at the token's maximum age.                 *)
THEOREM RenewedTokensLast == Spec => []RenewedTokenInLease
<1>1. Inv => RenewedTokenInLease
  <2> SUFFICES ASSUME Inv, FirstLease > 2 * Latency, NEW c \in Callers, Using(c, "renewed")
               PROVE  \/ clock < bao[call[c].tok].expires
                      \/ bao[call[c].tok].expires = bao[call[c].tok].born + MaxTTL
    BY DEF RenewedTokenInLease, InLease
  <2>1. call[c].pc = "use" /\ call[c].via = "renewed"
    BY DEF Using
  <2> QED  BY <2>1, TokenInUse, FirstLeaseType DEF CallOK, Runs, Lasts
<1> QED  BY <1>1, Dated, PTL

(* A revoked token, which no answer makes the client drop, is used for less      *)
(* than one lease after it was revoked.                                      *)
THEOREM OutageEnds == Spec => []OutageBounded
<1>1. Inv => OutageBounded
  <2> SUFFICES ASSUME Inv, Sec = 1, RenewThreshold >= 3 * Latency, NEW c \in Callers,
                      Using(c, "held"), call[c].tok \in RevokedTokens
               PROVE  clock < bao[call[c].tok].revoked + TTL
    BY DEF OutageBounded
  <2> DEFINE t == call[c].tok
  <2>1. call[c].pc = "use" /\ call[c].via = "held" /\ bao[t].revoked # NotRevoked
    BY DEF Using, RevokedTokens
  <2>2. t \in DOMAIN bao /\ BaoInv /\ clock \in Nat
    BY <2>1, TokenInUse, Parts
  <2>3. bao[t].revoked \in Nat /\ bao[t].expires \in Nat
        /\ bao[t].expires <= bao[t].revoked + TTL
    BY <2>1, <2>2, BaoTyped DEF BaoInv, TokenOK
  <2>4. clock < bao[t].expires
    BY <2>1, TokenInUse DEF CallOK
  <2> QED  BY <2>2, <2>3, <2>4
<1> QED  BY <1>1, Dated, PTL
=============================================================================
