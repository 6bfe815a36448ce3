----------------------------- MODULE BaoClient -----------------------------
(***************************************************************************)
(* The OpenBao client's token (internal/bao/client.go). Every call of       *)
(* OpenBao made for a request - Sign, Issue, CAChain, the readiness probe -  *)
(* goes through ensureToken, which looks at the shared token under the       *)
(* client's mutex and then, without it, uses, renews or replaces it. Nothing *)
(* keeps two callers from renewing or logging in at the same time, and an    *)
(* answer is applied when it arrives, to whatever token is held by then.     *)
(*                                                                         *)
(* Time is in ticks. A call carries a deadline (UpstreamTimeout, and five    *)
(* seconds for /readyz): time does not pass it without the call being over.  *)
(***************************************************************************)
EXTENDS Integers, Sequences, FiniteSets

CONSTANTS
    Callers,         \* goroutines calling OpenBao
    TTL,             \* token_ttl of the AppRole
    MaxTTL,          \* token_max_ttl: no renewal carries a token past it
    Sec,             \* ticks in a second, the unit in which leases are reported
    RenewThreshold,  \* bao.Config.RenewThreshold
    Latency,         \* the deadline of a call
    MaxRetries,      \* bao.Config.MaxRetries
    Century,         \* what leaseExpiry takes a lease of nothing for
    MaxClock,        \* bound on the clock
    MaxTokens,       \* bound on the tokens OpenBao hands out
    MaxRevoked       \* bound on the tokens revoked

ASSUME TimesAssumption ==
    /\ TTL \in Nat \ {0} /\ MaxTTL \in Nat \ {0} /\ Sec \in Nat \ {0}
    /\ RenewThreshold \in Nat /\ Latency \in Nat /\ Century \in Nat
ASSUME BoundsAssumption ==
    /\ MaxRetries \in Nat /\ MaxClock \in Nat /\ MaxTokens \in Nat
    /\ MaxRevoked \in Nat

NoToken == 0
NotRevoked == -1
FirstLease == IF TTL < MaxTTL THEN TTL ELSE MaxTTL

VARIABLES
    clock,
    token, tokenExpiry, renewable,   \* Client.token, .tokenExpiry, .renewable
    bao,       \* OpenBao: the tokens it handed out, token t at index t
    call       \* each caller's place in ensureToken and its locals there

client == <<token, tokenExpiry, renewable>>
vars == <<clock, client, bao, call>>

\* `tok` is the token a caller looked at, is renewing, was granted or returns,
\* according to `pc`; `expiry` goes with a token looked at, `lease` with an
\* answer; `via` (history) is how ensureToken came by the token.
Idle == [pc |-> "idle", began |-> 0, tok |-> NoToken, expiry |-> 0, lease |-> 0,
         renewable |-> FALSE, tries |-> 0, via |-> "none"]

\* Caller c at label, its call begun when it was and its other locals gone.
At(c, label) == [Idle EXCEPT !.pc = label, !.began = call[c].began]

\* New: no token until the first call logs in.
Init ==
    /\ clock = 0
    /\ token = NoToken /\ tokenExpiry = 0 /\ renewable = FALSE
    /\ bao = <<>>
    /\ call = [c \in Callers |-> Idle]

-----------------------------------------------------------------------------
(* ensureToken: look, and decide                                           *)

\* do and doRawBytes call ensureToken, which copies the client's token state.
EnsureToken(c) ==
    /\ call[c].pc = "idle"
    /\ call' = [call EXCEPT ![c] =
                   [Idle EXCEPT !.pc = "decide", !.began = clock, !.tok = token,
                                !.expiry = tokenExpiry, !.renewable = renewable]]
    /\ UNCHANGED <<clock, client, bao>>

\* Mutated form: any token not yet expired will do.
NotYetExpired(c) == call[c].tok # NoToken /\ call[c].expiry > clock

ComfortablyValid(c) ==
    call[c].tok # NoToken /\ call[c].expiry - clock > RenewThreshold

CanRenew(c) ==
    call[c].tok # NoToken /\ call[c].renewable /\ call[c].expiry > clock

UseHeld(c) ==
    /\ call[c].pc = "decide" /\ ComfortablyValid(c)
    /\ call' = [call EXCEPT ![c] =
                   [At(c, "use") EXCEPT !.tok = call[c].tok, !.via = "held"]]
    /\ UNCHANGED <<clock, client, bao>>

BeginRenew(c) ==
    /\ call[c].pc = "decide" /\ ~ComfortablyValid(c) /\ CanRenew(c)
    /\ call' = [call EXCEPT ![c] = At(c, "renewing")]
    /\ UNCHANGED <<clock, client, bao>>

BeginLogin(c) ==
    /\ call[c].pc = "decide" /\ ~ComfortablyValid(c) /\ ~CanRenew(c)
    /\ call' = [call EXCEPT ![c] = At(c, "login")]
    /\ UNCHANGED <<clock, client, bao>>

-----------------------------------------------------------------------------
(* renewSelf                                                               *)

\* It sends the token that is current now, not the one ensureToken looked at.
RenewSelf(c) ==
    /\ call[c].pc = "renewing"
    /\ call' = [call EXCEPT ![c] = [At(c, "renew") EXCEPT !.tok = token]]
    /\ UNCHANGED <<clock, client, bao>>

\* Mutated form: one attempt too many.
MayTryOnceMore(c) == call[c].tries <= MaxRetries + 1

\* doRequest's loop has an attempt left.
MayTry(c) == call[c].tries <= MaxRetries

InLease(t) == clock < bao[t].expires
Valid(t) == InLease(t) /\ bao[t].revoked = NotRevoked

\* External: a renewal runs for a full TTL, or until the token's maximum age.
RenewedUntil(t) ==
    IF clock + TTL < bao[t].born + MaxTTL THEN clock + TTL ELSE bao[t].born + MaxTTL

\* External: leases are reported in whole seconds.
Reported(until) == (until - clock) \div Sec

Renewed(t) == [bao EXCEPT ![t].expires = RenewedUntil(t)]

\* OpenBao renews, and its answer is on the way.
RenewAnswered(c) ==
    /\ call[c].pc = "renew" /\ MayTry(c) /\ Valid(call[c].tok)
    /\ bao' = Renewed(call[c].tok)
    /\ \E again \in BOOLEAN :
          call' = [call EXCEPT ![c] =
                      [At(c, "renewed") EXCEPT
                          !.lease = Reported(RenewedUntil(call[c].tok)),
                          !.renewable = again]]
    /\ UNCHANGED <<clock, client>>

\* A network error or a 5xx, with the token renewed or not: doRequest tries again.
RenewLost(c) ==
    /\ call[c].pc = "renew" /\ MayTry(c)
    /\ bao' = bao \/ (Valid(call[c].tok) /\ bao' = Renewed(call[c].tok))
    /\ call' = [call EXCEPT ![c].tries = @ + 1]
    /\ UNCHANGED <<clock, client>>

\* Mutated form: the error is ignored.
RenewFailureIgnored(c) ==
    /\ call[c].pc = "renew"
    /\ call' = [call EXCEPT ![c] = [At(c, "return") EXCEPT !.via = "renewed"]]
    /\ UNCHANGED <<clock, client, bao>>

\* A 4xx, attempts used up, the deadline, an answer without auth: renewSelf
\* returns an error and ensureToken goes on to log in.
RenewFails(c) ==
    /\ call[c].pc = "renew"
    /\ call' = [call EXCEPT ![c] = At(c, "login")]
    /\ UNCHANGED <<clock, client, bao>>

\* Mutated form: every lease lasts for good.
LeaseExpiryNever(seconds) == clock + Century

LeaseExpiry(seconds) == clock + (IF seconds <= 0 THEN Century ELSE seconds * Sec)

\* Mutated form: the new lease is added to what was left of the old one.
ApplyRenewOnTop(c) ==
    /\ call[c].pc = "renewed"
    /\ renewable' = call[c].renewable
    /\ tokenExpiry' = tokenExpiry + call[c].lease * Sec
    /\ call' = [call EXCEPT ![c] = [At(c, "return") EXCEPT !.via = "renewed"]]
    /\ UNCHANGED <<clock, token, bao>>

\* The answer sets the expiry of the token held now, which another caller may
\* have replaced meanwhile.
ApplyRenew(c) ==
    /\ call[c].pc = "renewed"
    /\ renewable' = call[c].renewable
    /\ tokenExpiry' = LeaseExpiry(call[c].lease)
    /\ call' = [call EXCEPT ![c] = [At(c, "return") EXCEPT !.via = "renewed"]]
    /\ UNCHANGED <<clock, token, bao>>

-----------------------------------------------------------------------------
(* Login                                                                   *)

NewToken == [born |-> clock, expires |-> clock + FirstLease, revoked |-> NotRevoked]

LoginAnswered(c) ==
    /\ call[c].pc = "login" /\ MayTry(c) /\ Len(bao) < MaxTokens
    /\ bao' = Append(bao, NewToken)
    /\ \E again \in BOOLEAN :
          call' = [call EXCEPT ![c] =
                      [At(c, "loggedIn") EXCEPT
                          !.tok = Len(bao) + 1,
                          !.lease = Reported(clock + FirstLease),
                          !.renewable = again]]
    /\ UNCHANGED <<clock, client>>

\* A network error or a 5xx, perhaps after a token was made that nobody holds.
LoginLost(c) ==
    /\ call[c].pc = "login" /\ MayTry(c)
    /\ bao' = bao \/ (Len(bao) < MaxTokens /\ bao' = Append(bao, NewToken))
    /\ call' = [call EXCEPT ![c].tries = @ + 1]
    /\ UNCHANGED <<clock, client>>

\* Login returns an error, and so does the call.
LoginFails(c) ==
    /\ call[c].pc = "login"
    /\ call' = [call EXCEPT ![c] = Idle]
    /\ UNCHANGED <<clock, client, bao>>

\* Mutated form: a token that is there already is kept.
ApplyLoginIfNone(c) ==
    /\ call[c].pc = "loggedIn"
    /\ token' = IF token = NoToken THEN call[c].tok ELSE token
    /\ renewable' = call[c].renewable
    /\ tokenExpiry' = LeaseExpiry(call[c].lease)
    /\ call' = [call EXCEPT ![c] = [At(c, "return") EXCEPT !.via = "login"]]
    /\ UNCHANGED <<clock, bao>>

ApplyLogin(c) ==
    /\ call[c].pc = "loggedIn"
    /\ token' = call[c].tok
    /\ renewable' = call[c].renewable
    /\ tokenExpiry' = LeaseExpiry(call[c].lease)
    /\ call' = [call EXCEPT ![c] = [At(c, "return") EXCEPT !.via = "login"]]
    /\ UNCHANGED <<clock, bao>>

-----------------------------------------------------------------------------

\* ensureToken returns the token held now.
ReturnToken(c) ==
    /\ call[c].pc = "return"
    /\ call' = [call EXCEPT ![c] = [At(c, "use") EXCEPT !.tok = token,
                                                        !.via = call[c].via]]
    /\ UNCHANGED <<clock, client, bao>>

\* The call itself, with the token in its header. Whatever OpenBao answers, a
\* 403 included, leaves the client's token as it is.
CallEnds(c) ==
    /\ call[c].pc = "use"
    /\ call' = [call EXCEPT ![c] = Idle]
    /\ UNCHANGED <<clock, client, bao>>

RevokedTokens == {t \in DOMAIN bao : bao[t].revoked # NotRevoked}

\* External: an operator revokes a token.
Revoke(t) ==
    /\ Valid(t) /\ Cardinality(RevokedTokens) < MaxRevoked
    /\ bao' = [bao EXCEPT ![t].revoked = clock]
    /\ UNCHANGED <<clock, client, call>>

\* Time passes, but no call outlives its deadline.
Tick ==
    /\ clock < MaxClock
    /\ \A c \in Callers : call[c].pc # "idle" => clock < call[c].began + Latency
    /\ clock' = clock + 1
    /\ UNCHANGED <<client, bao, call>>

CallerStep(c) ==
    \/ UseHeld(c) \/ BeginRenew(c) \/ BeginLogin(c)
    \/ RenewSelf(c) \/ RenewAnswered(c) \/ RenewLost(c) \/ RenewFails(c) \/ ApplyRenew(c)
    \/ LoginAnswered(c) \/ LoginLost(c) \/ LoginFails(c) \/ ApplyLogin(c)
    \/ ReturnToken(c) \/ CallEnds(c)

Next ==
    \/ \E c \in Callers : EnsureToken(c) \/ CallerStep(c)
    \/ \E t \in DOMAIN bao : Revoke(t)
    \/ Tick

Spec == Init /\ [][Next]_vars

-----------------------------------------------------------------------------
(* Correctness                                                             *)

OptToken == DOMAIN bao \cup {NoToken}
PCs == {"idle", "decide", "renewing", "renew", "renewed", "login", "loggedIn", "return",
        "use"}

(* The types of the client's fields, of the callers' locals and of OpenBao's *)
(* token store.                                                             *)
TypeOK ==
    /\ clock \in Nat
    /\ token \in OptToken /\ tokenExpiry \in Nat /\ renewable \in BOOLEAN
    /\ bao \in Seq([born : Nat, expires : Nat, revoked : Nat \cup {NotRevoked}])
    /\ call \in [Callers -> [pc : PCs, began : Nat, tok : OptToken, expiry : Nat,
                             lease : Nat, renewable : BOOLEAN,
                             tries : 0..(MaxRetries + 1),
                             via : {"none", "held", "renewed", "login"}]]

Using(c, how) == call[c].pc = "use" /\ call[c].via = how

(* The expiry the client records may be later than OpenBao's, for it counts   *)
(* from the answer's arrival, and a renewal's answer may even be that of an   *)
(* older token; but never by more than two deadlines, whatever the callers'   *)
(* answers overtake.                                                        *)
ExpiryTracksLease ==
    (Sec = 1 /\ token # NoToken) => tokenExpiry <= bao[token].expires + 2 * Latency

(* So a token taken as comfortably valid stays within its lease until the     *)
(* call it was taken for is over, provided RenewThreshold is three deadlines   *)
(* or more (five minutes to twenty seconds by default).                       *)
HeldTokenInLease ==
    (Sec = 1 /\ RenewThreshold >= 3 * Latency) =>
        \A c \in Callers : Using(c, "held") => InLease(call[c].tok)

(* A caller that had to log in is given a token within its lease until the    *)
(* end of its call, also when it is another caller's and not its own, provided *)
(* a first lease is longer than two deadlines.                               *)
FreshTokenInLease ==
    FirstLease > 2 * Latency =>
        \A c \in Callers : Using(c, "login") => InLease(call[c].tok)

(* A renewed token, too, lasts for its call, whichever of the callers' answers *)
(* was applied last, unless OpenBao cut the renewal at the token's maximum     *)
(* age: ensureToken does not look at the lease it was given.                 *)
RenewedTokenInLease ==
    FirstLease > 2 * Latency =>
        \A c \in Callers : Using(c, "renewed") =>
            LET t == call[c].tok
            IN InLease(t) \/ bao[t].expires = bao[t].born + MaxTTL

(* A 403 does not make the client drop its token, so a token revoked at       *)
(* OpenBao keeps being used; but for no longer than one lease.               *)
OutageBounded ==
    (Sec = 1 /\ RenewThreshold >= 3 * Latency) =>
        \A c \in Callers :
            (Using(c, "held") /\ call[c].tok \in RevokedTokens)
                => clock < bao[call[c].tok].revoked + TTL

-----------------------------------------------------------------------------
(* What the documentation says and the code does not do                      *)

(* docs/runbook.md:170: the broker re-authenticates automatically when its    *)
(* token expires - so a token that had run out before the call began is not   *)
(* used as it is.                                                            *)
ReauthenticatesOnExpiry ==
    \A c \in Callers :
        Using(c, "held") => bao[call[c].tok].expires > call[c].began
=============================================================================
