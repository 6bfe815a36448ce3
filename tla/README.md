# certbroker in TLA+

certbroker stands between devices and an OpenBao PKI. It speaks EST (RFC 7030,
mutual TLS) and SCEP (RFC 8894, plain HTTP), decides whether a device may have
the certificate it asks for, has OpenBao issue it, checks what OpenBao issued
against what was decided, and hands it over. This directory models that path and
what surrounds it (the limits in front of the handlers, the client's OpenBao
token, the process from start-up to shutdown), model-checks it on small instances
with TLC and proves the main results for every instance with TLAPS.

## Inventory

| Component | State it keeps | Operations | Talks to | What makes it correct |
|---|---|---|---|---|
| SCEP replay cache, `internal/scep/replay.go` | `seen`: key to expiry, behind a mutex | `Check`, `evictLocked` | called by every SCEP request | bounded; a pair is accepted once per TTL; nothing else is refused |
| Authorization pipeline, `internal/authz` | one-time codes (`MemoryStore`), inventory entries | `Authorize`, `VerifyIssued`, `Add` | called by both handlers | nothing is issued to a requester who proved nothing; a code is good once; names stay within identity or inventory |
| EST handler, `internal/est` | per-request locals | `simpleenroll`, `simplereenroll`, `serverkeygen` (and the read-only `cacerts`, `csrattrs`) | authz, OpenBao client | each operation trusts its own anchor; withheld means withheld; the audit log is true |
| SCEP handler, `internal/scep` | per-request locals | `PKIOperation` (and the read-only `GetCACert`, `GetCACaps`) | replay cache, authz, OpenBao client | as EST; a self-made signer is never an identity; a copy of a message issues nothing |
| OpenBao client, `internal/bao` | token, its expiry, whether renewable, behind a mutex that is not held across calls | `Sign`, `Issue`, `CAChain`, `ensureToken`, `Login`, `renewSelf` | OpenBao over HTTP | attempts are bounded and every call ends; the recorded expiry stays near OpenBao's; a token handed to a call lasts for it |
| Limits, `internal/limits` | token buckets per client, a global one, in-flight slots | `Middleware`, `allow`, `evictLocked`, `acquire` | wraps both handlers | budgets hold; nobody pays for another; slots are neither lost nor doubled; the table is bounded |
| Start-up and shutdown, `cmd/certbroker` | three listeners, error channel, shutdown deadline | `run`, `selectAuthorizer`, `buildSCEPServer` (and the read-only health handler) | all of the above | nothing serves without a way to authenticate; requests in flight are drained; the process ends |
| Configuration, `internal/config` | none after start-up | `Load`, `Validate`, the file loaders | read once | refuses what the rest takes for granted |
| CMS, PKCS#7, `internal/cms`, `internal/pkcs7` | none | encode, decode, verify, decrypt | SCEP and EST handlers | – |

What is hard here: requests run one goroutine each and meet in the replay table
and the code store; a clock is read before a lock is taken; a certificate exists
in OpenBao before the broker knows whether it may hand it over; a lost answer
makes the retry issue a second one; a crash can fall anywhere and takes the
replay table and the codes with it; a device comes back with the certificate it
was given, whose names are then the patterns for the next. Callers of OpenBao
renew and log in at the same time over one token, and an answer is applied when it
arrives; buckets are judged by instants read before the lock; three listeners
share one shutdown deadline. PROJECT.json lists the
hazards line by line with the properties that cover them.

## Modules

| Module | Models | Extends |
|---|---|---|
| `ReplayTable` | the replay table as a value: refusal test, eviction, overflow, recording | – |
| `ReplayCache` | `Check` under concurrent callers with stale clocks, and restarts | `ReplayTable` |
| `Authz` | package `authz` as operators: globs, identity, inventory, challenge, roles, policy modes, the pipeline, `VerifyIssued` | – |
| `Enrollment` | EST and SCEP requests end to end, OpenBao, clients that come back, one-time codes, crashes | `Authz`, `ReplayTable` |
| `Issuance` | the abstract promise: a request is approved at most once, certificates are made only for approved requests, and each is handed at most one of its own, within its permit | – |
| `BaoClient` | the client's token under concurrent callers, and OpenBao's token store | – |
| `Limits` | the rate and concurrency limits in front of the handlers | – |
| `Process` | `run`: configuration, construction, listeners, signals, shutdown | – |
| `MCReplayCache`, `MCEnrollment`, `MCBaoClient`, `MCLimits`, `MCProcess` | the instances TLC checks | |
| `ReplayCacheProofs`, `AuthzProofs`, `EnrollmentProofs`, `GateProofs`, `PromiseProofs`, `BaoClientProofs`, `LimitsProofs`, `ProcessProofs` | the proofs | |

`Enrollment` composes the handlers with the pipeline, the replay table and OpenBao,
and instantiates `Issuance` (`Promise`). The other three stand beside it and meet
it at one action each: a request `Limits` lets into "serving" is one `Enrollment`
receives; a call that `BaoClient` leaves without a usable token is its `SignError`;
the end of the process, in whatever way `Process` comes to it, is its `Restart`.

### How state and actions correspond to the code

`ReplayCache.seen` is the Go map, a partial function from keys to expiries. The
SHA-256 of transactionID and nonce is a model value. `ReadClock(c)` is the part
of `Check` before `mu.Lock()`, `Refuse(c)` and `Accept(c)` the part under it; a
caller can be overtaken between the two. `Accept` is the whole of the rest:
eviction, the clear on overflow, and the write. `window` and `forgotten` are
history variables.

In `Enrollment`, `pc[r]` is where request `r`'s goroutine stands and the other
per-request variables are its locals. One action is what a goroutine does
between two touches of shared state:

| Action | Code |
|---|---|
| `EstReceive` | `enroll`, `serverKeyGen`: body, CSR, key type, `clientIdentity` |
| `ScepReceive` | `pkiOperation`: `readMessage`, `Parse`, and the clock read of `Check` |
| `ScepReplayed`, `ScepFresh` | `Check` under its mutex, and the handler's answer to it |
| `Authorize` | `Pipeline.Authorize`, with what `Validate` does to the codes, and the "deny" line |
| `SignAnswered`, `SignGarbled`, `SignLost`, `SignFailed` | one attempt of `doRequest`: issued and answered; issued, the answer undecodable; issued, the answer lost; not issued |
| `SignError` | `Sign` or `Issue` returns an error: no token, a 4xx, attempts used up, time-out, an empty answer |
| `Undecodable`, `Withhold`, `ReplyFails`, `Reply` | what the handler makes of the answer, with its audit line |
| `Deliver`, `ResponseLost` | the write to the client |
| `AddCode`, `Tick`, `Restart` | an operator registers a code, time passes, the process crashes and restarts |

A certificate carries `origin`, the names of the certificate its chain of
renewals began with; `issued`, `delivered`, `accepted`, `resets` and `spent` are
history variables too. No action's guard depends on them but two: a client can
present what was delivered to it, and `AddCode` gives each registration an id
that was not used before.

In `BaoClient`, `call[c]` is a caller's place in `ensureToken` and its locals.
`EnsureToken` copies the token under the mutex; `UseHeld`, `BeginRenew` and
`BeginLogin` are the decision, made without it; `RenewSelf` is the read of the token a
renewal sends, in a lock hold of its own; `RenewAnswered`, `RenewLost`,
`RenewFails` and their `Login` counterparts are what OpenBao and `doRequest` make of
the call; `ApplyRenew` and `ApplyLogin` are the critical sections that store the
answer, `ReturnToken` the second read of the token, `CallEnds` the call it was for.
`Revoke` is an operator at OpenBao.

In `Limits`, `Arrive` is a request up to the clock read in `allow`,
`ClientRefused` and `ClientAdmitted` are `allow` under its mutex (eviction, new
bucket, refill and take together), `GlobalRefused` and `GlobalAdmitted` the same for
the single global bucket, `AcquireNow` to `AcquireGivesUp` the two selects of
`acquire`, `Release` the deferred release. `private` (what a client's bucket would
be without evictions), `favoured`, `opened` and `log` are history variables.

In `Process`, `stage` is the place of `run`: `Load`, `LoadFiles`,
`SelectAuthorizer`, `StartListeners` and `NotifyContext` in the order of the code,
each able to fail where it can; `ReceiveError` and `ReceiveSignal` are the select;
`CloseListener`, `Drained` and `DeadlinePassed` are one `Server.Shutdown` after the
other; `Stopped` is the return. `Bind`, `ListenerFails` and `Accept` belong to the
listeners' goroutines, `KilledEarly` is a signal nobody catches yet.

### What is abstracted

* A name is the sequence of its labels, `"*"` a label like any other, so that
  `globMatch` is modelled by what it does (also `.x`, which `*.x` does not match).
  Names that differ only in case are one name. Serials, secrets, org units and URI labels are opaque.
* IP and URI SANs, which every rule treats alike, are one set `others`. A
  fingerprint key of the inventory is matched like the serial key, and the `o`
  selector of a role rule like `ou`.
* Certificate expiry, revocation and the client-auth usage are part of "verifies
  under the anchor". `wellFormed` stands for the CMS and DER layers, the RSA
  bounds and proof of possession.
* `ReplyFails` is SCEP's alone: EST's `DegenerateCertsOnly` fails only without a
  certificate, and `checkIssued` has parsed one by then.
* OpenBao is external: a role may honour or ignore the names the broker sent,
  mirror the common name into the SANs, and choose any of `Lifetimes`. Each
  issued certificate has a serial of its own and chains to the device anchor.
* `Authorize` returns no error: the two inventories that exist never do.
  `MemoryStore` is modelled as the package offers it, although `main.go` wires
  only the static secret.
* `ExcludeCNFromSANs` is never set by the policy and is left out.
* In `BaoClient` time is in ticks, `Latency` is the deadline of a call
  (`UpstreamTimeout`, or five seconds for `/readyz`; ensureToken and the call after
  it share it) and `Tick` does not pass it. OpenBao cuts a renewal at `MaxTTL` and
  reports leases in whole seconds of `Sec` ticks; with `Sec = 1` nothing rounds.
* In `Limits` tokens are whole and rates are tokens per tick; a limiter configured
  off keeps no state and is left out. `MaxStale` bounds the time between clock and
  lock. The acquire timer may fire at any moment: nothing depends on its length. The
  sample an eviction looks at is any set of `SweepBudget` buckets, for Go's map
  iteration starts anywhere.
* In `Process` a configuration is what `Validate` and the constructors tell apart;
  YAML and PEM are readable or not. The deadline counts down from
  `ShutdownTimeout`. Requests are in flight or not; what they do is `Enrollment`.

## Runs

Every bound is a constant in the cfg. Deadlock is not checked for `Enrollment`,
`Limits` and `Process`: once the finite set of requests has ended, or the process
has, the system may stop. `ReplayCache` and `BaoClient` never stop, and their
deadlock check is on.

| Run | Question | Bounds and why they are enough |
|---|---|---|
| `replay_cache` | Do stale clocks, eviction and overflow break the once-per-TTL promise or the bound? | Two callers (one overtakes the other), three keys over two entries (so both kinds of eviction happen), TTL 2, clock to 5 (past two TTLs). 118k states |
| `replay_forgets` | Is a recorded pair refused thereafter, as the threat model says? | same. Violated |
| `est` | Names, proof, anchors, audit over all EST operations; do renewals drift? | Two requests: concurrent, or the second with the certificate of the first, over EST or SCEP (a chain of two renewals from a wildcard certificate without a common name; `NoRename` proves it for chains of any length). A certificate of each anchor and one of none; right, wrong and no secret; names inside and outside; lifetimes within and beyond the cap; one crash. 346k states |
| `scep` | Does a copy of a message issue? | Three requests over two messages, a one-entry table that overflows, TTL 1 and a clock to 1, one crash. 1.0M states |
| `otp` | Is a code good once, and does it wait for its device? | Two requests of either protocol, without or with a certificate of two candidate keys (its name and its serial), two codes that can replace or shadow each other and be guessed at, expiry, one retry, one crash with a copy of the SCEP message before and after it. 2.9M states |
| `live` | Does every request end? Do the handlers implement `Issuance`? | Two requests of either protocol, lifetimes within and beyond the cap, one retry (so a second certificate for one request), one crash, under `FairSpec`, without symmetry. 500k states |
| `token` | Do concurrent renewals and logins keep the token right? | Two callers (one's answer overtakes the other's), a deadline of one tick and a threshold of three (the ratio `HeldTokenInLease` needs; by default it is fifteen), TTL 4, maximum age 6 (so some renewals are cut and some are not), two tokens, one retry, one revocation, clock to 7 (past a whole token). 7.2M states |
| `zero_lease` | Is an expired token replaced? | As `token`, with two ticks to the second. Violated |
| `limits` | Slots, budgets, table and fairness between clients under stale clocks | Four requests of two clients (three of one and one that evicts it, the fewest that reach the bound of `BudgetKept`), a table for one, burst 1, one slot, instants up to one tick old, clock to 3. 1.3M states |
| `process` | Do `Validate` and the constructors agree? Draining, closing, ending | 257 configurations: all combinations of what bears on who may enrol, and every other defect; two requests on three listeners, a deadline of one tick, under `FairSpec`. 289k states |
| `unaudited` | Is every decision logged? | Violated |
| `key_types` | Are the allowed key types enforced? | Violated |

Fairness in `Enrollment` (`FairSpec`): weak fairness of each request's own steps. The Go
scheduler runs a goroutine that can run, no handler waits for another, both locks
are held for bounded work, and a call of OpenBao ends because its context carries
`UpstreamTimeout`. Nothing is assumed of clients, of the clock, or of OpenBao
answering; which of a request's steps is taken is left open.

In `Process` it is weak fairness of the goroutine of `run` and of the countdown;
requests may hang, listeners may never bind and no signal need come. `BaoClient`
and `Limits` state no fairness: a caller's path through `ensureToken` has no loop
but the bounded retries, and a waiter's timer can always fire, so that their
liveness would say nothing beyond the shape of the model.

### Where documentation and code part

* `replay_forgets`: a table full of live pairs is cleared, after which each of
  them is accepted again; the threat model says "refuses it thereafter" and names
  only restarts and replicas as exceptions.
* `unaudited`: an issued certificate without any "enrollment decision" line, when
  the SCEP reply cannot be encrypted to the signer or the answer does not decode.
* `key_types`: `policy.allowed_key_types` binds EST only.
* `zero_lease`: a lease reported as zero seconds because less than one was left is
  taken for a root token's, and the broker does not re-authenticate when the token
  expires.

Met while modelling, and without a run of their own: `VerifyIssued` does not look at
the common name when the decision has none (`NamesAuthorized` holds all the same in
identity and allowlist mode, because the only other common name a role can use is
the CSR's, which `Build` checked). A renewal near `token_max_ttl` succeeds with next
to no lease and `ensureToken` returns the token all the same (the exception in
`RenewedTokenInLease`). A bucket dropped as idle can come back fuller than it was to
a request that had read its instant before the drop (the `MaxStale` in
`BudgetKept`). An unknown `policy.san_constraint` passes start-up and denies every
request; a role rule without a role does so for the requests it matches.

After a restart the replay table is empty. With one-time codes a copy of a message then
meets an empty code store and needs a new code (`OneCertPerCode`); with a static secret
it is issued for again, which the threat model accepts (G13) and `ReplayNeverIssues`
therefore excepts.

## Proofs

All theorems hold for every value of the constants that satisfies the named
ASSUMEs (bounds are naturals, messages and factory certificates are well typed,
the inventory and the rules are what `Reload` and `Validate` accept), hence for
any number of requests, names, messages, crashes and renewals.

`ReplayCacheProofs`. The inductive invariant is `TypeOK` (which bounds every
expiry by the clock plus the TTL and every caller's instant by the clock), the
table bound, and `WindowBacked`: a window still open on the real clock is backed
by its table entry, or overflow took it. Staleness is harmless because a caller's
`now` is never ahead of the clock, so what it takes for expired is.
`NoEarlyRegrant` and `RefusedOnlyIfAnswered` follow for each step.

`AuthzProofs`. `globMatch` is reflexive and transitive (`GlobTransitive`), hence
so is "permitted by" on sets of names. `First` picks a match.

`EnrollmentProofs`.
* `TypeCorrect`, with `LocalOK`: what a goroutine holds depends on how far it is.
* `KnowInv`: what a request past `Authorize` knows – the decision is the one
  `Build` made for its identity; the answer's common name is one the role could
  choose; what is about to be sent passed `VerifyIssued`. Two theorems rest on it.
* `OnlyPermittedNames` (`NamesAuthorized`): by cases on the policy mode.
* `NoRename` (`IdentityContinuity`): `NamesAuthorized` speaks of one renewal;
  over a chain, the names of each certificate are the next one's patterns, and
  transitivity carries them back to the first.
* `AnchorsKept` (`AnchorPerOperation`): parsing establishes it and nothing later
  changes whom a request goes by; OpenBao issues only for requests past parsing. Key
  generation tries the device anchor and falls through to the bootstrap anchor.
* `AuditBelievable` (`AuditTruthful`): relates `pc`, the audit line, `issued` and
  `delivered` request by request.

`GateProofs`, on what OpenBao must not be made to issue, and on the codes. `OneStep` says what any step
does to one request (only its own steps touch what it holds, and OpenBao issues for it
only while it signs), so that each invariant is carried by the few steps it is about.
* `NoReplayIssues` (`ReplayNeverIssues`): the property speaks of certificates issued
  long after the check. `ReplayInv` ties them back: whoever got past the check is
  `Recorded`, that is, its message is refused until its TTL is over unless the table was
  emptied since, and any two that got past with one message are a TTL apart. A later copy
  is accepted only when the record has expired on its own, possibly stale, clock, hence
  on the real one.
* `ProofBeforeIssue` (`ProvenBeforeIssue`): `GateInv` says that registered codes are
  unspent and distinct (`CodesLive`), and that a request past `Authorize`, or for which
  OpenBao has issued, was proven then: by what a closed gate asks for, and with one-time
  codes by a code if it had a challenge to meet. Proof lasts: neither `Validate`, nor a code
  registered anew, nor a crash takes back that a code was spent.
* `CodePerCert` (`OneCertPerCode`): the code names the request that spent it and the
  key it was registered for. Several codes may be registered for a client with a
  certificate; the one that decides is one of its keys (`DecidingKeyOf`), and it is the
  one deleted. Without a certificate there is one key, the name asked for, and `KnowInv`
  gives that what is sent carries that very name.
* `CodesWait` (`CodesOutliveGuesses`), an action property: of the steps that change the
  store only `Authorize` removes single codes, and it removes the deciding one.

`PromiseProofs`.
* `BrokerKeepsPromise` (`Spec => KeepsPromise`): `Enrollment` implements `Issuance`.
  The mapping reads a request's abstract state off its `pc` (`Progress`: new, open
  up to `Authorize`, approved until it ends), takes the decision for the permit,
  `issued` for what was made and `delivered` for what is held, and "passes
  `VerifyIssued`" for `Within`. There is one lemma per kind of step: receiving is
  Take, `Authorize` is Approve or End, an attempt at OpenBao is Make whether or not
  the answer arrives, `Deliver` is Hand, each failure is End, `Restart` is Crash,
  and the rest stutter. The step needs two facts beyond types: from `KnowInv` that
  what is about to be sent passed `VerifyIssued`, and `HoldInv`, that the certificate
  a request holds is one OpenBao issued for it.
* `OneCertificateEach` (`HandedOnce`): `GivenInv` adds that a request with something
  delivered has ended, so nothing is delivered to it again, though retries and lost
  answers make OpenBao issue more than once.

`BaoClientProofs`. The mutex is not held across calls, so an answer may arrive after
another caller has replaced the token it was about. The invariant therefore dates what a
caller holds by the instant its call began. `CallOK` says per `pc`: a call is at most one
deadline old; between a renewal's answer and its recording the client's token runs, if
not to its maximum age, as long as a first lease from the start of that call, up to one
deadline; a login's answer is a token that runs a first lease from then. `TokenOK` bounds
what OpenBao grants. No token's lease ever shrinks (`Grows`), so what one caller knows
survives the others' steps (`CallKept`); only a login's answer changes the client's token,
and it puts there one no worse than what the others rely on.
* `ExpiryIsTracked`: of the two deadlines, one is the answer's age, the other that of the
  token another caller put in the renewed one's place.
* `HeldTokensLast`, `FreshTokensLast`, `RenewedTokensLast`, `OutageEnds` follow state by
  state. Their provisos (threshold of three deadlines, first lease above two, seconds as
  ticks where OpenBao's rounding matters) are those of the properties; `zero_lease`
  shows what happens without the last.

`ProcessProofs`.
* `OnlyGatedServes` (`NeverServesUngated`): `PInv` says that construction goes
  through its stages in order, so that what listens was built from a configuration
  `Validate` and every constructor accepted, and that only a listener of such a
  process accepts.
* `DrainedToTheDeadline` and `AllShutDown` (`CutOnlyAtDeadline`,
  `StoppedMeansClosed`): `EInv` says of each listener, by its place in the shutdown
  order, that it still waits for its turn, or never started, or is closed with
  nothing in flight unless the deadline has passed.
* `TypeCorrect`: a listener's goroutine reports at most one error and then is over,
  so that the channel's three places suffice (`ReportInv`).

`LimitsProofs`.
* `SlotsKept` (`SlotsAccounted`): the set of requests being served is finite and
  has as many members as slots are taken, at most `MaxConcurrent`; `AcquireNow`,
  `AcquireLater` and `Release` change both by one, every other step (a wait that
  ends included) neither.
* `TableKept` (`TrackedClientsBounded`): a client not yet tracked is added only
  after eviction, and eviction at the bound takes at least one bucket whatever the
  instant it is given.

* `TypeCorrect` and `OwnFault` (`OwnFaultOnly`): `FreshInv` bounds the age of the
  instant a request holds between clock and lock, and `BucketInv` compares each bucket
  with the one its client would have had alone, never evicted: the real one is never the
  emptier, and was never refilled later. Eviction replaces a bucket by a full one, and a
  stale instant refills either by the same amount or the real one by more; so whoever is
  refused would have been refused alone.
* `BudgetsHold` (`BudgetKept`): the property compares pairs of admissions, and is not
  inductive. `SpentInv` adds for every past admission that what was admitted since,
  together with the tokens still in the bucket, is at most a burst and the refills since;
  and that a client whose bucket was evicted when idle has nothing beyond the refills
  behind it, so that the full bucket it comes back to is within its budget. A bucket
  opened with a stale instant gains that much refill once, which is what `opened` counts.

The inductive invariants were checked by TLC on the instances of the runs before they
were proved.

Only model-checked: `EveryRequestEnds` and `StopsInTheEnd`, for liveness under fairness
is beyond this prover; every other property of a passing run is a theorem.

## Not modelled

CMS, PKCS#7, PEM and HTTP plumbing are stateless encodings, whose outcomes are
fields of the messages. `cacerts`, `csrattrs`, `GetCACert`, `GetCACaps` and the
health handlers change nothing but the token, which `BaoClient` models for any
caller. `DenyAll` is a development stand-in (`AllowAllEcho` is an authorizer kind of
`Process`), `baotest` is test support. `FileInventory.Reload` is called only at
start-up. Backoff times and HTTP time-outs matter only in that a call ends.

## Plan

1. Done: replay cache, authorization, enrolment; token, limits, process; the
   refinement of `Issuance`; their runs and first theorems.
2. Done: a theorem for every safety property of the passing runs.
3. Left: lemmas that say more of the pipeline's operators than the properties need
   (which role rule and which policy mode decide), and the safety half of
   `EveryRequestEnds`: what a request that cannot move is waiting for.
