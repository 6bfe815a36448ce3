----------------------------- MODULE Enrollment -----------------------------
(***************************************************************************)
(* The broker at work: EST (/simpleenroll, /simplereenroll, /serverkeygen)   *)
(* and SCEP (PKIOperation) requests running concurrently against the shared *)
(* replay cache and one-time codes, the OpenBao PKI that issues for them,   *)
(* and devices that come back later with the certificates they were given.  *)
(*                                                                         *)
(* One action is what a request goroutine does between two touches of shared *)
(* state: parse and identify the client; the replay check under its mutex;  *)
(* Authorize, whose challenge stage takes the code store's mutex; each      *)
(* attempt at OpenBao; the check of what came back and its audit line; the   *)
(* write to the client. A process crash can fall between any two of them.   *)
(***************************************************************************)
EXTENDS Authz, ReplayTable

CONSTANTS
    Reqs,             \* the requests that arrive, one goroutine each
    EstMessages,      \* EST requests a client may send, apart from its peer cert
    ScepMessages,     \* SCEP messages a client may send, apart from the signer
    FactoryCerts,     \* certificates that exist before the broker issues any
    Anchors,          \* the trust pools configured: "device", "bootstrap"
    AllowedKeyTypes,  \* policy.allowed_key_types; {} allows any recognised type
    Lifetimes,        \* lifetimes OpenBao may give a certificate
    CodeIds,          \* the one-time codes an operator registers, one Add each
    CodeKeys,         \* the names and serials they are registered for
    NoReq,            \* no request
    OTPTTL,           \* validity of a one-time code
    MaxRetries,       \* bao.Config.MaxRetries
    MaxClock,         \* bound on the clock
    MaxRestarts       \* bound on process crashes

ASSUME BoundsAssumption ==
    OTPTTL \in Nat /\ MaxRetries \in Nat /\ MaxClock \in Nat /\ MaxRestarts \in Nat
ASSUME LifetimesAssumption == Lifetimes \subseteq Nat
ASSUME CodeKeysAssumption == CodeKeys \subseteq Names \cup Tokens
ASSUME ReqsAssumption == NoReq \notin Reqs
\* config.Validate: at least one trust anchor.
ASSUME AnchorsAssumption == Anchors # {} /\ Anchors \subseteq {"device", "bootstrap"}

CSR == [cn : OptName, dns : SUBSET Names, others : SUBSET Others]

\* `wellFormed`: the body is readable, decodes, and carries a CSR that passes
\* the RSA bounds and proof of possession (for SCEP also the CMS layers and the
\* mandatory attributes). `keyType` is the CSR's key; "unknown" is one KeyType
\* does not recognise.
EstMessage == [op : {"simpleenroll", "simplereenroll", "serverkeygen"}, csr : CSR,
               keyType : STRING, wellFormed : BOOLEAN,
               pw : OptPassword, label : OptToken]
\* `signerRSA`: the signer's key is RSA, so that a reply can be encrypted to it.
ScepMessage == [op : {"simpleenroll", "simplereenroll"}, csr : CSR,
                keyType : STRING, wellFormed : BOOLEAN, pw : OptPassword,
                label : {NoToken}, key : ReplayKeys, signerRSA : BOOLEAN]

\* A certificate: its names, org units, lifetime and serial, the anchors it
\* verifies under, and `origin` (history): the names of the certificate that
\* the chain of renewals leading to it started from.
Cert == [cn : OptName, dns : SUBSET Names, others : SUBSET Others,
         ou : SUBSET Tokens, life : Nat, serial : OptToken \cup (Reqs \X Nat),
         anchors : SUBSET {"device", "bootstrap"}, origin : SUBSET OptName]

ASSUME MessagesAssumption ==
    EstMessages \subseteq EstMessage /\ ScepMessages \subseteq ScepMessage
ASSUME FactoryAssumption ==
    /\ FactoryCerts \subseteq Cert
    /\ \A c \in FactoryCerts : c.origin = {c.cn} \cup c.dns

NoMsg == [none |-> TRUE]
Garbled == [garbled |-> TRUE]   \* an answer whose certificate does not decode
NoConstraints == [cn |-> NoName, dns |-> {}, others |-> {}, ttl |-> 0]
Undecided == [allow |-> FALSE, role |-> NoRole, cons |-> NoConstraints]

VARIABLES
    pc,         \* where each request's goroutine is
    proto,      \* "est" or "scep"
    msg,        \* what the client sent
    client,     \* the verified client certificate handed to Authorize
    now,        \* ReplayCache.Check's clock reading (SCEP)
    decision,   \* authz.Decision
    attempts,   \* tries made at OpenBao
    bundle,     \* the certificate OpenBao answered with
    audit,      \* outcome of the request's "enrollment decision" line
    clock, seen, codes,   \* the clock, ReplayCache.seen, MemoryStore.codes
    restarts,   \* crashes so far
    issued,     \* history: certificates OpenBao issued, and for which request
    delivered,  \* history: those that reached the client
    accepted,   \* history: when and in which generation a replay check passed
    resets,     \* history: times the replay table was emptied
    spent       \* history: which request consumed each one-time code

local == <<pc, proto, msg, client, now, decision, attempts, bundle, audit>>
shared == <<clock, seen, codes, restarts>>
history == <<issued, delivered, accepted, resets, spent>>
vars == <<local, shared, history>>

NotAccepted == [read |-> 0, at |-> 0, gen |-> 0]
Unspent == [by |-> NoReq, key |-> NoName]

Init ==
    /\ pc = [r \in Reqs |-> "idle"]
    /\ proto = [r \in Reqs |-> "est"]
    /\ msg = [r \in Reqs |-> NoMsg]
    /\ client = [r \in Reqs |-> NoCert]
    /\ now = [r \in Reqs |-> 0]
    /\ decision = [r \in Reqs |-> Undecided]
    /\ attempts = [r \in Reqs |-> 0]
    /\ bundle = [r \in Reqs |-> NoCert]
    /\ audit = [r \in Reqs |-> "none"]
    /\ clock = 0 /\ seen = EmptyTable /\ codes = EmptyTable /\ restarts = 0
    /\ issued = {} /\ delivered = {}
    /\ accepted = [r \in Reqs |-> NotAccepted]
    /\ resets = 0
    /\ spent = [i \in CodeIds |-> Unspent]

-----------------------------------------------------------------------------
(* Who the client is                                                       *)

\* A client can present any factory certificate, one it was given, or none.
Presentable == FactoryCerts \cup {d.cert : d \in delivered} \cup {NoCert}

\* VerifyPeer and cms.VerifyChain: the leaf chains to the pool.
Verifies(cert, anchor) ==
    cert # NoCert /\ anchor \in Anchors /\ anchor \in cert.anchors

BootstrapOrNothing(peer) == IF Verifies(peer, "bootstrap") THEN peer ELSE NoCert

\* clientIdentity, for the operations that refuse nothing.
ClientIdentity(op, peer) ==
    CASE op = "simplereenroll" -> peer
      [] op = "serverkeygen" /\ Verifies(peer, "device") -> peer
      [] OTHER -> BootstrapOrNothing(peer)

\* Mutated form: any certificate will do.
ReenrollWithAnyPeer(op, peer) == op = "simplereenroll" => peer # NoCert

\* Re-enrolment demands a certificate under the device anchor.
IdentityAccepted(op, peer) == op = "simplereenroll" => Verifies(peer, "device")

\* ValidateKeyType.
KeyTypeAllowed(kt) == kt # "unknown" /\ (AllowedKeyTypes # {} => kt \in AllowedKeyTypes)

EstAdmits(m, peer) ==
    m.wellFormed /\ KeyTypeAllowed(m.keyType) /\ IdentityAccepted(m.op, peer)

\* Parser.Parse: a RenewalReq must be signed under the device anchor.
ScepAdmits(m, signer) == m.wellFormed /\ IdentityAccepted(m.op, signer)

\* Mutated form: the self-signed signer of a first enrolment is trusted.
ScepTrustsAnySigner(m, signer) == signer

\* authzRequest: the signer counts only when Parse authenticated it.
ScepIdentity(m, signer) == IF m.op = "simplereenroll" THEN signer ELSE NoCert

-----------------------------------------------------------------------------
(* The steps of a request                                                  *)

Close(r, outcome) ==
    /\ pc' = [pc EXCEPT ![r] = "closed"]
    /\ audit' = [audit EXCEPT ![r] = outcome]

\* enroll / serverKeyGen up to the call of Authorize.
EstReceive(r) ==
    /\ pc[r] = "idle"
    /\ \E m \in EstMessages, peer \in Presentable :
          /\ msg' = [msg EXCEPT ![r] = m]
          /\ proto' = [proto EXCEPT ![r] = "est"]
          /\ IF EstAdmits(m, peer)
             THEN /\ client' = [client EXCEPT ![r] = ClientIdentity(m.op, peer)]
                  /\ pc' = [pc EXCEPT ![r] = "authorize"]
             ELSE /\ pc' = [pc EXCEPT ![r] = "closed"]
                  /\ UNCHANGED client
    /\ UNCHANGED <<now, decision, attempts, bundle, audit, shared, history>>

\* pkiOperation: read and Parse, then enter ReplayCache.Check, which reads the
\* clock before it locks.
ScepReceive(r) ==
    /\ pc[r] = "idle"
    /\ \E m \in ScepMessages, signer \in Presentable :
          /\ msg' = [msg EXCEPT ![r] = m]
          /\ proto' = [proto EXCEPT ![r] = "scep"]
          /\ IF ScepAdmits(m, signer)
             THEN /\ client' = [client EXCEPT ![r] = ScepIdentity(m, signer)]
                  /\ now' = [now EXCEPT ![r] = clock]
                  /\ pc' = [pc EXCEPT ![r] = "replay"]
             ELSE /\ pc' = [pc EXCEPT ![r] = "closed"]
                  /\ UNCHANGED <<client, now>>
    /\ UNCHANGED <<decision, attempts, bundle, audit, shared, history>>

\* A replayed message is answered with a failure and not audited.
ScepReplayed(r) ==
    /\ pc[r] = "replay"
    /\ IsReplay(seen, msg[r].key, now[r])
    /\ pc' = [pc EXCEPT ![r] = "closed"]
    /\ UNCHANGED <<proto, msg, client, now, decision, attempts, bundle, audit,
                   shared, history>>

ScepFresh(r) ==
    /\ pc[r] = "replay"
    /\ ~IsReplay(seen, msg[r].key, now[r])
    /\ seen' = Record(seen, msg[r].key, now[r])
    /\ resets' = IF Overflows(seen, now[r]) THEN resets + 1 ELSE resets
    /\ accepted' = [accepted EXCEPT ![r] =
                       [read |-> now[r], at |-> clock, gen |-> resets']]
    /\ pc' = [pc EXCEPT ![r] = "authorize"]
    /\ UNCHANGED <<proto, msg, client, now, decision, attempts, bundle, audit,
                   clock, codes, restarts, issued, delivered, spent>>

IdentityOf(r) == ResolveIdentity(client[r], msg[r].csr, msg[r].label)

\* Pipeline.Authorize. Its only shared state is the code store, which Validate
\* holds locked from the lookup to the deletion.
Authorize(r) ==
    LET id == IdentityOf(r)
        pw == msg[r].pw
        ok == Allows(msg[r].op, id, pw, codes, clock)
        left == CodesAfterAuthorize(msg[r].op, id, pw, codes, clock)
    IN  /\ pc[r] = "authorize"
        /\ codes' = left
        /\ spent' = [i \in CodeIds |->
              IF UsesCode(msg[r].op, id, pw, codes, clock)
                 /\ codes[DecidingKey(id, codes)].id = i
              THEN [by |-> r, key |-> DecidingKey(id, codes)] ELSE spent[i]]
        /\ IF ok
           THEN /\ decision' = [decision EXCEPT ![r] =
                      [allow |-> TRUE, role |-> RoleFor(id, Lookup(id)),
                       cons |-> ConstraintsFor(id)]]
                /\ pc' = [pc EXCEPT ![r] = "sign"]
                /\ UNCHANGED audit
           ELSE /\ Close(r, "deny")
                /\ UNCHANGED decision
        /\ UNCHANGED <<proto, msg, client, now, attempts, bundle, clock, seen,
                       restarts, issued, delivered, accepted, resets>>

-----------------------------------------------------------------------------
(* OpenBao (external): what pki/sign and pki/issue may put in a certificate *)

\* Common names the role may choose: the one the broker sent, or the CSR's when
\* the role has use_csr_common_name. pki/issue sees no CSR.
RoleCNs(r) ==
    IF msg[r].op = "serverkeygen" THEN {decision[r].cons.cn}
    ELSE {decision[r].cons.cn, msg[r].csr.cn}

\* DNS SANs likewise (use_csr_sans), with the common name mirrored or not.
RoleDNS(r, cn) ==
    LET sent == decision[r].cons.dns
        asked == IF msg[r].op = "serverkeygen" THEN sent ELSE msg[r].csr.dns
    IN {sent, asked, sent \cup OptCN(cn), asked \cup OptCN(cn)}

RoleOthers(r) ==
    IF msg[r].op = "serverkeygen" THEN {decision[r].cons.others}
    ELSE {decision[r].cons.others, msg[r].csr.others}

\* Every issued certificate has a serial of its own and chains to the device
\* anchor.
IssuedCert(r, cn, dns, others, life) ==
    [cn |-> cn, dns |-> dns, others |-> others, ou |-> {}, life |-> life,
     serial |-> <<r, attempts[r]>>, anchors |-> {"device"},
     origin |-> IF client[r] # NoCert THEN client[r].origin ELSE {cn} \cup dns]

FreshCerts(r) ==
    UNION {{IssuedCert(r, cn, dns, others, life) :
               dns \in RoleDNS(r, cn), others \in RoleOthers(r), life \in Lifetimes} :
           cn \in RoleCNs(r)}

\* Mutated form: the loop counts one retry too many.
MayTryOnceMore(r) == pc[r] = "sign" /\ attempts[r] <= MaxRetries + 1

\* doRequest's loop: one more attempt may be made.
MayTry(r) == pc[r] = "sign" /\ attempts[r] <= MaxRetries

\* OpenBao issues and the answer comes back whole.
SignAnswered(r) ==
    /\ MayTry(r)
    /\ \E c \in FreshCerts(r) :
          /\ issued' = issued \cup {[cert |-> c, by |-> r]}
          /\ bundle' = [bundle EXCEPT ![r] = c]
    /\ attempts' = [attempts EXCEPT ![r] = @ + 1]
    /\ pc' = [pc EXCEPT ![r] = "verify"]
    /\ UNCHANGED <<proto, msg, client, now, decision, audit, shared,
                   delivered, accepted, resets, spent>>

\* OpenBao issues and answers 200 with a certificate that does not decode.
SignGarbled(r) ==
    /\ MayTry(r)
    /\ \E c \in FreshCerts(r) : issued' = issued \cup {[cert |-> c, by |-> r]}
    /\ bundle' = [bundle EXCEPT ![r] = Garbled]
    /\ attempts' = [attempts EXCEPT ![r] = @ + 1]
    /\ pc' = [pc EXCEPT ![r] = "verify"]
    /\ UNCHANGED <<proto, msg, client, now, decision, audit, shared,
                   delivered, accepted, resets, spent>>

\* OpenBao issues, and the answer is lost or is a 5xx: the loop tries again.
SignLost(r) ==
    /\ MayTry(r)
    /\ \E c \in FreshCerts(r) : issued' = issued \cup {[cert |-> c, by |-> r]}
    /\ attempts' = [attempts EXCEPT ![r] = @ + 1]
    /\ UNCHANGED <<pc, proto, msg, client, now, decision, bundle, audit, shared,
                   delivered, accepted, resets, spent>>

\* The attempt fails before anything is issued: network error or 5xx.
SignFailed(r) ==
    /\ MayTry(r)
    /\ attempts' = [attempts EXCEPT ![r] = @ + 1]
    /\ UNCHANGED <<pc, proto, msg, client, now, decision, bundle, audit, shared,
                   history>>

\* Mutated form: the loop runs out of attempts without returning.
SignErrorWhileTrying(r) ==
    /\ MayTry(r)
    /\ Close(r, "issue-error")
    /\ UNCHANGED <<proto, msg, client, now, decision, attempts, bundle, shared,
                   history>>

\* Sign / Issue returns an error: no token, 4xx, attempts exhausted, an empty answer, or
\* the upstream timeout or the client's disconnect cancelling the context.
SignError(r) ==
    /\ pc[r] = "sign"
    /\ Close(r, "issue-error")
    /\ UNCHANGED <<proto, msg, client, now, decision, attempts, bundle, shared,
                   history>>

-----------------------------------------------------------------------------
(* The answer                                                              *)

\* The certificate does not decode (singleCertDER, singleBlockDER or
\* parseFirstCert fails): an error answer, and no audit line.
Undecodable(r) ==
    /\ pc[r] = "verify" /\ bundle[r] = Garbled
    /\ pc' = [pc EXCEPT ![r] = "closed"]
    /\ UNCHANGED <<proto, msg, client, now, decision, attempts, bundle, audit,
                   shared, history>>

\* VerifyIssued objects, or EST's checkIssued cannot parse what singleCertDER
\* decoded: the certificate exists, and is withheld.
Withhold(r) ==
    /\ pc[r] = "verify"
    /\ IF bundle[r] = Garbled THEN proto[r] = "est"
       ELSE ~VerifyIssued(bundle[r], decision[r].cons)
    /\ Close(r, "constraint-violation")
    /\ UNCHANGED <<proto, msg, client, now, decision, attempts, bundle,
                   shared, history>>

\* Responder.Success cannot encrypt to a non-RSA signer: HTTP 500, no audit line.
\* EST's DegenerateCertsOnly fails only without a certificate, and checkIssued has
\* parsed one by then.
ReplyFails(r) ==
    /\ pc[r] = "verify" /\ bundle[r] # Garbled
    /\ VerifyIssued(bundle[r], decision[r].cons)
    /\ proto[r] = "scep" /\ ~msg[r].signerRSA
    /\ pc' = [pc EXCEPT ![r] = "closed"]
    /\ UNCHANGED <<proto, msg, client, now, decision, attempts, bundle, audit,
                   shared, history>>

\* Mutated form: the reply is sent off before its audit line is written.
ReplyUnaudited(r) ==
    /\ pc[r] = "verify" /\ bundle[r] # Garbled
    /\ VerifyIssued(bundle[r], decision[r].cons)
    /\ proto[r] = "scep" => msg[r].signerRSA
    /\ pc' = [pc EXCEPT ![r] = "respond"]
    /\ UNCHANGED <<proto, msg, client, now, decision, attempts, bundle, audit,
                   shared, history>>

\* Mutated form: what OpenBao answered goes out unchecked.
ReplyUnverified(r) ==
    /\ pc[r] = "verify" /\ bundle[r] # Garbled
    /\ proto[r] = "scep" => msg[r].signerRSA
    /\ pc' = [pc EXCEPT ![r] = "respond"]
    /\ audit' = [audit EXCEPT ![r] = "issued"]
    /\ UNCHANGED <<proto, msg, client, now, decision, attempts, bundle,
                   shared, history>>

\* The reply is built and the audit line written, before the reply is sent.
Reply(r) ==
    /\ pc[r] = "verify" /\ bundle[r] # Garbled
    /\ VerifyIssued(bundle[r], decision[r].cons)
    /\ proto[r] = "scep" => msg[r].signerRSA
    /\ pc' = [pc EXCEPT ![r] = "respond"]
    /\ audit' = [audit EXCEPT ![r] = "issued"]
    /\ UNCHANGED <<proto, msg, client, now, decision, attempts, bundle,
                   shared, history>>

\* Mutated form: the handler does not return, and may write again.
DeliverAndGoOn(r) ==
    /\ pc[r] = "respond"
    /\ delivered' = delivered \cup {[cert |-> bundle[r], by |-> r]}
    /\ UNCHANGED <<local, shared, issued, accepted, resets, spent>>

\* The response reaches the client ...
Deliver(r) ==
    /\ pc[r] = "respond"
    /\ pc' = [pc EXCEPT ![r] = "closed"]
    /\ delivered' = delivered \cup {[cert |-> bundle[r], by |-> r]}
    /\ UNCHANGED <<proto, msg, client, now, decision, attempts, bundle, audit,
                   shared, issued, accepted, resets, spent>>

\* ... or the connection is gone: nothing in the handler notices.
ResponseLost(r) ==
    /\ pc[r] = "respond"
    /\ pc' = [pc EXCEPT ![r] = "closed"]
    /\ UNCHANGED <<proto, msg, client, now, decision, attempts, bundle, audit,
                   shared, history>>

-----------------------------------------------------------------------------
(* The environment                                                         *)

\* MemoryStore.Add: an operator registers code i for key k, replacing the one
\* already there. A code still registered is not registered a second time.
AddCode(i) ==
    /\ ChallengeBackend = "memory"
    /\ spent[i] = Unspent
    /\ \A k \in DOMAIN codes : codes[k].id # i
    /\ \E k \in CodeKeys, pw \in Passwords :
          codes' = [j \in DOMAIN codes \cup {k} |->
                       IF j = k THEN [secret |-> pw, expires |-> clock + OTPTTL, id |-> i]
                                ELSE codes[j]]
    /\ UNCHANGED <<local, clock, seen, restarts, history>>

Tick ==
    /\ clock < MaxClock
    /\ clock' = clock + 1
    /\ UNCHANGED <<local, seen, codes, restarts, history>>

\* The process dies and restarts: requests in flight are gone, and so are the
\* replay cache and the one-time codes, which live in its memory.
Restart ==
    /\ restarts < MaxRestarts
    /\ restarts' = restarts + 1
    /\ pc' = [r \in Reqs |-> IF pc[r] \in {"idle", "closed"} THEN pc[r] ELSE "crashed"]
    /\ seen' = EmptyTable
    /\ codes' = EmptyTable
    /\ resets' = resets + 1
    /\ UNCHANGED <<proto, msg, client, now, decision, attempts, bundle, audit,
                   clock, issued, delivered, accepted, spent>>

RequestStep(r) ==
    \/ ScepReplayed(r) \/ ScepFresh(r) \/ Authorize(r)
    \/ SignAnswered(r) \/ SignGarbled(r) \/ SignLost(r) \/ SignFailed(r) \/ SignError(r)
    \/ Undecodable(r) \/ Withhold(r) \/ ReplyFails(r) \/ Reply(r)
    \/ Deliver(r) \/ ResponseLost(r)

Next ==
    \/ \E r \in Reqs : EstReceive(r) \/ ScepReceive(r) \/ RequestStep(r)
    \/ \E i \in CodeIds : AddCode(i)
    \/ Tick
    \/ Restart

Spec == Init /\ [][Next]_vars

\* A goroutine that can run does run, and an OpenBao call ends: its context
\* expires after UpstreamTimeout if nothing else ends it.
FairSpec == Spec /\ \A r \in Reqs : WF_vars(RequestStep(r))

-----------------------------------------------------------------------------
(* Correctness                                                             *)

PCs == {"idle", "replay", "authorize", "sign", "verify", "respond", "closed", "crashed"}
Outcomes == {"none", "deny", "issue-error", "constraint-violation", "issued"}

(* The types of the handlers' locals, of the shared stores and of what       *)
(* OpenBao and the clients hold.                                            *)
TypeOK ==
    /\ pc \in [Reqs -> PCs]
    /\ proto \in [Reqs -> {"est", "scep"}]
    /\ msg \in [Reqs -> EstMessages \cup ScepMessages \cup {NoMsg}]
    /\ client \in [Reqs -> Cert \cup {NoCert}]
    /\ now \in [Reqs -> Nat]
    /\ decision \in [Reqs -> [allow : BOOLEAN, role : Roles \cup {NoRole},
                               cons : Constraints]]
    /\ attempts \in [Reqs -> 0..(MaxRetries + 1)]
    /\ bundle \in [Reqs -> Cert \cup {NoCert, Garbled}]
    /\ audit \in [Reqs -> Outcomes]
    /\ clock \in Nat /\ restarts \in Nat /\ resets \in Nat
    /\ DOMAIN seen \subseteq ReplayKeys /\ \A k \in DOMAIN seen : seen[k] \in Nat
    /\ issued \subseteq [cert : Cert, by : Reqs]
    /\ delivered \subseteq [cert : Cert, by : Reqs]
    /\ accepted \in [Reqs -> [read : Nat, at : Nat, gen : Nat]]

NamesOn(cert) == OptCN(cert.cn) \cup cert.dns

\* The patterns policy lets the names on r's certificate come from.
PermittedFor(r) ==
    IF PinsIdentity(IdentityOf(r)) THEN {client[r].cn} \cup client[r].dns
    ELSE Lookup(IdentityOf(r)).allowed

\* A device pinned to its certificate is not given another common name.
KeepsCN(cert, r) ==
    (PinsIdentity(IdentityOf(r)) /\ client[r].cn # NoName) => cert.cn = client[r].cn

(* Unless policy is set to trust the CSR, every name on a certificate that    *)
(* reaches a client is one the authenticated identity or the inventory record *)
(* permits, an authenticated device keeps the common name it has, no IP or    *)
(* URI SAN appears and no cap is outlived - whatever names and lifetime the   *)
(* OpenBao role let through (VerifyIssued).                                  *)
NamesAuthorized ==
    \A d \in delivered :
        /\ Mode # "csr" => /\ AllAllowed(NamesOn(d.cert), PermittedFor(d.by))
                           /\ d.cert.others = {}
        /\ KeepsCN(d.cert, d.by)
        /\ MaxValidity > 0 => d.cert.life <= MaxValidity + TTLSlack

SecretProved(r) ==
    CASE ChallengeBackend = "static" -> msg[r].pw = StaticSecret
      [] ChallengeBackend = "memory" -> \E i \in CodeIds : spent[i].by = r
      [] OTHER -> FALSE

(* OpenBao is never made to issue for a requester who proved nothing: each    *)
(* certificate it issued, delivered or not, was asked for under a verified    *)
(* client certificate or a secret that validated (the gate, threat model T14), *)
(* unless the operator opened the gate.                                       *)
ProvenBeforeIssue ==
    ~AllowUnauthenticated =>
        \A i \in issued : client[i.by] # NoCert \/ SecretProved(i.by)

(* Each operation trusts its own anchor: a renewal is issued only under the   *)
(* device anchor, a first enrolment is authenticated only under the bootstrap *)
(* anchor and, over SCEP, never (the PKCSReq signer is self-signed, T15), and *)
(* a key is generated for no identity but one under the one or the other.     *)
AnchorPerOperation ==
    \A i \in issued :
        /\ msg[i.by].op = "simplereenroll" => Verifies(client[i.by], "device")
        /\ msg[i.by].op = "simpleenroll" =>
              \/ client[i.by] = NoCert
              \/ proto[i.by] = "est" /\ Verifies(client[i.by], "bootstrap")
        /\ msg[i.by].op = "serverkeygen" =>
              \/ client[i.by] = NoCert
              \/ proto[i.by] = "est" /\ \E a \in Anchors : Verifies(client[i.by], a)

(* In identity mode a device may re-key but not rename itself, over any       *)
(* number of renewals, protocols and restarts: every name on a certificate    *)
(* descends from the names of the certificate the chain began with.           *)
IdentityContinuity ==
    Mode = "identity" =>
        \A d \in delivered : AllAllowed(NamesOn(d.cert), d.cert.origin)

\* r has a challenge to meet: it answered one, its record or policy asks for one,
\* or nothing else authenticates it.
MustPay(r) ==
    \/ msg[r].pw # NoPassword
    \/ ChallengeRequired(Lookup(IdentityOf(r)))
    \/ client[r] = NoCert /\ ~AllowUnauthenticated

\* What r can be known to the operator by.
KeysOf(r) ==
    {msg[r].csr.cn} \cup
    IF client[r] = NoCert THEN {} ELSE {client[r].cn, client[r].serial}

(* With one-time codes, every certificate handed to a request that had a      *)
(* challenge to meet was paid for by a code of its own, registered for a name *)
(* or serial of the request - for a client without a certificate, for the    *)
(* very name on it. No interleaving, retry, copy of the message or crash, and  *)
(* no second code that shadows the first, makes a code good twice.           *)
OneCertPerCode ==
    ChallengeBackend = "memory" =>
        \A d \in delivered : MustPay(d.by) =>
            \E i \in CodeIds :
                /\ spent[i].by = d.by
                /\ spent[i].key \in KeysOf(d.by)
                /\ client[d.by] = NoCert => spent[i].key = d.cert.cn

\* The step is r's challenge, answered with the secret of the code k has.
RedeemedBy(r, k) ==
    /\ pc[r] = "authorize" /\ pc'[r] # "authorize"
    /\ msg[r].pw = codes[k].secret /\ k \in KeysOf(r)

(* A code waits for its device: it goes only when it has expired, when the    *)
(* process dies or when a request that goes by its key presents its secret.   *)
(* Neither a wrong guess nor a request that another key's code decides uses  *)
(* it up.                                                                  *)
CodesOutliveGuesses ==
    [][\A k \in DOMAIN codes \ DOMAIN codes' :
          \/ restarts' > restarts
          \/ CodeExpired(codes[k], clock)
          \/ \E r \in Reqs : RedeemedBy(r, k)]_vars

(* One SCEP message makes OpenBao issue for at most one request within the    *)
(* replay TTL, however many copies of it arrive on however many connections,  *)
(* unless the replay table was emptied in between.                            *)
ReplayNeverIssues ==
    \A i, j \in issued :
        (/\ i.by # j.by
         /\ proto[i.by] = "scep" /\ proto[j.by] = "scep"
         /\ msg[i.by].key = msg[j.by].key
         /\ accepted[i.by].gen = accepted[j.by].gen)
          => \/ accepted[j.by].at >= accepted[i.by].read + ReplayTTL
             \/ accepted[i.by].at >= accepted[j.by].read + ReplayTTL

IssuedFor(r) == {i \in issued : i.by = r}
DeliveredFor(r) == {d \in delivered : d.by = r}

(* The audit log can be believed, also across a crash: a denied request made  *)
(* OpenBao issue nothing, a certificate reached a client only after its       *)
(* "issued" line was written, and what a line reports withheld stayed so.     *)
AuditTruthful ==
    \A r \in Reqs :
        /\ audit[r] = "deny" => IssuedFor(r) = {}
        /\ DeliveredFor(r) # {} => audit[r] = "issued"
        /\ audit[r] \in {"issued", "constraint-violation"} => IssuedFor(r) # {}

(* Every request the broker takes on comes to an end, whatever OpenBao does   *)
(* with its attempts, unless the process crashes under it.                   *)
EveryRequestEnds ==
    \A r \in Reqs : pc[r] # "idle" ~> pc[r] \in {"closed", "crashed"}

\* A request's progress, as Issuance sees it.
Progress(r) ==
    CASE pc[r] = "idle" -> "new"
      [] pc[r] \in {"replay", "authorize"} -> "open"
      [] pc[r] \in {"sign", "verify", "respond"} -> "approved"
      [] OTHER -> "ended"

Promise == INSTANCE Issuance WITH
    NoPermit <- NoConstraints, Within <- VerifyIssued,
    state <- [r \in Reqs |-> Progress(r)],
    permit <- [r \in Reqs |-> decision[r].cons],
    made <- issued, held <- delivered

(* The handlers, the pipeline, the retries at OpenBao and the crashes together *)
(* implement Issuance: one decision, never altered once OpenBao is called; one *)
(* certificate at most, checked against that very decision.                  *)
KeepsPromise == Promise!Spec

(* What follows for a client and an auditor: however often OpenBao was tried    *)
(* for it, no request is handed two certificates, and the one it is handed     *)
(* keeps to the decision it was approved under.                              *)
HandedOnce == Promise!HandedOnceWithinPermit

-----------------------------------------------------------------------------
(* What the documentation says and the code does not do                     *)

(* docs/runbook.md:238: every enrollment decision logs an "enrollment         *)
(* decision" line - so a request Authorize allowed does not end without one.  *)
EveryDecisionAudited ==
    \A r \in Reqs :
        (decision[r].allow /\ pc[r] = "closed") => audit[r] # "none"

(* internal/config/config.go:138: policy.allowed_key_types is enforced before *)
(* calling OpenBao.                                                          *)
KeyTypesEnforced ==
    \A i \in issued : KeyTypeAllowed(msg[i.by].keyType)
=============================================================================
