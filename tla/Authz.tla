------------------------------- MODULE Authz -------------------------------
(***************************************************************************)
(* Package authz: the decision "may this device have this certificate?"    *)
(* (Pipeline.Authorize) and the check of what OpenBao then issued           *)
(* (VerifyIssued), as operators on the request, the inventory and the       *)
(* one-time codes.                                                         *)
(*                                                                         *)
(* A name is the sequence of its labels, "*" a label like any other, and    *)
(* <<>> the absent name ("" in the code); names that differ only in case    *)
(* are one name. Serials, secrets, org units and URI labels are opaque      *)
(* tokens. IP and URI SANs, which every rule treats alike, are `others`.    *)
(***************************************************************************)
EXTENDS Naturals, Sequences, FiniteSets

CONSTANTS
    Names,                 \* the names that occur in certificates and CSRs
    Others,                \* the IP and URI SANs that occur in CSRs
    Tokens,                \* serials, org units and URI labels
    NoToken,               \* the empty token
    Passwords, NoPassword, \* challengePassword values; the empty one
    Mode,                  \* policy.san_constraint
    MaxValidity, TTLSlack, \* policy.max_validity (0: no cap), verify.go's slack
    UseInventory,          \* inventory.backend is "file"
    Devices,               \* the entries of the inventory file, in order
    Rules, DefaultRole,    \* role_map
    Roles, NoRole,         \* OpenBao role names; the empty one
    ChallengeBackend,      \* "none", "static" or "memory" (MemoryStore)
    StaticSecret,          \* the shared secret of the static backend
    RequireChallenge,      \* policy.require_challenge_password
    AllowUnauthenticated   \* policy.allow_unauthenticated_enrollment

NoName == <<>>
Wildcard == <<"*">>
OptName == Names \cup {NoName}
OptToken == Tokens \cup {NoToken}
OptPassword == Passwords \cup {NoPassword}

ASSUME NamesAssumption ==
    \A n \in Names : n \in Seq(STRING) /\ Len(n) > 0
ASSUME TokensAssumption == NoToken \notin Tokens
ASSUME PasswordsAssumption == NoPassword \notin Passwords
ASSUME RolesAssumption == NoRole \notin Roles
ASSUME ModeAssumption == Mode \in {"identity", "allowlist", "csr"}
ASSUME ValidityAssumption == MaxValidity \in Nat /\ TTLSlack \in Nat
\* NewStaticSecret refuses an empty secret.
ASSUME ChallengeAssumption ==
    /\ ChallengeBackend \in {"none", "static", "memory"}
    /\ StaticSecret \in Passwords

DeviceEntry == [cn : OptName \cup {Wildcard}, serial : OptToken,
                allowed : SUBSET (Names \cup {Wildcard}),
                requireChallenge : BOOLEAN, role : Roles \cup {NoRole}]
\* Validate does not look at a rule's role: an empty one denies what it matches.
Rule == [by : {"any", "cn", "san", "ou", "label", "serial"},
         pattern : Names \cup Tokens \cup {Wildcard}, role : Roles \cup {NoRole}]

ASSUME DevicesAssumption == Devices \in Seq(DeviceEntry)
\* Reload refuses an entry without a match key.
ASSUME MatchKeyAssumption ==
    \A i \in DOMAIN Devices : Devices[i].cn # NoName \/ Devices[i].serial # NoToken
ASSUME RulesAssumption ==
    /\ Rules \in Seq(Rule)
    /\ DefaultRole \in Roles \cup {NoRole}
ASSUME SwitchesAssumption ==
    /\ UseInventory \in BOOLEAN
    /\ RequireChallenge \in BOOLEAN
    /\ AllowUnauthenticated \in BOOLEAN

-----------------------------------------------------------------------------
(* match.go                                                                *)

LeadsEmpty(v) == v[1] = ""

\* v ends in the labels of p after its first, with something before them: a label,
\* and not just an empty one (".x" is no longer than the suffix of "*.x").
EndsInTail(p, v) ==
    /\ Len(v) >= Len(p)
    /\ Len(v) = Len(p) => ~LeadsEmpty(v)
    /\ \A i \in 2..Len(p) : v[Len(v) - Len(p) + i] = p[i]

\* "*" matches anything, "*.suffix" one or more labels before the suffix,
\* anything else only itself.
GlobMatch(p, v) ==
    IF p = Wildcard THEN TRUE
    ELSE IF Len(p) > 1 /\ p[1] = "*" THEN EndsInTail(p, v)
    ELSE p = v

AllAllowed(names, patterns) ==
    \A n \in names : \E p \in patterns : GlobMatch(p, n)

\* A token has no dots, so a glob on it is "*" or the token itself.
TokenMatch(p, t) == p = Wildcard \/ p = t

-----------------------------------------------------------------------------
(* identity.go: what the verified certificate says against what the CSR asks *)

Constraints == [cn : OptName, dns : SUBSET Names, others : SUBSET Others, ttl : Nat]

NoCert == [none |-> TRUE]

ResolveIdentity(cert, csr, label) ==
    [authenticated |-> cert # NoCert,
     cn      |-> IF cert # NoCert THEN cert.cn ELSE NoName,
     dns     |-> IF cert # NoCert THEN cert.dns ELSE {},
     ou      |-> IF cert # NoCert THEN cert.ou ELSE {},
     serial  |-> IF cert # NoCert THEN cert.serial ELSE NoToken,
     label   |-> label,
     rcn     |-> csr.cn,
     rdns    |-> csr.dns,
     rothers |-> csr.others]

\* The name inventory and cn rules go by: the certificate's, else the CSR's.
NameOf(id) == IF id.cn # NoName THEN id.cn ELSE id.rcn

\* The least index in a set of indices: "first match wins".
First(I) == CHOOSE i \in I : \A j \in I : i <= j

-----------------------------------------------------------------------------
(* inventory.go                                                            *)

\* An entry's fingerprint key is matched like its serial: exactly, and only by
\* an authenticated certificate.
EntryMatches(d, id) ==
    /\ d.cn # NoName => GlobMatch(d.cn, NameOf(id))
    /\ d.serial # NoToken => d.serial = id.serial

Found(id) == UseInventory => \E i \in DOMAIN Devices : EntryMatches(Devices[i], id)

AnyDevice == [allowed |-> {}, requireChallenge |-> FALSE, role |-> NoRole]

\* The record of the first matching entry; NoInventory's record says nothing.
Lookup(id) ==
    IF ~UseInventory THEN AnyDevice
    ELSE LET d == Devices[First({i \in DOMAIN Devices : EntryMatches(Devices[i], id)})]
         IN [allowed |-> d.allowed, requireChallenge |-> d.requireChallenge,
             role |-> d.role]

-----------------------------------------------------------------------------
(* challenge.go. `codes` is MemoryStore.codes, a partial function from keys  *)
(* (names and serials) to records [secret, expires, id].                    *)

CandidateKeys(id) ==
    (IF id.cn # NoName THEN <<id.cn>> ELSE <<>>) \o
    (IF id.rcn # NoName /\ id.rcn # id.cn THEN <<id.rcn>> ELSE <<>>) \o
    (IF id.serial # NoToken THEN <<id.serial>> ELSE <<>>)

Registered(id, codes) == {i \in DOMAIN CandidateKeys(id) : CandidateKeys(id)[i] \in DOMAIN codes}

\* The key whose code decides: the first candidate that has one.
DecidingKey(id, codes) == CandidateKeys(id)[First(Registered(id, codes))]

CodeExpired(code, clock) == clock > code.expires

MemoryAccepts(id, pw, codes, clock) ==
    /\ pw # NoPassword
    /\ Registered(id, codes) # {}
    /\ LET code == codes[DecidingKey(id, codes)]
       IN ~CodeExpired(code, clock) /\ code.secret = pw

Without(codes, k) == [j \in DOMAIN codes \ {k} |-> codes[j]]

\* Mutated form: the first candidate's code is deleted, whichever one decided.
CodesAfterByFirstKey(id, pw, codes, clock) ==
    IF pw = NoPassword \/ Registered(id, codes) = {} THEN codes
    ELSE LET k == DecidingKey(id, codes)
         IN IF CodeExpired(codes[k], clock) \/ codes[k].secret = pw
            THEN Without(codes, CandidateKeys(id)[1]) ELSE codes

\* Mutated form: a code is used up by the attempt, right or wrong.
CodesAfterAnyGuess(id, pw, codes, clock) ==
    IF pw = NoPassword \/ Registered(id, codes) = {} THEN codes
    ELSE Without(codes, DecidingKey(id, codes))

\* MemoryStore.codes after Validate: an expired code is dropped, a right one is
\* consumed, a wrong guess leaves it.
CodesAfter(id, pw, codes, clock) ==
    IF pw = NoPassword \/ Registered(id, codes) = {} THEN codes
    ELSE LET k == DecidingKey(id, codes)
         IN IF CodeExpired(codes[k], clock) \/ codes[k].secret = pw
            THEN Without(codes, k) ELSE codes

Validate(id, pw, codes, clock) ==
    CASE ChallengeBackend = "static" -> pw = StaticSecret
      [] ChallengeBackend = "memory" -> MemoryAccepts(id, pw, codes, clock)
      [] OTHER -> FALSE

-----------------------------------------------------------------------------
(* roles.go                                                                *)

MatchSelector(rule, id) ==
    CASE rule.by = "any" -> TRUE
      [] rule.by = "cn" -> GlobMatch(rule.pattern, NameOf(id))
      [] rule.by = "san" -> \E n \in id.rdns : GlobMatch(rule.pattern, n)
      [] rule.by = "ou" -> \E o \in id.ou : TokenMatch(rule.pattern, o)
      [] rule.by = "label" -> TokenMatch(rule.pattern, id.label)
      [] rule.by = "serial" -> TokenMatch(rule.pattern, id.serial)

SelectRole(id) ==
    LET hits == {i \in DOMAIN Rules : MatchSelector(Rules[i], id)}
    IN IF hits = {} THEN DefaultRole ELSE Rules[First(hits)].role

RoleFor(id, rec) == IF rec.role # NoRole THEN rec.role ELSE SelectRole(id)

-----------------------------------------------------------------------------
(* policy.go                                                               *)

OptCN(cn) == IF cn = NoName THEN {} ELSE {cn}

\* Mutated form: the requested common name is not checked.
IdentityPermitsAnyCN(id) == AllAllowed(id.rdns, {id.cn} \cup id.dns) /\ id.rothers = {}

\* fromAuthenticatedIdentity: a device may re-key but not rename itself.
IdentityPermits(id) ==
    /\ AllAllowed(OptCN(id.rcn) \cup id.rdns, {id.cn} \cup id.dns)
    /\ id.rothers = {}

IdentityNames(id) ==
    [cn |-> id.cn, dns |-> IF id.rdns # {} THEN id.rdns ELSE id.dns,
     others |-> {}, ttl |-> MaxValidity]

AllowlistPermits(id, rec) ==
    /\ rec.allowed # {}
    /\ AllAllowed(OptCN(id.rcn) \cup id.rdns, rec.allowed)
    /\ id.rothers = {}

RequestedNames(id) ==
    [cn |-> id.rcn, dns |-> id.rdns, others |-> id.rothers, ttl |-> MaxValidity]

PinsIdentity(id) == Mode = "identity" /\ id.authenticated

Permits(id, rec) ==
    CASE Mode = "csr" -> TRUE
      [] PinsIdentity(id) -> IdentityPermits(id)
      [] OTHER -> AllowlistPermits(id, rec)

ConstraintsFor(id) == IF PinsIdentity(id) THEN IdentityNames(id) ELSE RequestedNames(id)

NamesConstrained(c) == c.cn # NoName \/ c.dns # {} \/ c.others # {}

\* Build: the mode's check, then a refusal of a request that names nothing.
BuildSucceeds(id, rec) == Permits(id, rec) /\ NamesConstrained(ConstraintsFor(id))

-----------------------------------------------------------------------------
(* pipeline.go                                                             *)

ChallengeRequired(rec) == RequireChallenge \/ rec.requireChallenge

\* Stage 4 calls the validator: one is required, or one was supplied.
CallsValidator(rec, pw) ==
    ChallengeBackend # "none" /\ (ChallengeRequired(rec) \/ pw # NoPassword)

\* Stages 2 and 3 let the request through to the challenge.
ReachesChallenge(op, id) ==
    /\ op = "simplereenroll" => id.authenticated
    /\ Found(id)

ChallengeHolds(id, rec, pw, codes, clock) ==
    IF CallsValidator(rec, pw) THEN Validate(id, pw, codes, clock)
                               ELSE ~ChallengeRequired(rec)

\* Mutated form: the inventory record is taken for proof.
GateTrustsInventory(id, rec, pw) == TRUE

\* Stage 5: something was proved, by certificate or by a non-empty secret.
AuthenticationGate(id, rec, pw) ==
    \/ id.authenticated
    \/ CallsValidator(rec, pw) /\ pw # NoPassword
    \/ AllowUnauthenticated

Allows(op, id, pw, codes, clock) ==
    /\ ReachesChallenge(op, id)
    /\ ChallengeHolds(id, Lookup(id), pw, codes, clock)
    /\ AuthenticationGate(id, Lookup(id), pw)
    /\ RoleFor(id, Lookup(id)) # NoRole
    /\ BuildSucceeds(id, Lookup(id))

\* The codes a call of Authorize leaves behind, allowed or denied: a code the
\* challenge stage consumed stays consumed when a later stage denies.
CodesAfterAuthorize(op, id, pw, codes, clock) ==
    IF ChallengeBackend = "memory" /\ ReachesChallenge(op, id)
       /\ CallsValidator(Lookup(id), pw)
    THEN CodesAfter(id, pw, codes, clock)
    ELSE codes

\* The request consumes the code that decided its challenge.
UsesCode(op, id, pw, codes, clock) ==
    /\ ChallengeBackend = "memory"
    /\ ReachesChallenge(op, id)
    /\ CallsValidator(Lookup(id), pw)
    /\ MemoryAccepts(id, pw, codes, clock)

-----------------------------------------------------------------------------
(* verify.go                                                               *)

VerifyNames(cert, c) ==
    /\ c.cn # NoName => cert.cn = c.cn
    /\ cert.dns \subseteq c.dns \cup OptCN(c.cn)
    /\ cert.others \subseteq c.others

\* Mutated form: the names OpenBao put on the certificate go unchecked.
VerifyIssuedTTLOnly(cert, c) == c.ttl > 0 => cert.life <= c.ttl + TTLSlack

VerifyIssued(cert, c) ==
    /\ NamesConstrained(c) => VerifyNames(cert, c)
    /\ c.ttl > 0 => cert.life <= c.ttl + TTLSlack
=============================================================================
