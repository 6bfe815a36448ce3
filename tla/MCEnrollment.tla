---------------------------- MODULE MCEnrollment ----------------------------
(***************************************************************************)
(* Small instances of Enrollment. The cfg files pick the constants:         *)
(*   MCEst    EST in identity mode with a static secret, chains of renewals *)
(*   MCScep   copies of SCEP messages against the replay cache              *)
(*   MCOtp    one-time codes under concurrent EST and SCEP enrolment        *)
(*   MCLive   liveness and the abstract promise, over both protocols        *)
(***************************************************************************)
EXTENDS Enrollment, TLC

CONSTANTS DevSerial, BootSerial, RogueSerial, Ou, Lbl, Right, Wrong, r1, r2, r3, i1, i2, k1, k2

\* The names: a host, the wildcard above it, the name with nothing in place of the
\* wildcard, and a host elsewhere.
Host == <<"a", "x">>
Star == <<"*", "x">>
Bare == <<"", "x">>
Alien == <<"b">>

MCNames == {Host, Star, Bare, Alien}
MCTokens == {DevSerial, BootSerial, RogueSerial, Ou, Lbl}

FactoryCert(cn, dns, ou, serial, anchors) ==
    [cn |-> cn, dns |-> dns, others |-> {}, ou |-> ou, life |-> 1,
     serial |-> serial, anchors |-> anchors, origin |-> {cn} \cup dns]

Bootstrap == FactoryCert(Host, {}, {Ou}, BootSerial, {"bootstrap"})
\* A device certificate without a common name, for a whole domain.
DeviceWide == FactoryCert(NoName, {Star}, {}, DevSerial, {"device"})
Device == FactoryCert(Host, {Host}, {}, DevSerial, {"device"})
Rogue == FactoryCert(Alien, {Alien}, {}, RogueSerial, {})

\* One device known by name, one by serial, and a catch-all that must prove
\* itself with a challenge.
MCDevices ==
    <<[cn |-> Host, serial |-> NoToken, allowed |-> {Star},
       requireChallenge |-> FALSE, role |-> NoRole],
      [cn |-> NoName, serial |-> DevSerial, allowed |-> {Host},
       requireChallenge |-> FALSE, role |-> "fleet"],
      [cn |-> Wildcard, serial |-> NoToken, allowed |-> {Alien, Star},
       requireChallenge |-> TRUE, role |-> NoRole]>>

\* A label's rule names no role: it denies.
MCRules ==
    <<[by |-> "ou", pattern |-> Ou, role |-> "boot"],
      [by |-> "label", pattern |-> Lbl, role |-> NoRole],
      [by |-> "serial", pattern |-> RogueSerial, role |-> "fleet"],
      [by |-> "san", pattern |-> Star, role |-> "fleet"],
      [by |-> "cn", pattern |-> Host, role |-> "boot"],
      [by |-> "any", pattern |-> Wildcard, role |-> "boot"]>>

Asks(cn, dns) == [cn |-> cn, dns |-> dns, others |-> {}]

Est(op, csr, pw) ==
    [op |-> op, csr |-> csr, keyType |-> "ec-p256", wellFormed |-> TRUE,
     pw |-> pw, label |-> NoToken]

Scep(op, csr, pw, key) ==
    [op |-> op, csr |-> csr, keyType |-> "rsa-2048", wellFormed |-> TRUE,
     pw |-> pw, label |-> NoToken, key |-> key, signerRSA |-> TRUE]

\* Each operation, for the device's own name, for a domain, for an alien name
\* and for nothing; with a right, a wrong and no secret; an unreadable body, a
\* key type outside policy and an IP SAN among them.
MCEstMessages ==
    {Est("simplereenroll", Asks(Host, {}), NoPassword),
     Est("simplereenroll", Asks(NoName, {Alien}), Right),
     Est("simplereenroll", Asks(Alien, {}), NoPassword),
     Est("simplereenroll", Asks(NoName, {Host, Alien}), NoPassword),
     Est("simplereenroll", Asks(NoName, {Bare}), NoPassword),
     Est("serverkeygen", Asks(NoName, {Star}), NoPassword),
     Est("serverkeygen", Asks(NoName, {Host}), NoPassword),
     Est("serverkeygen", Asks(Alien, {}), Right),
     Est("simpleenroll", Asks(Host, {Star}), NoPassword),
     Est("simpleenroll", Asks(Host, {Star}), Right),
     Est("simpleenroll", Asks(NoName, {}), Right),
     [Est("simpleenroll", Asks(Host, {}), Right) EXCEPT !.label = Lbl],
     Est("simpleenroll", Asks(Host, {}), Wrong),
     [Est("simpleenroll", Asks(Host, {}), Right) EXCEPT !.wellFormed = FALSE],
     [Est("simpleenroll", Asks(Host, {}), Right) EXCEPT !.keyType = "rsa-1024"],
     [Est("simpleenroll", Asks(Host, {}), Right) EXCEPT !.csr.others = Others]}

EstFactory == {Bootstrap, DeviceWide, Rogue}

\* A device may renew over SCEP what it was given over EST.
EstRunScep == {Scep("simplereenroll", Asks(Host, {}), NoPassword, k1)}

\* Copies of two SCEP messages: an enrolment, and a renewal by a device whose
\* key is not RSA and of a type policy does not list.
MCScepMessages ==
    {Scep("simpleenroll", Asks(Host, {Host}), Right, k1),
     [Scep("simplereenroll", Asks(Host, {}), NoPassword, k2)
        EXCEPT !.keyType = "ec-p521", !.signerRSA = FALSE]}

ScepFactory == {Device, Rogue}

\* Enrolments over both protocols, with and without the bootstrap certificate
\* whose name and serial codes are registered for.
OtpEst == {Est("simpleenroll", Asks(Host, {}), Right),
           Est("simpleenroll", Asks(Host, {}), NoPassword),
           Est("simpleenroll", Asks(Alien, {}), Right)}
OtpScep == {Scep("simpleenroll", Asks(Host, {}), Right, k1)}
OtpFactory == {Bootstrap}
OtpKeys == {Host, BootSerial}

\* One request of each protocol, for the run of liveness and the promise.
LiveEst == {Est("simpleenroll", Asks(Host, {}), Right)}
LiveScep == {Scep("simpleenroll", Asks(Host, {}), Right, k1)}

Symmetry == Permutations(Reqs)
SymmetryOtp == Permutations(Reqs) \cup Permutations(CodeIds)
=============================================================================
