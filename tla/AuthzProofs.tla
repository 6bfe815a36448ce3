---------------------------- MODULE AuthzProofs ----------------------------
(***************************************************************************)
(* Facts about the operators of package authz, for every set of names, every *)
(* inventory and every rule list.                                          *)
(***************************************************************************)
EXTENDS Authz, WellFoundedInduction, TLAPS

\* "First match wins" picks one of the matches.
LEMMA FirstIsOne ==
    ASSUME NEW I \in SUBSET Nat, I # {}
    PROVE  First(I) \in I
<1>1. \E i \in I : \A j \in I : i <= j
  <2>1. OpToRel(<, Nat) = {ss \in Nat \X Nat : ss[1] < ss[2]}
    BY DEF OpToRel
  <2>2. PICK i \in I : \A j \in I : ~(<<j, i>> \in OpToRel(<, Nat))
    BY NatLessThanWellFounded, WFMin
  <2>3. \A j \in I : ~(j < i)
    BY <2>1, <2>2
  <2> QED BY <2>3
<1> QED BY <1>1 DEF First

\* A pattern that is a name matches itself, a wildcard name included.
LEMMA GlobReflexive ==
    ASSUME NEW n \in Seq(STRING)
    PROVE  GlobMatch(n, n)
<1>1. Len(n) \in Nat
  OBVIOUS
<1>2. n[1] = "*" => ~LeadsEmpty(n)
  BY DEF LeadsEmpty
<1>3. ~LeadsEmpty(n) => EndsInTail(n, n)
  BY <1>1 DEF EndsInTail
<1> QED BY <1>2, <1>3 DEF GlobMatch

\* globMatch is transitive: what a name permits as a pattern, the pattern that
\* permits the name permits too. This is what keeps a chain of renewals, each
\* using its predecessor's names as patterns, inside the names it began with.
LEMMA GlobTransitive ==
    ASSUME NEW p \in Seq(STRING), NEW q \in Seq(STRING), NEW v \in Seq(STRING),
           Len(q) > 0, GlobMatch(p, q), GlobMatch(q, v)
    PROVE  GlobMatch(p, v)
<1>0. Len(p) \in Nat /\ Len(q) \in Nat /\ Len(v) \in Nat
  OBVIOUS
<1>1. CASE p = Wildcard
  BY <1>1 DEF GlobMatch
<1>2. CASE p # Wildcard /\ Len(p) > 1 /\ p[1] = "*"
  <2>1. EndsInTail(p, q)
    BY <1>2 DEF GlobMatch
  <2>2. Len(q) > 1
    BY <2>1, <1>2, <1>0 DEF EndsInTail
  <2>0. q # Wildcard
    <3> SUFFICES ASSUME q = Wildcard PROVE FALSE
      OBVIOUS
    <3>1. Len(q) = 1
      BY DEF Wildcard
    <3> QED BY <3>1, <2>2
  <2>3. CASE q[1] = "*"
    <3>1. EndsInTail(q, v)
      BY <2>0, <2>2, <2>3 DEF GlobMatch
    <3>2. Len(v) >= Len(q) /\ Len(q) >= Len(p)
      BY <3>1, <2>1 DEF EndsInTail
    <3>3. ASSUME NEW i \in 2..Len(p)
          PROVE  v[Len(v) - Len(p) + i] = p[i]
      <4> DEFINE j == Len(q) - Len(p) + i
      <4>1. j \in 2..Len(q) /\ q[j] = p[i]
        BY <1>0, <3>2, <2>1 DEF EndsInTail
      <4>2. v[Len(v) - Len(q) + j] = q[j]
        BY <4>1, <3>1 DEF EndsInTail
      <4>3. Len(v) - Len(q) + j = Len(v) - Len(p) + i
        BY <1>0
      <4> QED BY <4>1, <4>2, <4>3
    <3>4. Len(v) = Len(p) => ~LeadsEmpty(v)
      BY <1>0, <3>1, <3>2 DEF EndsInTail
    <3>5. EndsInTail(p, v)
      BY <1>0, <3>2, <3>3, <3>4 DEF EndsInTail
    <3> QED BY <3>5, <1>2 DEF GlobMatch
  <2>4. CASE q[1] # "*"
    <3>1. q = v
      BY <2>0, <2>4, <2>2 DEF GlobMatch
    <3> QED BY <3>1
  <2> QED BY <2>3, <2>4
<1>3. CASE p # Wildcard /\ ~(Len(p) > 1 /\ p[1] = "*")
  <2>1. p = q
    BY <1>3 DEF GlobMatch
  <2> QED BY <2>1
<1> QED BY <1>1, <1>2, <1>3

\* Names permitted by names that are themselves permitted are permitted.
LEMMA AllowedTransitive ==
    ASSUME NEW A \in SUBSET Names, NEW B \in SUBSET OptName, NEW C \in SUBSET OptName,
           AllAllowed(A, B), \A q \in B \ {NoName} : \E p \in C : GlobMatch(p, q)
    PROVE  AllAllowed(A, C)
<1> SUFFICES ASSUME NEW n \in A PROVE \E p \in C : GlobMatch(p, n)
  BY DEF AllAllowed
<1>1. PICK q \in B : GlobMatch(q, n)
  BY DEF AllAllowed
<1>2. n \in Seq(STRING) /\ Len(n) > 0
  BY NamesAssumption
<1>3. q # NoName
  <2> SUFFICES ASSUME q = NoName PROVE FALSE
    OBVIOUS
  <2>1. Len(q) = 0
    BY DEF NoName
  <2>2. q = n
    BY <1>1, <2>1 DEF GlobMatch, NoName, Wildcard
  <2> QED BY <2>1, <2>2, <1>2
<1>4. PICK p \in C : GlobMatch(p, q)
  BY <1>3
<1>5. q \in Seq(STRING) /\ Len(q) > 0
  BY <1>3, NamesAssumption DEF OptName
<1>6. p \in Seq(STRING)
  <2>1. NoName \in Seq(STRING)
    BY DEF NoName
  <2> QED BY <2>1, NamesAssumption DEF OptName
<1>7. GlobMatch(p, n)
  BY <1>1, <1>2, <1>4, <1>5, <1>6, GlobTransitive
<1> QED BY <1>7

\* The role of a decision is one of the configured ones or the empty one.
LEMMA RoleForType ==
    ASSUME NEW id, Found(id)
    PROVE  RoleFor(id, Lookup(id)) \in Roles \cup {NoRole}
<1>1. Lookup(id).role \in Roles \cup {NoRole}
  <2>1. CASE ~UseInventory
    BY <2>1 DEF Lookup, AnyDevice
  <2>2. CASE UseInventory
    <3> DEFINE I == {i \in DOMAIN Devices : EntryMatches(Devices[i], id)}
    <3>1. I \in SUBSET Nat
      BY DevicesAssumption
    <3>2. I # {}
      BY <2>2 DEF Found
    <3>3. First(I) \in DOMAIN Devices
      BY <3>1, <3>2, FirstIsOne
    <3>4. Devices[First(I)] \in DeviceEntry
      BY <3>3, DevicesAssumption
    <3>5. Devices[First(I)].role \in Roles \cup {NoRole}
      BY <3>4 DEF DeviceEntry
    <3> QED BY <2>2, <3>5 DEF Lookup
  <2> QED BY <2>1, <2>2
<1>2. SelectRole(id) \in Roles \cup {NoRole}
  <2> DEFINE I == {i \in DOMAIN Rules : MatchSelector(Rules[i], id)}
  <2>1. I \in SUBSET Nat
    BY RulesAssumption
  <2>2. CASE I = {}
    BY <2>2, RulesAssumption DEF SelectRole
  <2>3. CASE I # {}
    <3>1. First(I) \in DOMAIN Rules
      BY <2>1, <2>3, FirstIsOne
    <3>2. Rules[First(I)] \in Rule
      BY <3>1, RulesAssumption
    <3>3. Rules[First(I)].role \in Roles \cup {NoRole}
      BY <3>2 DEF Rule
    <3> QED BY <2>3, <3>3 DEF SelectRole
  <2> QED BY <2>2, <2>3
<1> QED BY <1>1, <1>2 DEF RoleFor
=============================================================================
