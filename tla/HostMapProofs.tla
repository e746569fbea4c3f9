--------------------------- MODULE HostMapProofs ----------------------------
(***************************************************************************)
(* Theorems about the host map, for every list of sites, set of hosts and  *)
(* spelling of ports.                                                      *)
(***************************************************************************)
EXTENDS HostMap, WellFoundedInduction, TLAPS

(***************************************************************************)
(* No origin is declared on a port that is the other scheme's default.     *)
(* Without this a "//" mention may write two origins, and HostPorts shows  *)
(* what then happens.                                                      *)
(***************************************************************************)
PlainPorts(ss) ==
    \A i \in DOMAIN ss : \A o \in Declared(ss[i]) : o.port \notin {"443", "80"}

AllPlain == \A ss \in SiteLists : PlainPorts(ss)

Origin == [scheme : Schemes, host : Hosts, port : WrittenPorts]
Plain  == {o \in Origin : o.port \notin {"443", "80"}}

Bare(port) == IF port \in {"443", "80"} THEN "" ELSE port

-----------------------------------------------------------------------------
(***************************************************************************)
(* What a mention writes, where ports are plain: its host, and its port    *)
(* without either default.                                                 *)
(***************************************************************************)
LEMMA WritesBare ==
    ASSUME NEW m \in Mentions, NEW o \in Plain, Writes(m, o)
    PROVE  o.host = m.host /\ o.port = Bare(m.port)
BY DEF Writes, NormalisePort, DefaultPort, Bare, Plain, Origin, Mentions, Forms, Schemes

\* A written origin writes the origins of its host and port, whatever scheme.
LEMMA WritesWritten ==
    ASSUME NEW o \in Plain, NEW form \in Forms, NEW r \in Plain
    PROVE  Writes(Written(o, form), r) <=> HostPort(r) = HostPort(o)
BY DEF Writes, Written, NormalisePort, DefaultPort, HostPort, Plain, Origin, Forms, Schemes

\* What is written is a mention of the same form, but for its scheme.
LEMMA WrittenType ==
    ASSUME NEW o \in Origin, NEW form \in Forms
    PROVE  Written(o, form) \in Mentions
BY DEF Written, Mentions, Origin, Forms, Schemes

-----------------------------------------------------------------------------
\* Pairs that are tried in the order of their places.
Ordered(pairs) ==
    /\ \A p \in pairs : p.at[1] \in Nat /\ p.at[2] \in Nat
    /\ \A p, q \in pairs : p.at[1] = q.at[1] /\ p.at[2] = q.at[2] => p = q

LEMMA Least ==
    ASSUME NEW T \in SUBSET Nat, T # {}
    PROVE  \E x \in T : \A y \in T : x <= y
<1>1. PICK x \in T : \A y \in T : <<y, x>> \notin OpToRel(<, Nat)
  BY WFMin, NatLessThanWellFounded, Zenon
<1>2. \A y \in T : ~(y < x)
  BY <1>1, Zenon DEF OpToRel
<1>3. \A y \in T : x <= y
  BY <1>2
<1> QED
  BY <1>3

\* There is a first pair among those that match, and it decides.
LEMMA FirstDecides ==
    ASSUME NEW pairs, Ordered(pairs), NEW m, Matching(pairs, m) # {}
    PROVE  \E p \in Matching(pairs, m) :
               Rewrite(pairs, m) = IF p.from = p.to THEN m ELSE Written(p.to, m.form)
<1> DEFINE M == Matching(pairs, m)
           A == {p.at[1] : p \in M}
<1>1. M \subseteq pairs
  BY DEF Matching
<1>2. PICK a \in A : \A b \in A : a <= b
  <2>1. A \in SUBSET Nat /\ A # {}
    BY <1>1 DEF Ordered
  <2> QED
    BY <2>1, Least
<1> DEFINE K == {p.at[2] : p \in {q \in M : q.at[1] = a}}
<1>3. PICK k \in K : \A l \in K : k <= l
  <2>1. K \in SUBSET Nat /\ K # {}
    BY <1>1, <1>2 DEF Ordered
  <2> QED
    BY <2>1, Least
<1>4. PICK p \in M : p.at[1] = a /\ p.at[2] = k
  BY <1>3
<1>5. \A r \in M : r = p \/ Before(p, r)
  <2> SUFFICES ASSUME NEW r \in M, r # p PROVE Before(p, r)
    OBVIOUS
  <2>1. a <= r.at[1] /\ a \in Nat /\ r.at[1] \in Nat /\ k \in Nat /\ r.at[2] \in Nat
    BY <1>1, <1>2, <1>4 DEF Ordered
  <2>2. CASE r.at[1] = a
    <3>1. k <= r.at[2]
      BY <2>2, <1>3
    <3>2. r.at[2] # k
      BY <2>2, <1>1, <1>4 DEF Ordered
    <3> QED
      BY <2>1, <2>2, <3>1, <3>2, <1>4 DEF Before
  <2>3. CASE r.at[1] # a
    BY <2>1, <2>3, <1>4 DEF Before
  <2> QED
    BY <2>2, <2>3
<1> DEFINE first == CHOOSE q \in M : \A r \in M : r = q \/ Before(q, r)
<1>6. first \in M
  BY <1>4, <1>5
<1>7. Rewrite(pairs, m) = IF first.from = first.to THEN m ELSE Written(first.to, m.form)
  BY <1>4 DEF Rewrite
<1> HIDE DEF first
<1> QED
  BY <1>6, <1>7

-----------------------------------------------------------------------------
\* The pairs for responses: where they come from, and that they are ordered.
LEMMA ForwardPairs ==
    ASSUME NEW ss \in SiteLists
    PROVE  /\ Ordered(Forward(ss))
           /\ \A p \in Forward(ss) :
                /\ p.at[1] \in DOMAIN ss
                /\ p.from \in CanonicalSet(ss[p.at[1]])
                /\ p.to = ss[p.at[1]].variant
           /\ \A i \in DOMAIN ss : \E p \in Forward(ss) :
                p.at[1] = i /\ p.from = ss[i].canonical
<1>1. \A p \in Forward(ss) :
        /\ p.at[1] \in DOMAIN ss
        /\ p.to = ss[p.at[1]].variant
        /\ \/ p = Pair(p.at[1], 0, ss[p.at[1]], ss[p.at[1]].canonical, ss[p.at[1]].variant)
           \/ \E k \in DOMAIN ss[p.at[1]].aliases :
                p = Pair(p.at[1], k, ss[p.at[1]], ss[p.at[1]].aliases[k], ss[p.at[1]].variant)
  BY DEF Forward, Pair
<1>2. \A p \in Forward(ss) : p.from \in CanonicalSet(ss[p.at[1]])
  BY <1>1 DEF CanonicalSet, Pair
<1>3. \A p \in Forward(ss) : p.at[1] \in Nat /\ p.at[2] \in Nat
  BY <1>1, SiteListsAssumption DEF Pair
<1>4. ASSUME NEW p \in Forward(ss), NEW q \in Forward(ss), p.at[1] = q.at[1], p.at[2] = q.at[2]
      PROVE  p = q
  <2>1. \A i \in DOMAIN ss : 0 \notin DOMAIN ss[i].aliases
    BY SiteListsAssumption
  <2> QED
    BY <1>1, <1>4, <2>1 DEF Pair
<1>5. \A i \in DOMAIN ss : \E p \in Forward(ss) : p.at[1] = i /\ p.from = ss[i].canonical
  <2> SUFFICES ASSUME NEW i \in DOMAIN ss
               PROVE  \E p \in Forward(ss) : p.at[1] = i /\ p.from = ss[i].canonical
    OBVIOUS
  <2> DEFINE p == Pair(i, 0, ss[i], ss[i].canonical, ss[i].variant)
  <2>1. p \in Forward(ss)
    BY DEF Forward
  <2>2. p.at[1] = i /\ p.from = ss[i].canonical
    BY DEF Pair
  <2> QED
    BY <2>1, <2>2
<1> QED
  BY <1>1, <1>2, <1>3, <1>4, <1>5 DEF Ordered

\* The pairs for requests: one for each site.
LEMMA ReversePairs ==
    ASSUME NEW ss \in SiteLists
    PROVE  /\ Ordered(Reverse(ss))
           /\ \A p \in Reverse(ss) :
                /\ p.at[1] \in DOMAIN ss
                /\ p.from = ss[p.at[1]].variant
                /\ p.to = ss[p.at[1]].canonical
           /\ \A i \in DOMAIN ss : \E p \in Reverse(ss) : p.at[1] = i
<1>1. \A p \in Reverse(ss) :
        /\ p.at[1] \in DOMAIN ss
        /\ p = Pair(p.at[1], 0, ss[p.at[1]], ss[p.at[1]].variant, ss[p.at[1]].canonical)
  BY DEF Reverse, Pair
<1>2. \A i \in DOMAIN ss : \E p \in Reverse(ss) : p.at[1] = i
  <2> SUFFICES ASSUME NEW i \in DOMAIN ss PROVE \E p \in Reverse(ss) : p.at[1] = i
    OBVIOUS
  <2>1. Pair(i, 0, ss[i], ss[i].variant, ss[i].canonical) \in Reverse(ss)
    BY DEF Reverse
  <2> QED
    BY <2>1 DEF Pair
<1>3. \A p \in Reverse(ss) :
        p.from = ss[p.at[1]].variant /\ p.to = ss[p.at[1]].canonical /\ p.at[2] = 0
  BY <1>1 DEF Pair
<1>4. \A p \in Reverse(ss) : p.at[1] \in Nat
  BY <1>1, SiteListsAssumption
<1>5. \A p, q \in Reverse(ss) : p.at[1] = q.at[1] => p = q
  BY <1>1
<1> QED
  BY <1>1, <1>2, <1>3, <1>4, <1>5 DEF Ordered

-----------------------------------------------------------------------------
\* The indices of the sites that claim a mention: Owners of any list of sites.
Claim(ss, m) == {p.at[1] : p \in Matching(Forward(ss), m)}

LEMMA DeclaredPlain ==
    ASSUME NEW ss \in SiteLists, PlainPorts(ss), NEW i \in DOMAIN ss
    PROVE  CanonicalSet(ss[i]) \subseteq Plain /\ ss[i].variant \in Plain /\ ss[i].canonical \in Plain
<1>1. Declared(ss[i]) \subseteq Plain
  BY SiteListsAssumption DEF PlainPorts, Plain, Origin
<1> QED
  BY <1>1 DEF Declared, CanonicalSet

\* The pairs that match a mention all lead to one site.
LEMMA OneClaim ==
    ASSUME NEW ss \in SiteLists, PlainPorts(ss), NewMap(ss),
           NEW m \in Mentions, Matching(Forward(ss), m) # {}
    PROVE  \E i \in DOMAIN ss : Claim(ss, m) = {i}
<1> DEFINE M == Matching(Forward(ss), m)
<1>1. \A p \in M : p \in Forward(ss) /\ Writes(m, p.from) /\ p.from \in Plain
  <2>1. \A p \in M : p \in Forward(ss) /\ Writes(m, p.from)
    BY DEF Matching
  <2> QED
    BY <2>1, ForwardPairs, DeclaredPlain
<1>2. \A p, q \in M : p.at[1] = q.at[1]
  <2> SUFFICES ASSUME NEW p \in M, NEW q \in M PROVE p.at[1] = q.at[1]
    OBVIOUS
  <2>1. HostPort(p.from) = HostPort(q.from)
    BY <1>1, WritesBare DEF HostPort
  <2>2. p.to = q.to
    BY <1>1, <2>1 DEF NewMap, Validate, OneTargetPerHost
  <2> QED
    BY <1>1, <2>2, ForwardPairs DEF NewMap, DistinctVariantHosts
<1>3. PICK p \in M : TRUE
  OBVIOUS
<1>4. p.at[1] \in DOMAIN ss
  BY <1>1, ForwardPairs
<1>5. Claim(ss, m) = {p.at[1]}
  BY <1>2 DEF Claim
<1> QED
  BY <1>4, <1>5

\* Rewriting a response once writes the variant of the site that claims the
\* mention, and rewriting it again changes nothing.
LEMMA ForwardStays ==
    ASSUME NEW ss \in SiteLists, PlainPorts(ss), NewMap(ss),
           NEW m \in Mentions, NEW i \in DOMAIN ss, Claim(ss, m) = {i},
           NEW w, w = Rewrite(Forward(ss), m)
    PROVE  w \in Mentions /\ Writes(w, ss[i].variant) /\ Rewrite(Forward(ss), w) = w
<1> DEFINE F == Forward(ss)
<1>1. Matching(F, m) # {}
  BY DEF Claim
<1>2. PICK p \in Matching(F, m) :
          w = IF p.from = p.to THEN m ELSE Written(p.to, m.form)
  BY <1>1, FirstDecides, ForwardPairs
<1>3. p \in F /\ Writes(m, p.from) /\ p.at[1] = i
  BY DEF Matching, Claim
<1>4. p.to = ss[i].variant /\ p.to \in Plain /\ m.form \in Forms
  BY <1>3, ForwardPairs, DeclaredPlain DEF Mentions
<1>5. CASE p.from = p.to
  BY <1>2, <1>3, <1>4, <1>5
<1>6. CASE p.from # p.to
  <2>1. w = Written(p.to, m.form) /\ w \in Mentions
    BY <1>2, <1>4, <1>6, WrittenType DEF Plain
  <2>2. Writes(w, p.to)
    BY <1>4, <2>1, WritesWritten
  <2> DEFINE probe == Written(p.to, p.to.scheme)
  <2>3. Rewrite(F, probe) = probe
    BY <1>3, <1>6 DEF NewMap, Validate, FixedPoint
  <2>4. p.to.scheme \in Forms /\ probe \in Mentions
    BY <1>4, WrittenType DEF Plain, Origin, Forms
  <2>5. \A r \in F : r.from \in Plain /\ r.at[1] \in DOMAIN ss /\ r.to = ss[r.at[1]].variant
    BY ForwardPairs, DeclaredPlain
  <2>6. \A r \in F : (Writes(w, r.from) <=> HostPort(r.from) = HostPort(p.to))
                  /\ (Writes(probe, r.from) <=> HostPort(r.from) = HostPort(p.to))
    BY <1>4, <2>1, <2>4, <2>5, WritesWritten
  <2>7. \A q \in F, r \in F : HostPort(q.from) = HostPort(r.from) => q.to = r.to
    BY DEF NewMap, Validate, OneTargetPerHost
  <2>8. \A q \in F : q.to.host = p.to.host => q.to = p.to
    BY <1>3, <2>5 DEF NewMap, DistinctVariantHosts
  <2>9. \A q \in Matching(F, w) : q.to = p.to
    <3> SUFFICES ASSUME NEW q \in Matching(F, w) PROVE q.to = p.to
      OBVIOUS
    <3>1. q \in F /\ HostPort(q.from) = HostPort(p.to)
      BY <2>6 DEF Matching
    <3>2. Matching(F, probe) # {}
      BY <3>1, <2>6 DEF Matching
    <3>3. PICK r \in Matching(F, probe) :
              probe = IF r.from = r.to THEN probe ELSE Written(r.to, probe.form)
      BY <2>3, <3>2, FirstDecides, ForwardPairs
    <3>4. r \in F /\ HostPort(r.from) = HostPort(p.to)
      BY <2>6 DEF Matching
    <3>5. r.to.host = p.to.host
      BY <3>3, <3>4 DEF HostPort, Written
    <3> QED
      BY <2>7, <2>8, <3>1, <3>4, <3>5
  <2>10. Written(p.to, w.form) = w
    BY <1>4, <2>1 DEF Written, Forms, Schemes, Plain, Origin
  <2>11. Rewrite(F, w) = w
    <3>1. CASE Matching(F, w) = {}
      BY <3>1 DEF Rewrite
    <3>2. CASE Matching(F, w) # {}
      <4>1. PICK q \in Matching(F, w) :
                Rewrite(F, w) = IF q.from = q.to THEN w ELSE Written(q.to, w.form)
        BY <3>2, FirstDecides, ForwardPairs
      <4> QED
        BY <4>1, <2>9, <2>10
    <3> QED
      BY <3>1, <3>2
  <2> QED
    BY <1>4, <2>1, <2>2, <2>11
<1> QED
  BY <1>5, <1>6

\* A variant routes to its site.
LEMMA VariantRoutes ==
    ASSUME NEW ss \in SiteLists, NewMap(ss), NEW m, NEW i \in DOMAIN ss,
           Writes(m, ss[i].variant)
    PROVE  SiteForHost(ss, m.host) = {i}
<1>1. m.host = ss[i].variant.host
  BY DEF Writes
<1>2. \A j \in DOMAIN ss : ss[j].variant.host = m.host => j = i
  BY <1>1 DEF NewMap, DistinctVariantHosts
<1> QED
  BY <1>1, <1>2 DEF SiteForHost

\* Rewriting a request writes the canonical origin of the variant's site.
LEMMA ReverseReturns ==
    ASSUME NEW ss \in SiteLists, PlainPorts(ss), NewMap(ss),
           NEW m \in Mentions, NEW i \in DOMAIN ss, Writes(m, ss[i].variant),
           NEW w, w = Rewrite(Reverse(ss), m)
    PROVE  w \in Mentions /\ Writes(w, ss[i].canonical)
<1> DEFINE R == Reverse(ss)
<1>1. PICK p \in R : p.at[1] = i
  BY ReversePairs
<1>2. p \in Matching(R, m)
  BY <1>1, ReversePairs DEF Matching
<1>3. \A r \in Matching(R, m) : r.from = ss[i].variant /\ r.to = ss[i].canonical
  <2> SUFFICES ASSUME NEW r \in Matching(R, m) PROVE r.at[1] = i /\ r \in R
    BY ReversePairs
  <2>1. r \in R /\ r.from.host = m.host /\ m.host = ss[i].variant.host
    BY DEF Matching, Writes
  <2>2. r.at[1] \in DOMAIN ss /\ ss[r.at[1]].variant.host = ss[i].variant.host
    BY <2>1, ReversePairs
  <2> QED
    BY <2>1, <2>2 DEF NewMap, DistinctVariantHosts
<1>4. PICK q \in Matching(R, m) :
          w = IF q.from = q.to THEN m ELSE Written(q.to, m.form)
  BY <1>2, FirstDecides, ReversePairs
<1>5. q.from = ss[i].variant /\ q.to = ss[i].canonical
  BY <1>3
<1>6. ss[i].canonical \in Plain /\ m.form \in Forms
  BY DeclaredPlain DEF Mentions
<1>7. CASE q.from = q.to
  BY <1>4, <1>5, <1>7
<1>8. CASE q.from # q.to
  <2>1. w = Written(ss[i].canonical, m.form)
    BY <1>4, <1>5, <1>8
  <2> QED
    BY <1>6, <2>1, WrittenType, WritesWritten DEF Plain
<1> QED
  BY <1>7, <1>8

\* A mention that writes a site's canonical origin is claimed by that site.
LEMMA CanonicalClaimed ==
    ASSUME NEW ss \in SiteLists, PlainPorts(ss), NewMap(ss),
           NEW m \in Mentions, NEW i \in DOMAIN ss, Writes(m, ss[i].canonical)
    PROVE  Claim(ss, m) = {i}
<1>1. PICK p \in Forward(ss) : p.at[1] = i /\ p.from = ss[i].canonical
  BY ForwardPairs
<1>2. p \in Matching(Forward(ss), m)
  BY <1>1 DEF Matching
<1>3. i \in Claim(ss, m)
  BY <1>1, <1>2 DEF Claim
<1> QED
  BY <1>2, <1>3, OneClaim

-----------------------------------------------------------------------------
(***************************************************************************)
(* The inductive invariant: a mention belongs to one site at every stage,  *)
(* and what it writes is that site's origin of that stage.                 *)
(***************************************************************************)
Stages == {"configured", "refused", "stored", "served", "swept", "followed", "saved"}

\* The mention is where site i wants it at this stage.
Belongs(i) ==
    /\ Owners(written) = {i}
    /\ stage = "stored" => Owners(mention) = {i}
    /\ stage \in {"served", "swept", "followed"} => Writes(mention, sites[i].variant)
    /\ stage = "served" => Rewrite(Forward(sites), mention) = mention
    /\ stage = "followed" => arrived = mention.host
    /\ stage = "saved" => Writes(mention, sites[i].canonical)

Inv ==
    /\ sites \in SiteLists
    /\ stage \in Stages
    /\ arrived \in Hosts \cup {None.host}
    /\ stage \in {"configured", "refused"} => written = None /\ mention = None
    /\ stage \notin {"configured", "refused"} =>
         /\ NewMap(sites)
         /\ written \in Mentions /\ mention \in Mentions
         /\ \E i \in DOMAIN sites : Belongs(i)

LEMMA InitInv == Init => Inv
BY DEF Init, Inv, Stages, None

LEMMA StepInv ==
    ASSUME AllPlain
    PROVE  Inv /\ [Next]_vars => Inv'
<1> SUFFICES ASSUME Inv, [Next]_vars PROVE Inv'
  OBVIOUS
<1>0. PlainPorts(sites) /\ sites \in SiteLists
  BY DEF AllPlain, Inv
<1>1. CASE Refuse
  BY <1>1 DEF Refuse, Inv, Stages
<1>2. ASSUME NEW m \in Mentions, Start(m) PROVE Inv'
  <2>1. PICK i \in DOMAIN sites : Claim(sites, m) = {i}
    BY <1>0, <1>2, OneClaim DEF Start
  <2>2. Belongs(i)'
    BY <1>2, <2>1 DEF Start, Belongs, Owners, Claim
  <2> QED
    BY <1>2, <2>2 DEF Start, Inv, Stages
<1>3. CASE Serve
  <2>1. PICK i \in DOMAIN sites : Belongs(i)
    BY <1>3 DEF Serve, Inv
  <2>2. Claim(sites, mention) = {i} /\ mention \in Mentions /\ NewMap(sites)
    BY <1>3, <2>1 DEF Serve, Inv, Belongs, Owners, Claim
  <2>3. mention' \in Mentions /\ Writes(mention', sites[i].variant)
        /\ Rewrite(Forward(sites), mention') = mention'
    BY <1>0, <1>3, <2>2, ForwardStays DEF Serve
  <2>4. Belongs(i)'
    BY <1>3, <2>1, <2>3 DEF Serve, Belongs, Owners
  <2> QED
    BY <1>3, <2>3, <2>4 DEF Serve, Inv, Stages
<1>4. CASE SweepAgain
  <2>1. PICK i \in DOMAIN sites : Belongs(i)
    BY <1>4 DEF SweepAgain, Inv
  <2>2. mention' = mention
    BY <1>4, <2>1 DEF SweepAgain, Belongs
  <2>3. Belongs(i)'
    BY <1>4, <2>1, <2>2 DEF SweepAgain, Belongs, Owners
  <2> QED
    BY <1>4, <2>2, <2>3 DEF SweepAgain, Inv, Stages
<1>5. CASE Follow
  <2>1. PICK i \in DOMAIN sites : Belongs(i)
    BY <1>5 DEF Follow, Inv
  <2>2. Belongs(i)'
    BY <1>5, <2>1 DEF Follow, Belongs, Owners
  <2>3. arrived' \in Hosts
    BY <1>5 DEF Follow, Inv, Mentions
  <2> QED
    BY <1>5, <2>2, <2>3 DEF Follow, Inv, Stages
<1>6. CASE Save
  <2>1. PICK i \in DOMAIN sites : Belongs(i)
    BY <1>6 DEF Save, Inv
  <2>2. Writes(mention, sites[i].variant) /\ mention \in Mentions /\ NewMap(sites)
    BY <1>6, <2>1 DEF Save, Inv, Belongs
  <2>3. mention' \in Mentions /\ Writes(mention', sites[i].canonical)
    BY <1>0, <1>6, <2>2, ReverseReturns DEF Save
  <2>4. Belongs(i)'
    BY <1>6, <2>1, <2>3 DEF Save, Belongs, Owners
  <2> QED
    BY <1>6, <2>3, <2>4 DEF Save, Inv, Stages
<1>7. CASE Reload
  <2>1. PICK i \in DOMAIN sites : Belongs(i)
    BY <1>7 DEF Reload, Inv
  <2>2. Writes(mention, sites[i].canonical) /\ mention \in Mentions /\ NewMap(sites)
    BY <1>7, <2>1 DEF Reload, Inv, Belongs
  <2>3. Claim(sites, mention) = {i}
    BY <1>0, <2>2, CanonicalClaimed
  <2>4. Belongs(i)'
    BY <1>7, <2>1, <2>3 DEF Reload, Belongs, Owners, Claim
  <2> QED
    BY <1>7, <2>4 DEF Reload, Inv, Stages
<1>8. CASE Stay
  BY <1>8 DEF Stay, vars, Inv, Belongs, Owners
<1>9. CASE UNCHANGED vars
  BY <1>9 DEF vars, Inv, Belongs, Owners
<1> QED
  BY <1>1, <1>2, <1>3, <1>4, <1>5, <1>6, <1>7, <1>8, <1>9 DEF Next

LEMMA Invariant ==
    ASSUME AllPlain
    PROVE  Spec => []Inv
BY InitInv, StepInv, PTL DEF Spec

-----------------------------------------------------------------------------
(***************************************************************************)
(* Every variable keeps its type, and nothing is served under a map that   *)
(* was not accepted.                                                       *)
(***************************************************************************)
THEOREM TypeCorrect ==
    ASSUME AllPlain
    PROVE  Spec => []TypeOK
<1>1. Inv => TypeOK
  BY DEF Inv, TypeOK, Stages
<1> QED
  BY <1>1, Invariant, PTL

(***************************************************************************)
(* What an accepted map rewrites belongs to one site, so the order the     *)
(* sites are declared in decides nothing (Matcher.Validate, NewMap).       *)
(***************************************************************************)
THEOREM OwnerIsUnique ==
    ASSUME AllPlain
    PROVE  Spec => []OneOwner
<1>1. Inv => OneOwner
  BY DEF Inv, OneOwner, Belongs, Stages
<1> QED
  BY <1>1, Invariant, PTL

(***************************************************************************)
(* The sweep changes nothing the structured pass has written, for every    *)
(* form and port of the mention, though Validate probes one of each.       *)
(***************************************************************************)
THEOREM RewritesOnce ==
    ASSUME AllPlain
    PROVE  Spec => NoDoubleRewrite
<1>1. Inv /\ [Next]_vars => [SweepAgain => mention' = mention]_vars
  BY DEF Inv, SweepAgain, Belongs
<1> QED
  BY <1>1, Invariant, PTL DEF Spec, NoDoubleRewrite

(***************************************************************************)
(* A rewritten link routes to the site whose origin the database wrote.    *)
(***************************************************************************)
THEOREM ArrivesHome ==
    ASSUME AllPlain
    PROVE  Spec => []FollowedHome
<1>1. Inv => FollowedHome
  <2> SUFFICES ASSUME Inv, stage = "followed"
               PROVE  SiteForHost(sites, arrived) = Owners(written)
    BY DEF FollowedHome
  <2>1. PICK i \in DOMAIN sites : Belongs(i)
    BY DEF Inv
  <2> QED
    BY <2>1, VariantRoutes DEF Inv, Belongs
<1> QED
  BY <1>1, Invariant, PTL

(***************************************************************************)
(* What is saved is the primary canonical origin of the site the mention   *)
(* was first written for, after any number of round trips.                 *)
(***************************************************************************)
THEOREM RoundTripsHome ==
    ASSUME AllPlain
    PROVE  Spec => []SavedHome
<1>1. Inv => SavedHome
  BY DEF Inv, SavedHome, Belongs
<1> QED
  BY <1>1, Invariant, PTL
=============================================================================
