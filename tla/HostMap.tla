------------------------------ MODULE HostMap -------------------------------
(***************************************************************************)
(* The host map, internal/origin: which lists of sites it accepts, which   *)
(* pair of an accepted map a mention is rewritten by, and which site a     *)
(* request is routed to; and what becomes of one mention that is stored,   *)
(* served, followed and saved back under an accepted map.                  *)
(*                                                                         *)
(* An origin is a scheme, a host and a port, the port being "" where it is *)
(* the scheme's default. A mention is how content writes one: its form is  *)
(* a scheme or "//", and its port is as it was written.                    *)
(***************************************************************************)
EXTENDS Integers, Sequences

CONSTANTS SiteLists,    \* the lists of sites the proxy may be configured with
          Hosts,        \* normalised hostnames
          WrittenPorts  \* how content writes a port; "" is writing none

Schemes  == {"https", "http"}
Forms    == Schemes \cup {"//"}
Mentions == [form : Forms, host : Hosts, port : WrittenPorts]

DefaultPort(scheme) == IF scheme = "https" THEN "443" ELSE "80"

NormalisePort(scheme, port) == IF port = DefaultPort(scheme) THEN "" ELSE port

-----------------------------------------------------------------------------
(***************************************************************************)
(* A site has a name, a canonical origin, aliases and a variant. A matcher *)
(* is a set of pairs, each with its place in the order they are tried.     *)
(***************************************************************************)
CanonicalSet(s) == {s.canonical} \cup {s.aliases[k] : k \in DOMAIN s.aliases}

Declared(s) == CanonicalSet(s) \cup {s.variant}

\* What Parse makes of the origins of a list: their ports are normalised.
ASSUME SiteListsAssumption ==
    \A ss \in SiteLists :
        /\ DOMAIN ss \subseteq Nat
        /\ \A i \in DOMAIN ss :
            /\ DOMAIN ss[i].aliases \subseteq Nat \ {0}
            /\ Declared(ss[i]) \subseteq [scheme : Schemes, host : Hosts, port : WrittenPorts]
            /\ \A o \in Declared(ss[i]) : NormalisePort(o.scheme, o.port) = o.port

Pair(i, k, s, from, to) == [at |-> <<i, k>>, name |-> s.name, from |-> from, to |-> to]

\* For responses: the canonical set of each site to its variant.
Forward(sites) ==
    UNION {{Pair(i, 0, sites[i], sites[i].canonical, sites[i].variant)}
           \cup {Pair(i, k, sites[i], sites[i].aliases[k], sites[i].variant) :
                    k \in DOMAIN sites[i].aliases} : i \in DOMAIN sites}

\* Bug: for requests too, the variant of each site to what was declared last.
ReverseToLast(sites) ==
    {Pair(i, 0, sites[i], sites[i].variant,
          IF sites[i].aliases = <<>> THEN sites[i].canonical
          ELSE sites[i].aliases[Len(sites[i].aliases)]) : i \in DOMAIN sites}

\* For requests: the variant of each site to its primary canonical origin.
Reverse(sites) ==
    {Pair(i, 0, sites[i], sites[i].variant, sites[i].canonical) : i \in DOMAIN sites}

Before(p, q) ==
    p.at[1] < q.at[1] \/ (p.at[1] = q.at[1] /\ p.at[2] < q.at[2])

\* Whether a mention writes an origin. Its scheme is not compared: it only says
\* which port is the default, and "//" says nothing, so the origin's does.
Writes(m, o) ==
    /\ m.host = o.host
    /\ NormalisePort(IF m.form = "//" THEN o.scheme ELSE m.form, m.port) = o.port

Matching(pairs, m) == {p \in pairs : Writes(m, p.from)}

\* An origin as a mention of some form writes it.
Written(o, form) ==
    [form |-> IF form = "//" THEN form ELSE o.scheme, host |-> o.host, port |-> o.port]

\* The first pair that matches, unless it is one that changes nothing.
Rewrite(pairs, m) ==
    IF Matching(pairs, m) = {} THEN m
    ELSE LET p == CHOOSE q \in Matching(pairs, m) :
                     \A r \in Matching(pairs, m) : r = q \/ Before(q, r)
         IN  IF p.from = p.to THEN m ELSE Written(p.to, m.form)

-----------------------------------------------------------------------------
HostPort(o) == <<o.host, o.port>>

\* Bug: only the same origin cannot map two ways.
OneTargetPerOrigin(pairs) ==
    \A p, q \in pairs : p.from = q.from => p.to = q.to

\* A host and port cannot map two ways, whatever the schemes.
OneTargetPerHost(pairs) ==
    \A p, q \in pairs : HostPort(p.from) = HostPort(q.from) => p.to = q.to

\* Bug: the variants are not run through the matcher.
NoFixedPointCheck(pairs) == TRUE

\* No variant is matched by a canonical origin: rewriting it yields itself.
FixedPoint(pairs) ==
    \A p \in pairs : Rewrite(pairs, Written(p.to, p.to.scheme)) = Written(p.to, p.to.scheme)

\* Matcher.Validate. A map that maps everything to itself is anchored as it is.
Validate(pairs) ==
    /\ \A p, q \in pairs : p.from = q.from => p = q
    /\ \A p, q \in pairs : p.to = q.to => p.name = q.name
    /\ OneTargetPerHost(pairs)
    /\ (\E p \in pairs : p.from # p.to) => FixedPoint(pairs)

\* Bug: two sites may share a variant host on different ports.
DistinctVariants(sites) ==
    \A i, j \in DOMAIN sites : i # j => sites[i].variant # sites[j].variant

\* Two sites that derive the same variant host could not be told apart when a
\* request arrives.
DistinctVariantHosts(sites) ==
    \A i, j \in DOMAIN sites : i # j => sites[i].variant.host # sites[j].variant.host

\* A variant that is a canonical origin of another site would route two to one.
NoVariantIsCanonical(sites) ==
    \A p \in Forward(sites), i \in DOMAIN sites :
        p.from = sites[i].variant => p.name = sites[i].name

\* NewMap: the lists of sites that are accepted.
NewMap(sites) ==
    /\ sites # <<>>
    /\ DistinctVariantHosts(sites)
    /\ NoVariantIsCanonical(sites)
    /\ Validate(Forward(sites))
    /\ Validate(Reverse(sites))

\* SiteForHost: the sites a request for a host belongs to, whatever its port.
SiteForHost(sites, host) == {i \in DOMAIN sites : sites[i].variant.host = host}

-----------------------------------------------------------------------------
VARIABLES
    sites,      \* the configured list
    stage,      \* where the mention is
    written,    \* the mention as it was first written, in the database
    mention,    \* the mention as it stands
    arrived     \* the host a browser asked for when it followed it

vars == <<sites, stage, written, mention, arrived>>

\* No mention yet.
None == [form |-> "none", host |-> "none", port |-> ""]

\* The sites that claim a mention: one of their origins is what it writes.
Owners(m) == {p.at[1] : p \in Matching(Forward(sites), m)}

TypeOK ==
    /\ stage \in {"configured", "refused", "stored", "served", "swept", "followed", "saved"}
    /\ {written, mention} \subseteq Mentions \cup {None}
    /\ arrived \in Hosts \cup {None.host}
    /\ stage \in {"stored", "served", "swept", "followed", "saved"} => NewMap(sites)

Init ==
    /\ sites \in SiteLists
    /\ stage = "configured" /\ written = None /\ mention = None /\ arrived = None.host

\* Every error of NewMap stops the start.
Refuse ==
    /\ stage = "configured" /\ ~NewMap(sites)
    /\ stage' = "refused"
    /\ UNCHANGED <<sites, written, mention, arrived>>

\* The proxy starts, on a database that writes some origin of the map.
Start(m) ==
    /\ stage = "configured" /\ NewMap(sites)
    /\ Matching(Forward(sites), m) # {}
    /\ stage' = "stored" /\ written' = m /\ mention' = m
    /\ UNCHANGED <<sites, arrived>>

\* The structured pass over a response.
Serve ==
    /\ stage = "stored"
    /\ mention' = Rewrite(Forward(sites), mention)
    /\ stage' = "served"
    /\ UNCHANGED <<sites, written, arrived>>

\* The sweep behind it, over what it produced.
SweepAgain ==
    /\ stage = "served"
    /\ mention' = Rewrite(Forward(sites), mention)
    /\ stage' = "swept"
    /\ UNCHANGED <<sites, written, arrived>>

\* A browser follows the mention.
Follow ==
    /\ stage = "swept"
    /\ arrived' = mention.host
    /\ stage' = "followed"
    /\ UNCHANGED <<sites, written, mention>>

\* The page is saved, and what is stored is served again.
Save ==
    /\ stage = "followed"
    /\ mention' = Rewrite(Reverse(sites), mention)
    /\ stage' = "saved"
    /\ UNCHANGED <<sites, written, arrived>>

Reload ==
    /\ stage = "saved"
    /\ stage' = "stored" /\ arrived' = None.host
    /\ UNCHANGED <<sites, written, mention>>

Stay == stage = "refused" /\ UNCHANGED vars

Next ==
    \/ Refuse \/ Serve \/ SweepAgain \/ Follow \/ Save \/ Reload \/ Stay
    \/ \E m \in Mentions : Start(m)

Spec == Init /\ [][Next]_vars

-----------------------------------------------------------------------------
(***************************************************************************)
(* A mention has one owner, so that the order the sites are declared in is *)
(* nobody's business. (README: "no two sites share a variant hostname, so  *)
(* no rewrite is ambiguous".)                                              *)
(***************************************************************************)
OneOwner == written # None => \E i \in DOMAIN sites : Owners(written) = {i}

(***************************************************************************)
(* The sweep finds nothing in what the structured pass has rewritten: one  *)
(* pass over a mention is a fixed point. (Validate probes only the variant *)
(* origins themselves, and with a scheme.)                                 *)
(***************************************************************************)
NoDoubleRewrite ==
    [][SweepAgain => mention' = mention]_vars

(***************************************************************************)
(* A link followed from a page arrives at the site whose origin the        *)
(* database wrote, and at no other: what rewriting does to the mention and *)
(* what routing does with the host agree.                                  *)
(***************************************************************************)
FollowedHome ==
    stage = "followed" => SiteForHost(sites, arrived) = Owners(written)

(***************************************************************************)
(* A mention that is served, saved and served again any number of times    *)
(* stays its site's, and what is saved is the primary canonical origin.    *)
(***************************************************************************)
SavedHome ==
    stage = "saved" =>
        \A i \in Owners(written) : Writes(mention, sites[i].canonical)
=============================================================================
