----------------------------- MODULE MCHostMap ------------------------------
(***************************************************************************)
(* Two sites over four hosts, both schemes, a port and none. The first has *)
(* the canonical origin https://c1 and perhaps an alias that is one of the *)
(* names the other roles use; everything else is arbitrary, the two names  *)
(* being the same included.                                                *)
(***************************************************************************)
EXTENDS HostMap

Origins == [scheme : Schemes, host : Hosts, port : {"", "8443"}]

O(scheme, host, port) == [scheme |-> scheme, host |-> host, port |-> port]

AliasLists ==
    {<<>>, <<O("https", "c2", "")>>, <<O("http", "v1", "")>>}

FirstSites ==
    [name : {"one"}, canonical : {O("https", "c1", "")}, aliases : AliasLists, variant : Origins]

SecondSites ==
    [name : {"one", "two"}, canonical : Origins, aliases : {<<>>}, variant : Origins]

TwoSites == {<<s, t>> : s \in FirstSites, t \in SecondSites}

\* A variant on the other scheme's default port, where a canonical host is.
OtherDefaultPort ==
    {<<[name |-> "one", canonical |-> O("https", "c1", ""), aliases |-> <<>>,
        variant |-> O("https", "v1", "")],
       [name |-> "two", canonical |-> O("https", "c2", ""), aliases |-> <<>>,
        variant |-> v]>> : v \in Origins \cup {O("http", "c1", "443")}}
=============================================================================
