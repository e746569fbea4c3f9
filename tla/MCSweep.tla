------------------------------ MODULE MCSweep -------------------------------
(***************************************************************************)
(* Documents for the sweep: one reference in every context and with every  *)
(* tail the matcher tells apart, far enough from the start and the end of  *)
(* the stream that reads fall before, inside and after it.                 *)
(***************************************************************************)
EXTENDS Sweep

TheHost == <<"h">>

Filler(n) == [i \in 1..n |-> "x"]

Contexts == {<<>>, <<"x">>, <<" ">>, <<"/">>, <<":">>}

Tails == {<<>>, <<"/">>, <<"x">>, <<"?">>, <<" ">>,
          <<".">>, <<".", "/">>, <<".", " ">>, <<".", "x">>,
          <<":">>, <<":", "/">>, <<":", "x">>,
          <<":", "4", "/">>, <<":", "0", "4", "/">>, <<":", "9", "/">>,
          <<":", "4", "x">>, <<":", "0", "/">>, <<".", ":", "4", "/">>,
          <<"t", "x">>, <<"t", " ">>, <<"t", "t", "/">>, <<"t", "t", "x">>,
          <<":", "4", "t", "/">>, <<":", "4", "t", "x">>}

Reference(form, tail) == form \o <<"/", "/", "h">> \o tail

Endings == {<<>>, Filler(MaxMatchLen), <<"p", "/", "/", "h", "/">> \o Filler(3)}

OneReference ==
    {Filler(n) \o c \o Reference(f, t) \o e :
        n \in {0, 2}, c \in Contexts, f \in {<<>>, <<"p">>}, t \in Tails, e \in Endings}

\* They are of those that the theorems are about.
ASSUME PortsFitAssumption == \A d \in OneReference : PortsFit(d)

\* Where nothing is removed, what a browser reads as a reference is one that is
\* spelled plainly.
ASSUME PlainIsAll ==
    \A d \in OneReference :
        Range(d) \cap Removed = {} => References(d) = {i \in DOMAIN d : PlainReference(d, i)}

\* A removed byte before the port, which a URL parser takes out before it
\* reads the port.
PortAfterRemoved == {Reference(<<"p">>, <<"t", ":", "9", "/">>) \o Filler(MaxMatchLen)}
=============================================================================
