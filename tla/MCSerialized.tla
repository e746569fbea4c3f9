---------------------------- MODULE MCSerialized ----------------------------
(***************************************************************************)
(* Rows, pages and posts for the repair: strings whose length the mapping  *)
(* changes, in every container and nested, with data that looks like the   *)
(* grammar around it; every spelling in the field it is found in.          *)
(***************************************************************************)
EXTENDS Serialized

Host == Text(<<"h">>)
Nest(v) == Holder("a", Holder("a", v))

OptionRows == {
    Holder("a", Host),
    Holder("a", Text(<<"g">>)),
    Text(<<"g", "h">>),
    Text(<<"x", "g", "g", "\"", ";">>),
    Holder("O", Str(<<"g">>, Host, <<>>, 0)),
    Str(<<"g">>, Str(<<>>, Text(<<"x", "g">>), <<>>, 0), <<" ", "h">>, 0),
    Holder("a", [t |-> "C", data |-> <<"g", "&", "x">>]),
    Nest(Nest(Text(<<"g", "h">>))),
    Holder("a", Text(<<"h", "/", "E4">>)),
    Holder("O", Text(<<"x", "h", "h">>)),
    Holder("a", [t |-> "C", data |-> <<"h", "&", "x">>]),
    Text(<<"x">>),
    Text(<<"h", "&", "x">>),
    Text(<<"h", "x", "x", "x", "x", "x", "x", "x", "x", "x", "x", "x">>),
    Text(<<"h", "&", "\"", ";", "x", "x">>),
    Text(<<"h", "&amp;", "x">>),
    Text(<<"&", "\"", ";", "h">>),
    Str(<<"h", "&">>, Holder("a", Text(<<"h", "&">>)), <<>>, 0),
    Text(<<"h", "h", "\"", ";">>),
    Holder("a", Text(<<"h", "h", "h", "\"", ";", "}">>)),
    Holder("a", [t |-> "E"]),
    Text(<<"N", ";", "h">>),
    Str(<<"h">>, Host, <<>>, 0),
    Str(<<"x">>, Holder("a", Text(<<"x", "h">>)), <<" ", "h">>, 0),
    Str(<<>>, Str(<<>>, Host, <<>>, 0), <<>>, 0),
    Str(<<>>, Str(<<>>, Str(<<>>, Host, <<>>, 0), <<>>, 0), <<>>, 0),
    Holder("a", Str(<<"h">>, NoValue, <<>>, 1)),
    Str(<<"h">>, Str(<<"x">>, NoValue, <<>>, 1), <<>>, 0)}

P(layers, before, after, fills) ==
    [layers |-> layers, before |-> before, after |-> after, fills |-> fills,
     read |-> layers # <<"esc", "esc2">>]

AllPages == {
    P(<<>>, <<>>, <<>>, TRUE),
    P(<<>>, <<">", " ">>, <<"<">>, TRUE),
    P(<<>>, <<"[">>, <<"]">>, TRUE),
    P(<<>>, <<"x">>, <<>>, TRUE),
    P(<<>>, <<"x", " ">>, <<" ", "x">>, FALSE),
    P(<<"pct">>, <<"x", "=">>, <<>>, TRUE),
    P(<<"pct">>, <<"\"">>, <<"\"">>, TRUE),
    P(<<"esc">>, <<>>, <<>>, TRUE),
    P(<<"esc">>, <<"\"">>, <<"\"">>, TRUE),
    P(<<"json">>, <<"\"">>, <<"\"">>, TRUE),
    P(<<"hex">>, <<"\"">>, <<"\"">>, TRUE),
    P(<<"json", "esc">>, <<"&quot;">>, <<"&quot;">>, TRUE),
    P(<<"esc", "pct">>, <<"x", "=">>, <<>>, TRUE),
    P(<<"json", "pct">>, <<"%\"">>, <<"%\"">>, TRUE),
    P(<<"esc", "json">>, <<"\"">>, <<"\"">>, TRUE),
    P(<<"json", "json">>, <<>>, <<>>, TRUE),
    P(<<"json", "json">>, <<"\\", "\"">>, <<"\\", "\"">>, FALSE),
    P(<<"esc", "esc2">>, <<"h", " ">>, <<>>, FALSE),
    P(<<"esc", "esc2">>, <<>>, <<" ", "h">>, FALSE)}

\* A value glued to a letter, with more text after it.
GluedPages == {P(<<>>, <<"x">>, <<" ", "x">>, FALSE)}

Q(layers, form) == [layers |-> layers, form |-> form]

AllPosts == {
    Q(<<>>, FALSE),
    Q(<<"pct">>, TRUE),
    Q(<<"json", "pct">>, TRUE),
    Q(<<"esc", "pct">>, TRUE),
    Q(<<"pct", "pct">>, TRUE)}
=============================================================================
