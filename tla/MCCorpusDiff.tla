---------------------------- MODULE MCCorpusDiff ----------------------------
(* The deployments TLC gives CorpusDiff: every small site of links with plain
   content, and every content on a site of a page and a stylesheet. *)
EXTENDS CorpusDiff

CONSTANTS Own, Neighbour

In(space, place) == {[space |-> space, place |-> place]}
OwnProxy == [variant |-> Own, dryRun |-> FALSE, strict |-> FALSE, noSweep |-> FALSE, compress |-> FALSE]
Proxies == {OwnProxy, [OwnProxy EXCEPT !.dryRun = TRUE], [OwnProxy EXCEPT !.noSweep = TRUE],
            [OwnProxy EXCEPT !.strict = TRUE]}

Answer(ct, json, text, size) ==
  [r |-> [Plain("200") EXCEPT !.ct = ct, !.json = json, !.text = text],
   lines |-> size[1], bytes |-> size[2]]
APage == Answer("html", "no", {}, <<40, 400>>)
AStyle == Answer("css", "no", In(Canon, "plain"), <<1, 100>>)

\* Sites: three pages and a stylesheet, with links between them.
URL(p) == [space |-> Canon, path |-> p]
Lists(S) == {SetToSeq({URL(p) : p \in T}) : T \in SUBSET S}
NoLinks == [docs |-> <<>>, subs |-> <<>>]
Elsewhere == [space |-> Neighbour, path |-> "/c"]
Sites ==
  {("/" :> [docs |-> d1 \o <<Elsewhere>>, subs |-> s1]) @@ ("/a" :> [docs |-> d2, subs |-> s2])
     @@ [p \in Paths |-> NoLinks] :
       d1 \in Lists({"/a", "/b"}), s1 \in Lists({"/b", "/s"}),
       d2 \in Lists({"/", "/b", "/c"}), s2 \in Lists({"/b", "/c", "/s"})}
\* A page that the head names before another page's body links it.
Framed ==
  ("/" :> [docs |-> <<>>, subs |-> <<URL("/a"), URL("/s"), URL("/b")>>])
    @@ ("/a" :> [docs |-> <<URL("/b")>>, subs |-> <<>>]) @@ [p \in Paths |-> NoLinks]
\* All pages whole, or one whose answer breaks off.
Whole  == [p \in Paths |-> APage]
Broken == [Whole EXCEPT !["/a"].r.cut = TRUE]
Crawls ==
  {[site |-> s, app |-> a, paths |-> <<>>, n |-> k, inPath |-> TRUE,
    cfg |-> OwnProxy, strict |-> FALSE, edits |-> {}] :
     s \in Sites \cup {Framed}, a \in {Whole, Broken}, k \in {-1, 0, 1, 2}}

\* Contents: in every shape and size, and every redirect.
Shapes == {<<"html", "no">>, <<"json", "ok">>, <<"json", "bad">>, <<"json", "no">>,
           <<"text", "no">>, <<"text", "ok">>, <<"css", "no">>, <<"event-stream", "no">>}
Texts == {{}} \cup {In(Canon, p) : p \in Places} \cup {In(a, "plain") : a \in Aliases}
         \cup {In(Own, p) : p \in {"plain", "hidden"}} \cup {In(Neighbour, "plain")}
Bodily ==
  LET plain == {Answer(t[1], t[2], x, <<0, 100>>) : t \in Shapes, x \in Texts}
  IN  plain \cup {[a EXCEPT !.r.attachment = TRUE] : a \in plain}
            \cup {[a EXCEPT !.r.big = TRUE] : a \in plain}
            \cup {[a EXCEPT !.r.coding = "br", !.r.encoding = "br"] : a \in plain}
            \cup {[Answer("html", "no", x, <<0, 100>>) EXCEPT !.r.encoding = "br"] : x \in Texts}
            \cup {[Answer("html", "no", x, <<0, 100>>) EXCEPT !.r.status = "206"] : x \in Texts}
Moved ==
  {[Answer("html", "no", {}, z) EXCEPT !.r.status = "302", !.r.location = l] :
     z \in {<<0, 0>>, <<2, 90>>},
     l \in {[space |-> c, path |-> p] : c \in CanonicalSet \cup {Own, Neighbour}, p \in {"/", "/a"}}}
Sized == {Answer("html", "no", {}, z) : z \in {<<0, 0>>, <<8, 3>>, <<40, 400>>}}
\* What a page may become: another text, another size on either side of each
\* bound, another status, a redirect.
Revisions ==
  {Answer("html", "no", x, <<0, 100>>) : x \in {{}, In(Own, "plain"), In(Canon, "escaped")}}
    \cup {Answer("html", "no", {}, z) :
            z \in {<<48, 400>>, <<49, 400>>, <<32, 300>>, <<31, 300>>, <<40, 299>>, <<40, 501>>}}
    \cup {[APage EXCEPT !.r.status = "404"],
          [APage EXCEPT !.r.status = "302", !.r.location = URL("/a")]}
Contents ==
  {[site |-> [p \in Paths |-> NoLinks],
    app |-> ("/" :> home) @@ ("/s" :> AStyle) @@ [p \in Paths |-> APage],
    paths |-> <<"/s", "/", "/a">>, n |-> 2, inPath |-> i, cfg |-> c, strict |-> s,
    edits |-> Revisions] :
     home \in Bodily \cup Moved \cup Sized, i \in BOOLEAN,
     c \in Proxies, s \in BOOLEAN}

Both == Crawls \cup Contents
Alphabetical == <<"/", "/a", "/b", "/c", "/s">>
=============================================================================
