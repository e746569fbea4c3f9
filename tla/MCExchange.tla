----------------------------- MODULE MCExchange -----------------------------
(* The inputs TLC gives Exchange: texts of at most one mention in every place
   and space, the header combinations that arise together. *)
EXTENDS Exchange

CONSTANTS Own, Neighbour   \* this worktree's variant, and another worktree's

In(space, place) == {[space |-> space, place |-> place]}
OneOf(space) == {In(space, p) : p \in Places}
Texts == {{}} \cup OneOf(Canon) \cup {In(a, "plain") : a \in Aliases}
         \cup {In(Neighbour, "plain")}

AllProxies  == {c \in Configs : c.variant = Own}
AnIdentity  == {c \in Configs : c.variant = Canon}
EveryProxy  == AllProxies \cup AnIdentity
LiveProxies == {c \in AllProxies : ~c.dryRun /\ ~c.compress}
OneLive     == {c \in LiveProxies : ~c.strict /\ ~c.noSweep}

At(space) == [space |-> space, path |-> "/"]
Ask(method, kind, body) ==
  {[method |-> method, url |-> At(s), kind |-> kind, body |-> body, line |-> {},
    big |-> FALSE, cut |-> FALSE, range |-> FALSE, gzip |-> g, match |-> None] :
     s \in {c.variant : c \in Proxies}, g \in BOOLEAN}

\* Reads, and one write, to be answered in every way.
Reads == Ask("GET", "none", {}) \cup Ask("HEAD", "none", {}) \cup Ask("POST", "other", {})

\* Writes of every kind, some to a host not in the map, with one answer.
Bodily(space) == {{}} \cup OneOf(space) \cup {In(Neighbour, "plain"), In(Canon, "plain")}
WriteOf(space) ==
  {[method |-> m, url |-> At(h), kind |-> k, body |-> b, line |-> l,
    big |-> size[1], cut |-> size[2], range |-> TRUE, gzip |-> TRUE, match |-> None] :
     m \in {"POST"}, h \in {space, Neighbour}, k \in Kinds \ {"none"},
     b \in Bodily(space), l \in {{}, In(space, "escaped")},
     size \in {<<FALSE, FALSE>>, <<TRUE, FALSE>>, <<FALSE, TRUE>>}}
Saves == UNION {WriteOf(c.variant) : c \in Proxies}

Resp(status, ct, json, enc, coding, text, size) ==
  LET b == [text |-> text, coding |-> coding]
  IN  [Plain(status) EXCEPT !.ct = ct, !.json = json, !.encoding = enc,
         !.coding = coding, !.text = text, !.length = b, !.etag = b,
         !.big = size[1], !.cut = size[2]]

Sizes == {<<FALSE, FALSE>>, <<TRUE, FALSE>>, <<FALSE, TRUE>>}
Encodings == {<<"identity", "identity">>, <<"gzip", "gzip">>, <<"gzip", "identity">>,
              <<"br", "br">>}
Shapes == {<<"html", "no">>, <<"json", "ok">>, <<"json", "bad">>, <<"text", "no">>,
           <<"text", "ok">>, <<"css", "no">>, <<"event-stream", "no">>}

Pages == {Resp(s, t[1], t[2], e[1], e[2], x, z) :
            s \in {"200"}, t \in Shapes, e \in Encodings, x \in Texts, z \in Sizes}

Downloads == {[Resp("200", t[1], t[2], e[1], e[2], In(Canon, "plain"), <<FALSE, FALSE>>)
                 EXCEPT !.attachment = TRUE] :
                t \in {<<"html", "no">>, <<"json", "ok">>}, e \in Encodings}

Ranges == {Resp("206", "html", "no", "identity", "identity", x, <<FALSE, FALSE>>) : x \in Texts}

\* Without a body: to HEAD, or a status that has none.  The length and the
\* validator are those of the body a GET would have had.
Bodiless == {[Resp(s, t[1], t[2], e, e, x, <<FALSE, FALSE>>)
                EXCEPT !.text = {}, !.empty = TRUE] :
               s \in {"200", "204", "304"}, t \in {<<"html", "no">>, <<"json", "ok">>, <<"css", "no">>},
               e \in {"identity", "gzip"}, x \in {{}, In(Canon, "plain")}}

Headed == {[Resp(s, "text", j, "identity", "identity", {}, <<FALSE, FALSE>>)
              EXCEPT !.location = l, !.link = k, !.domain = d] :
             s \in Redirects \cup {"200"}, j \in {"no", "ok"},
             l \in {None} \cup {[space |-> c, path |-> p] :
                      c \in CanonicalSet \cup {Own, Neighbour}, p \in Paths},
             k \in {{}, In(Canon, "escaped")}, d \in BOOLEAN}

EveryRequest == Reads \cup Saves
AllAnswers == Pages \cup Downloads \cup Ranges \cup Bodiless \cup Headed
ToRead(q)    == AllAnswers
ToEither(q)  == IF q \in Reads THEN AllAnswers
                ELSE {Resp("200", "json", "ok", "identity", "identity", {}, <<FALSE, FALSE>>)}
Links == {In(Canon, "plain"), In(Canon, "hidden")}
=============================================================================
