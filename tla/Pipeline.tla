------------------------------ MODULE Pipeline ------------------------------
(***************************************************************************)
(* What internal/proxy does to one request and to one response, as         *)
(* operators: the header pass, the self-redirect guard, the cookie pass,   *)
(* decoding, the content-type arms, the validators and --compress, in the  *)
(* order proxy.go and transport.go run them.                               *)
(*                                                                         *)
(* A text (a body, a query string, a header value) is the set of origins   *)
(* mentioned in it.  A mention has a space (the canonical host's, an       *)
(* alias's or one worktree's variant) and a place, which says what finds   *)
(* it there:                                                               *)
(*   "plain"    every pass does;                                           *)
(*   "escaped"  a pass that knows the grammar does, the byte sweep not;    *)
(*   "stray"    only the sweep does (a JSON key, a file in a form);        *)
(*   "hidden"   nothing does (inside base64).                              *)
(* A length or a validator is represented by the body it was made for.     *)
(*                                                                         *)
(* Content type "text" stands for the plain, the XML and the               *)
(* --rewrite-type types, "css" for every type that is never rewritten.     *)
(* What an over-long body's first bytes hide in base64 is not modelled.    *)
(* An operator whose comment begins "Bug:" is a wrong form of the one that *)
(* follows it, which the runs must be able to tell from the right one.     *)
(***************************************************************************)
EXTENDS FiniteSets

CONSTANTS
  Canon,    \* the primary canonical space
  Aliases,  \* the site's other canonical spaces
  Others,   \* every other space: the variants of the worktrees
  Paths,    \* request paths
  None      \* no such header

CanonicalSet == Aliases \cup {Canon}

Spaces   == CanonicalSet \cup Others
Places   == {"plain", "escaped", "stray", "hidden"}
Mentions == [space : Spaces, place : Places]
URLs     == [space : Spaces, path : Paths]

Methods   == {"GET", "HEAD", "POST"}
Safe      == {"GET", "HEAD"}
Redirects == {"301", "302", "303", "307", "308"}
Statuses  == Redirects \cup {"200", "204", "206", "304", "404", "421", "502"}

\* What a body is on the wire, and so what a length or a validator names.
Codings == {"identity", "gzip", "br"}
Bodies  == [text : SUBSET Mentions, coding : Codings]

ASSUME SpacesAssumption == /\ Canon \notin Aliases
                           /\ CanonicalSet \cap Others = {}
ASSUME NoneAssumption == None \notin URLs \cup Bodies

\* The flags of one proxy, and the space its map takes canonical origins to.
\* The map is the identity when that is the only canonical space itself.
Configs == [variant : Spaces, dryRun : BOOLEAN, strict : BOOLEAN,
            noSweep : BOOLEAN, compress : BOOLEAN]
Identity(c) == CanonicalSet = {c.variant}

\* Which places a pass reaches.
Grammar == {"plain", "escaped"}
Bytes   == {"plain", "stray"}
Flat    == {"plain", "escaped", "stray"}

\* Matcher.Rewrite, with the spellings of HostLeaks: every mention of a space in
\* `from` that is within reach becomes one of `to`.  Nothing else moves.
Retarget(text, from, to, reach) ==
  {IF m.space \in from /\ m.place \in reach THEN [m EXCEPT !.space = to] ELSE m :
     m \in text}

Hides(text, from) == \E m \in text : m.space \in from /\ m.place = "hidden"

\* Bug: no sweep behind the parser.
RewriteJSONOnly(c, text, parses, from, to) ==
  IF parses THEN Retarget(text, from, to, Grammar) ELSE text

\* RewriteJSON leaves a document it cannot parse alone; the sweep runs after
\* it either way, unless --no-sweep.
RewriteJSON(c, text, parses, from, to) ==
  LET spliced == IF parses THEN Retarget(text, from, to, Grammar) ELSE text
  IN  IF c.noSweep THEN spliced ELSE Retarget(spliced, from, to, Bytes)

RewriteHTML(c, text) ==
  Retarget(Retarget(text, CanonicalSet, c.variant, Grammar), CanonicalSet, c.variant,
           IF c.noSweep THEN {} ELSE Bytes)

-----------------------------------------------------------------------------
(* The request. *)

Kinds == {"flat", "json", "badjson", "multipart", "other", "none"}
Requests ==
  [method : Methods, url : URLs, kind : Kinds, body : SUBSET Mentions,
   line : SUBSET Mentions,                 \* query, path, Referer and Origin
   big : BOOLEAN, cut : BOOLEAN,           \* over the cap; reading it fails
   range : BOOLEAN, gzip : BOOLEAN,        \* Range; Accept-Encoding takes gzip
   match : Bodies \cup {None}]             \* If-None-Match

\* Bug: the sweep is for responses only, so a JSON key goes upstream as it came.
RequestBodyUnswept(c, q) ==
  IF q.kind = "json" THEN Retarget(q.body, {c.variant}, Canon, Grammar)
  ELSE Retarget(q.body, {c.variant}, Canon, Flat)

\* rewriteRequestBody, for the kinds bodyKind tells apart.
RequestBody(c, q) ==
  CASE q.kind = "flat"      -> Retarget(q.body, {c.variant}, Canon, Flat)
    [] q.kind = "multipart" -> Retarget(q.body, {c.variant}, Canon, Grammar)
    [] q.kind = "json"      -> RewriteJSON(c, q.body, TRUE, {c.variant}, Canon)
    [] q.kind = "badjson"   -> RewriteJSON(c, q.body, FALSE, {c.variant}, Canon)

\* Whether rewriteRequestBody gets as far as rewriting.
ReadsBody(q) == q.method = "POST" /\ q.kind \notin {"other", "none"} /\ ~q.cut

\* What the upstream is asked: rewriteRequestBody, then rewriteRequest.  The
\* upstream reads no Range and no gzip from hostshift.
Forwarded(c, q) ==
  [q EXCEPT
    !.url   = [@ EXCEPT !.space = Canon],
    !.line  = IF c.dryRun THEN @ ELSE Retarget(@, {c.variant}, Canon, Grammar),
    !.body  = IF ReadsBody(q) /\ ~q.big /\ ~c.dryRun THEN RequestBody(c, q) ELSE @,
    !.range = FALSE,
    !.gzip  = FALSE]

\* Bug: only the arm for forms looks for base64.
RequestLogOfForms(c, q) ==
  IF ReadsBody(q) /\ q.big THEN {"size-cap"}
  ELSE IF q.kind = "flat" /\ Hides(q.body, {c.variant}) THEN {"base64"} ELSE {}

RequestLog(c, q) ==
  (IF ReadsBody(q) /\ q.big THEN {"size-cap"} ELSE {})
  \cup (IF ReadsBody(q) /\ ~q.big /\ q.kind = "badjson" THEN {"not-decodable"} ELSE {})
  \cup (IF ReadsBody(q) /\ ~q.big /\ c.variant # Canon /\ Hides(q.body, {c.variant}) THEN {"base64"} ELSE {})

-----------------------------------------------------------------------------
(* The response. *)

Types == {"html", "json", "text", "css", "event-stream"}
ResponseRecords ==
  [status : Statuses, location : URLs \cup {None},
   link : SUBSET Mentions,                 \* the rest of originHeaders
   domain : BOOLEAN,                       \* a cookie for a canonical domain
   vary : SUBSET {"Host", "Accept-Encoding"},
   ct : Types, attachment : BOOLEAN, encoding : Codings,
   length : Bodies \cup {None}, etag : Bodies \cup {None},
   text : SUBSET Mentions, coding : Codings,
   json : {"ok", "bad", "no"},             \* the text is JSON; broken; is not
   empty : BOOLEAN,                        \* no body at all: HEAD, 204, 304
   big : BOOLEAN, cut : BOOLEAN]           \* over the cap; breaks off

\* No coding goes without its label, and no body has no mentions.
Responses ==
  {r \in ResponseRecords : /\ r.encoding = "identity" => r.coding = "identity"
                           /\ r.empty => r.text = {}}

Body(r) == [text |-> r.text, coding |-> r.coding]

Plain(code) ==
  [status |-> code, location |-> None, link |-> {}, domain |-> FALSE,
   vary |-> {}, ct |-> "text", attachment |-> FALSE, encoding |-> "identity",
   length |-> [text |-> {}, coding |-> "identity"], etag |-> None,
   text |-> {}, coding |-> "identity", json |-> "no", empty |-> FALSE,
   big |-> FALSE, cut |-> FALSE]

ToVariant(c, u) == IF u.space \in CanonicalSet THEN [u EXCEPT !.space = c.variant] ELSE u

\* Bug: compared before it is rewritten.
SelfRedirectAsSent(c, q, r) ==
  r.status \in Redirects /\ q.method \in Safe /\ r.location = q.url

\* The guard of modifyResponse: rewriting this Location would send the browser
\* back to the request it just made.
SelfRedirect(c, q, r) ==
  /\ r.status \in Redirects
  /\ q.method \in Safe
  /\ r.location # None
  /\ ToVariant(c, r.location) = q.url

\* Bug: a carve-out for the whole header block instead of one header.
RewriteHeadersOrNone(c, r, skipLocation) ==
  IF c.dryRun \/ skipLocation THEN r
  ELSE [r EXCEPT !.location = IF @ = None THEN @ ELSE ToVariant(c, @),
                 !.link     = Retarget(@, CanonicalSet, c.variant, Grammar)]

RewriteOriginHeaders(c, r, skipLocation) ==
  IF c.dryRun THEN r
  ELSE [r EXCEPT
    !.location = IF skipLocation \/ @ = None THEN @ ELSE ToVariant(c, @),
    !.link     = Retarget(@, CanonicalSet, c.variant, Grammar)]

DropCookieDomain(c, r) ==
  IF c.dryRun \/ Identity(c) THEN r ELSE [r EXCEPT !.domain = FALSE]

\* Bug: only the pages whose body is rewritten vary.
AddVaryToPages(c, r) ==
  IF c.dryRun \/ Identity(c) \/ r.ct # "html" THEN r
  ELSE [r EXCEPT !.vary = @ \cup {"Host"}]

\* Bug: a guard for --dry-run, none for the identity map.
AddVaryAlways(c, r) ==
  IF c.dryRun THEN r ELSE [r EXCEPT !.vary = @ \cup {"Host"}]

AddVary(c, r) ==
  IF c.dryRun \/ Identity(c) THEN r ELSE [r EXCEPT !.vary = @ \cup {"Host"}]

\* decodeBody: gzip that really is gzip is undone, and the label and the length
\* go with it.  Anything else labelled stays as it is and is not rewritten.
Decodable(r) ==
  \/ r.encoding = "identity"
  \/ r.encoding = "gzip" /\ r.coding = "gzip" /\ ~r.empty
Decoded(r) ==
  IF r.encoding = "identity" THEN r
  ELSE [r EXCEPT !.coding = "identity", !.encoding = "identity", !.length = None]

\* compressBody
Compress(c, q, r) ==
  IF ~q.gzip \/ r.status \in {"204", "304"} \/ q.method = "HEAD" \/ Identity(c)
  THEN r
  ELSE IF r.cut THEN [r EXCEPT !.text = {}, !.coding = "identity", !.cut = FALSE]
  ELSE [r EXCEPT !.coding = "gzip", !.encoding = "gzip",
                 !.length = [text |-> r.text, coding |-> "gzip"],
                 !.vary = @ \cup {"Accept-Encoding"}]

\* Bug: the length goes, the validators stay.
FinishKeepsValidators(c, q, r, changed) ==
  LET s == IF ~Identity(c) /\ ~c.dryRun THEN [r EXCEPT !.length = None] ELSE r
  IN  IF c.compress /\ ~c.dryRun THEN Compress(c, q, s) ELSE s

\* The tail of finishBody: an arm that changed anything drops length and
\* validators.
Finish(c, q, r, changed) ==
  LET s == IF (changed \/ ~Identity(c)) /\ ~c.dryRun
           THEN [r EXCEPT !.length = None, !.etag = None]
           ELSE r
  IN  IF c.compress /\ ~c.dryRun THEN Compress(c, q, s) ELSE s

Result(r, log) == [resp |-> r, log |-> log, failed |-> FALSE]
Failure        == [resp |-> Plain("502"), log |-> {}, failed |-> TRUE]

\* Bug: the error of the read is dropped, as if the body had ended there.
BufferedUnchecked(c, q, r, changed, out, log) ==
  IF r.big THEN Result(r, {"size-cap"})
  ELSE Result(Finish(c, q, [r EXCEPT !.text = IF c.dryRun THEN @ ELSE out, !.cut = FALSE],
                     changed), log)

\* A buffered arm, whose rewriting of the text is `out`: over the cap the body
\* streams through, a body that breaks off below it is an error, and one that
\* comes out as it went in keeps what the upstream said of it.
Buffered(c, q, r, changed, out, log) ==
  LET new  == IF c.dryRun THEN r.text ELSE out
      told == IF ~Identity(c) /\ Hides(r.text, CanonicalSet) THEN {"base64"} ELSE {}
  IN  IF r.big THEN Result(r, {"size-cap"})
      ELSE IF r.cut THEN Failure
      ELSE IF new = r.text /\ ~changed THEN Result(r, log \cup told)
      ELSE Result(Finish(c, q, [r EXCEPT !.text = new], changed), log \cup told)

BufferedJSON(c, q, r, changed) ==
  Buffered(c, q, r, changed,
           RewriteJSON(c, r.text, r.json = "ok", CanonicalSet, c.variant),
           IF r.json = "ok" \/ r.empty THEN {} ELSE {"not-decodable"})

\* The content-type switch of finishBody.
Arm(c, q, r, changed) ==
  CASE r.attachment -> Result(r, {"attachment"})
    [] ~r.attachment /\ r.ct = "html" ->
         Result(Finish(c, q, [r EXCEPT !.text =
                  IF c.dryRun THEN @ ELSE RewriteHTML(c, @)],
                  changed), {})
    [] ~r.attachment /\ \/ r.ct = "json"
                        \/ r.ct = "text" /\ r.json # "no" ->
         BufferedJSON(c, q, r, changed)
    [] ~r.attachment /\ r.ct = "text" /\ r.json = "no" ->
         Buffered(c, q, r, changed, Retarget(r.text, CanonicalSet, c.variant, Flat), {})
    [] ~r.attachment /\ r.ct = "event-stream" -> Result(r, {"event-stream"})
    [] ~r.attachment /\ r.ct = "css" -> Result(r, {})

FinishBody(c, q, r, changed) ==
  LET v == AddVary(c, r)
  IN  CASE r.status = "206" -> Result(v, {"range"})
        [] r.status # "206" /\ (c.dryRun \/ Identity(c)) ->
             IF v.encoding = "identity" THEN Arm(c, q, v, changed)
             ELSE Result(v, IF c.dryRun THEN {"not-decodable"} ELSE {})
        [] r.status # "206" /\ ~c.dryRun /\ ~Identity(c) ->
             IF Decodable(v) THEN Arm(c, q, Decoded(v), changed)
             ELSE Result(v, {"not-decodable"})

\* modifyResponse, and the error handler behind it.
ModifyResponse(c, q, r) ==
  IF SelfRedirect(c, q, r) /\ c.strict THEN Result(Plain("404"), {})
  ELSE LET self == SelfRedirect(c, q, r)
           h    == DropCookieDomain(c, RewriteOriginHeaders(c, r, self))
           x    == FinishBody(c, q, h, h # r)
       IN  [x EXCEPT !.log = @ \cup IF self THEN {"self-redirect"} ELSE {}]
=============================================================================
