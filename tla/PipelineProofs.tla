--------------------------- MODULE PipelineProofs ---------------------------
(***************************************************************************)
(* What the operators of Pipeline do, stage by stage, for any spaces, any  *)
(* flags, and any request or response: the lemmas that the proofs about    *)
(* Exchange, Worktrees and CorpusDiff cite.                                *)
(***************************************************************************)
EXTENDS Pipeline, TLAPS

\* A mention that a pass leaves, or makes.
LEMMA RetargetMention ==
    ASSUME NEW text, NEW from, NEW to, NEW reach, NEW m \in Retarget(text, from, to, reach),
           \A x \in text : x \in Mentions
    PROVE  \E x \in text :
             /\ m.place = x.place
             /\ \/ x.space \in from /\ x.place \in reach /\ m.space = to
                \/ ~(x.space \in from /\ x.place \in reach) /\ m = x
BY DEF Retarget, Mentions

LEMMA RetargetTexts ==
    ASSUME NEW text \in SUBSET Mentions, NEW from, NEW to \in Spaces, NEW reach
    PROVE  Retarget(text, from, to, reach) \in SUBSET Mentions
BY DEF Retarget, Mentions

\* A pass from a space to itself changes nothing.
LEMMA RetargetToItself ==
    ASSUME NEW text \in SUBSET Mentions, NEW to, NEW reach
    PROVE  Retarget(text, {to}, to, reach) = text
BY DEF Retarget, Mentions

-----------------------------------------------------------------------------
(* The passes over a text. *)

\* What a mention of another canonical space must be to get through a pass of
\* grammar and sweep.
LEMMA JSONLeaves ==
    ASSUME NEW c \in Configs, NEW text \in SUBSET Mentions, NEW parses \in BOOLEAN,
           NEW from, NEW to \in Spaces,
           NEW m \in RewriteJSON(c, text, parses, from, to), m.space \in from, m.space # to
    PROVE  /\ m \in text
           /\ \/ m.place = "hidden"
              \/ c.noSweep /\ m.place = "stray"
              \/ ~parses /\ (c.noSweep \/ m.place = "escaped")
<1> DEFINE spliced == IF parses THEN Retarget(text, from, to, Grammar) ELSE text
<1>1. spliced \in SUBSET Mentions
  BY RetargetTexts
<1>2. ASSUME NEW x \in spliced, x.space \in from, x.space # to
      PROVE  x \in text /\ (parses => x.place \notin Grammar)
  BY <1>2, RetargetMention DEF Mentions
<1>3. RewriteJSON(c, text, parses, from, to) =
        IF c.noSweep THEN spliced ELSE Retarget(spliced, from, to, Bytes)
  BY DEF RewriteJSON
<1> HIDE DEF spliced
<1>4. m \in spliced /\ (~c.noSweep => m.place \notin Bytes)
  BY <1>1, <1>3, RetargetMention
<1>5. m.place \in Places
  BY <1>1, <1>4 DEF Mentions
<1> QED
  BY <1>2, <1>4, <1>5 DEF Places, Grammar, Bytes

LEMMA HTMLLeaves ==
    ASSUME NEW c \in Configs, NEW text \in SUBSET Mentions,
           NEW m \in RewriteHTML(c, text), m.space \in CanonicalSet, m.space # c.variant
    PROVE  /\ m \in text
           /\ m.place = "hidden" \/ (c.noSweep /\ m.place = "stray")
<1> DEFINE spliced == Retarget(text, CanonicalSet, c.variant, Grammar)
<1>1. spliced \in SUBSET Mentions
  BY RetargetTexts DEF Configs
<1>2. m \in spliced /\ (~c.noSweep => m.place \notin Bytes)
  BY <1>1, RetargetMention DEF RewriteHTML
<1>3. m \in text /\ m.place \notin Grammar /\ m.place \in Places
  BY <1>1, <1>2, RetargetMention DEF Mentions
<1> QED
  BY <1>2, <1>3 DEF Places, Grammar, Bytes

\* The texts that the passes make are texts.
LEMMA RewrittenTexts ==
    ASSUME NEW c \in Configs, NEW text \in SUBSET Mentions, NEW parses \in BOOLEAN,
           NEW from, NEW to \in Spaces
    PROVE  /\ RewriteJSON(c, text, parses, from, to) \in SUBSET Mentions
           /\ RewriteHTML(c, text) \in SUBSET Mentions
<1>1. c.variant \in Spaces
  BY DEF Configs
<1> QED
  BY <1>1, RetargetTexts DEF RewriteJSON, RewriteHTML

\* Under the identity map no pass changes anything.
LEMMA IdentityPasses ==
    ASSUME NEW c \in Configs, Identity(c), NEW text \in SUBSET Mentions
    PROVE  /\ \A parses \in BOOLEAN :
                RewriteJSON(c, text, parses, CanonicalSet, c.variant) = text
           /\ RewriteHTML(c, text) = text
           /\ \A reach : Retarget(text, CanonicalSet, c.variant, reach) = text
           /\ Canon = c.variant
<1>1. CanonicalSet = {c.variant} /\ Canon = c.variant
  BY DEF Identity, CanonicalSet
<1>2. \A reach : Retarget(text, CanonicalSet, c.variant, reach) = text
  BY <1>1, RetargetToItself
<1> QED
  BY <1>1, <1>2 DEF RewriteJSON, RewriteHTML

-----------------------------------------------------------------------------
(* The tail of finishBody. *)

\* What a stage never touches in a response: the headers that name origins, and
\* what it is.
SameHead(x, r) ==
  /\ x.status = r.status /\ x.location = r.location /\ x.link = r.link
  /\ x.domain = r.domain /\ x.ct = r.ct

\* What decides how its body is read, and the body.
SameBody(x, r) ==
  /\ x.text = r.text /\ x.cut = r.cut /\ x.big = r.big /\ x.empty = r.empty
  /\ x.status = r.status /\ x.ct = r.ct /\ x.json = r.json /\ x.attachment = r.attachment
  /\ x.encoding = r.encoding /\ x.coding = r.coding

\* Its length and its validator are about its own text.
Told(r)      == r.length \in {None, Body(r)}
Validated(r) == r.etag = None \/ r.etag.text = r.text

\* Nothing to do, and so nothing to say.
Quiet(c, changed) == c.dryRun \/ (Identity(c) /\ ~changed)

LEMMA CompressCases ==
    ASSUME NEW c \in Configs, NEW q \in Requests, NEW r \in ResponseRecords
    PROVE  \/ Compress(c, q, r) = r
           \/ /\ r.cut /\ ~Identity(c)
              /\ Compress(c, q, r) =
                   [r EXCEPT !.text = {}, !.coding = "identity", !.cut = FALSE]
           \/ /\ ~r.cut /\ ~Identity(c)
              /\ Compress(c, q, r) =
                   [r EXCEPT !.coding = "gzip", !.encoding = "gzip",
                             !.length = [text |-> r.text, coding |-> "gzip"],
                             !.vary = @ \cup {"Accept-Encoding"}]
BY DEF Compress

LEMMA CompressKeeps ==
    ASSUME NEW c \in Configs, NEW q \in Requests, NEW r \in ResponseRecords,
           r.length = None, r.etag = None
    PROVE  LET x == Compress(c, q, r)
           IN  /\ x \in ResponseRecords
               /\ SameHead(x, r)
               /\ x.text \subseteq r.text /\ r.vary \subseteq x.vary
               /\ ~r.cut => x.text = r.text
               /\ Told(x) /\ x.etag = None
               /\ Identity(c) => x = r
<1> DEFINE x == Compress(c, q, r)
<1>1. CASE x = r
  BY <1>1 DEF SameHead, Told
<1>2. CASE /\ r.cut /\ ~Identity(c)
           /\ x = [r EXCEPT !.text = {}, !.coding = "identity", !.cut = FALSE]
  BY <1>2 DEF SameHead, Told, ResponseRecords, Codings
<1>3. CASE /\ ~r.cut /\ ~Identity(c)
           /\ x = [r EXCEPT !.coding = "gzip", !.encoding = "gzip",
                            !.length = [text |-> r.text, coding |-> "gzip"],
                            !.vary = @ \cup {"Accept-Encoding"}]
  <2> DEFINE l == [text |-> r.text, coding |-> "gzip"]
  <2>1. l \in Bodies
    BY DEF ResponseRecords, Bodies, Codings
  <2>2. x = [r EXCEPT !.coding = "gzip", !.encoding = "gzip", !.length = l,
                      !.vary = @ \cup {"Accept-Encoding"}]
    BY <1>3
  <2>3. x.length = l /\ Body(x) = l
    BY <1>3 DEF ResponseRecords, Body
  <2> HIDE DEF l, x
  <2>4. x \in ResponseRecords /\ x.text = r.text /\ x.etag = r.etag
    BY <2>1, <2>2 DEF ResponseRecords, Codings
  <2>5. SameHead(x, r) /\ r.vary \subseteq x.vary
    BY <2>2 DEF ResponseRecords, SameHead
  <2> QED
    BY <1>3, <2>3, <2>4, <2>5 DEF Told, x
<1> HIDE DEF x
<1>4. QED
  BY <1>1, <1>2, <1>3, CompressCases DEF x

LEMMA FinishKeeps ==
    ASSUME NEW c \in Configs, NEW q \in Requests, NEW r \in ResponseRecords,
           NEW changed \in BOOLEAN
    PROVE  LET x == Finish(c, q, r, changed)
           IN  /\ x \in ResponseRecords
               /\ SameHead(x, r)
               /\ x.text \subseteq r.text /\ r.vary \subseteq x.vary
               /\ ~r.cut => x.text = r.text
               /\ Quiet(c, changed) => x = r
               /\ ~Quiet(c, changed) => Told(x) /\ x.etag = None
               /\ ~c.compress => x.text = r.text /\ x.cut = r.cut
<1> DEFINE s == [r EXCEPT !.length = None, !.etag = None]
           x == Finish(c, q, r, changed)
<1>1. /\ s \in ResponseRecords
      /\ s.length = None /\ s.etag = None /\ s.text = r.text /\ s.cut = r.cut
      /\ SameHead(s, r) /\ s.vary = r.vary
  BY DEF ResponseRecords, SameHead
<1>2. CASE c.dryRun
  BY <1>2 DEF Finish, Quiet, SameHead
<1>3. CASE ~c.dryRun /\ Quiet(c, changed)
  <2>1. x = r
    BY <1>3 DEF Finish, Quiet, Compress
  <2> QED
    BY <1>3, <2>1 DEF SameHead
<1>4. CASE ~Quiet(c, changed)
  <2>1. x = IF c.compress THEN Compress(c, q, s) ELSE s
    BY <1>4 DEF Finish, Quiet
  <2> HIDE DEF s, x
  <2>2. CASE c.compress
    <3>1. x = Compress(c, q, s)
      BY <2>1, <2>2
    <3>2. /\ x \in ResponseRecords /\ SameHead(x, s) /\ x.text \subseteq s.text
          /\ s.vary \subseteq x.vary /\ (~s.cut => x.text = s.text)
          /\ Told(x) /\ x.etag = None
      BY <1>1, <3>1, CompressKeeps
    <3>3. SameHead(x, r)
      BY <1>1, <3>2 DEF SameHead
    <3> QED
      BY <1>1, <1>4, <2>2, <3>2, <3>3 DEF x
  <2>3. CASE ~c.compress
    <3>1. x = s
      BY <2>1, <2>3
    <3> QED
      BY <1>1, <1>4, <3>1 DEF Told, x
  <2> QED
    BY <2>2, <2>3
<1> QED
  BY <1>2, <1>3, <1>4

-----------------------------------------------------------------------------
(* The arms of finishBody. *)

\* Why a mention that a response still has may be in it.
Excused(c, r, log, m) ==
  \/ log \cap {"size-cap", "not-decodable", "base64", "attachment",
              "event-stream", "range"} # {}
  \/ r.ct = "css"
  \/ r.ct = "html" /\ m.place = "hidden"
  \/ c.noSweep /\ m.place = "stray"

\* What a live proxy leaves of the canonical spaces in a text it makes of r's.
Accounted(c, r, log, text) ==
  \A m \in text : m.space \in CanonicalSet \ {c.variant} =>
    m \in r.text /\ Excused(c, r, log, m)

\* An arm relays the response, or gives it another text and finishes it, or
\* fails with the read of a body that breaks off.
Handled(c, q, r, changed, x) ==
  \/ /\ x = Failure
     /\ r.cut
  \/ \E log :
       /\ x = Result(r, log)
       /\ ~c.dryRun /\ ~Identity(c) => Accounted(c, r, log, r.text)
  \/ \E out \in SUBSET Mentions : \E log :
       /\ ~Quiet(c, changed)
       /\ x = Result(Finish(c, q, [r EXCEPT !.text = out], changed), log)
       /\ ~Identity(c) => Accounted(c, r, log, out)

LEMMA BufferedHandles ==
    ASSUME NEW c \in Configs, NEW q \in Requests, NEW r \in ResponseRecords,
           NEW changed \in BOOLEAN, NEW out \in SUBSET Mentions, NEW log,
           Identity(c) => out = r.text,
           \A m \in out : m.space \in CanonicalSet \ {c.variant} =>
             /\ m \in r.text
             /\ \/ m.place = "hidden"
                \/ c.noSweep /\ m.place = "stray"
                \/ "not-decodable" \in log
    PROVE  Handled(c, q, r, changed, Buffered(c, q, r, changed, out, log))
<1> DEFINE new  == IF c.dryRun THEN r.text ELSE out
           told == IF ~Identity(c) /\ Hides(r.text, CanonicalSet) THEN {"base64"} ELSE {}
           x    == Buffered(c, q, r, changed, out, log)
<1>1. CASE r.big
  <2>1. x = Result(r, {"size-cap"})
    BY <1>1 DEF Buffered
  <2> QED
    BY <2>1 DEF Handled, Accounted, Excused
<1>2. CASE ~r.big /\ r.cut
  BY <1>2 DEF Handled, Buffered
<1>3. ASSUME ~Identity(c) PROVE Accounted(c, r, log \cup told, out)
  <2> SUFFICES ASSUME NEW m \in out, m.space \in CanonicalSet \ {c.variant}
               PROVE  m \in r.text /\ Excused(c, r, log \cup told, m)
    BY DEF Accounted
  <2>1. m.place = "hidden" => "base64" \in told
    BY <1>3 DEF Hides
  <2> QED
    BY <2>1 DEF Excused
<1>4. CASE ~r.big /\ ~r.cut /\ new = r.text /\ ~changed
  <2>1. x = Result(r, log \cup told)
    BY <1>4 DEF Buffered
  <2>2. ~c.dryRun => out = r.text
    BY <1>4
  <2> QED
    BY <1>3, <2>1, <2>2 DEF Handled
<1>5. CASE ~r.big /\ ~r.cut /\ ~(new = r.text /\ ~changed)
  <2>1. x = Result(Finish(c, q, [r EXCEPT !.text = new], changed), log \cup told)
    BY <1>5 DEF Buffered
  <2>2. CASE c.dryRun
    <3>1. x = Result(Finish(c, q, r, changed), log \cup told)
      BY <2>1, <2>2 DEF ResponseRecords
    <3>2. x = Result(r, log \cup told)
      BY <2>2, <3>1 DEF Finish
    <3> QED
      BY <2>2, <3>2 DEF Handled
  <2>3. CASE ~c.dryRun
    <3>1. ~Quiet(c, changed)
      BY <1>5, <2>3 DEF Quiet
    <3> QED
      BY <1>3, <2>1, <2>3, <3>1 DEF Handled
  <2> QED
    BY <2>2, <2>3
<1> QED
  BY <1>1, <1>2, <1>4, <1>5

LEMMA ArmHandles ==
    ASSUME NEW c \in Configs, NEW q \in Requests, NEW r \in Responses, NEW changed \in BOOLEAN
    PROVE  Handled(c, q, r, changed, Arm(c, q, r, changed))
<1> DEFINE x == Arm(c, q, r, changed)
<1>0. /\ r \in ResponseRecords /\ r.text \in SUBSET Mentions /\ r.ct \in Types
      /\ r.attachment \in BOOLEAN /\ r.json \in {"ok", "bad", "no"}
      /\ r.empty => r.text = {}
      /\ c.variant \in Spaces
  BY DEF Responses, ResponseRecords, Configs
<1>1. CASE r.attachment
  <2>1. x = Result(r, {"attachment"})
    BY <1>1 DEF Arm
  <2> QED
    BY <2>1 DEF Handled, Accounted, Excused
<1>2. CASE ~r.attachment /\ r.ct = "html"
  <2> DEFINE out == IF c.dryRun THEN r.text ELSE RewriteHTML(c, r.text)
  <2>1. x = Result(Finish(c, q, [r EXCEPT !.text = out], changed), {})
    BY <1>2 DEF Arm
  <2>2. out \in SUBSET Mentions
    BY <1>0, RewrittenTexts
  <2>3. CASE Quiet(c, changed)
    <3>1. out = r.text
      BY <1>0, <2>3, IdentityPasses DEF Quiet
    <3>2. x = Result(Finish(c, q, r, changed), {})
      BY <1>0, <2>1, <3>1 DEF ResponseRecords
    <3>3. x = Result(r, {})
      BY <1>0, <2>3, <3>2, FinishKeeps
    <3>4. ~(~c.dryRun /\ ~Identity(c))
      BY <2>3 DEF Quiet
    <3> QED
      BY <3>3, <3>4 DEF Handled
  <2>4. CASE ~Quiet(c, changed)
    <3>1. ~c.dryRun /\ out = RewriteHTML(c, r.text)
      BY <2>4 DEF Quiet
    <3>2. Accounted(c, r, {}, out)
      BY <1>0, <1>2, <3>1, HTMLLeaves DEF Accounted, Excused
    <3> QED
      BY <2>1, <2>2, <2>4, <3>2 DEF Handled
  <2> QED
    BY <2>3, <2>4
<1>3. CASE ~r.attachment /\ (r.ct = "json" \/ (r.ct = "text" /\ r.json # "no"))
  <2> DEFINE ok  == r.json = "ok"
             out == RewriteJSON(c, r.text, ok, CanonicalSet, c.variant)
             log == IF ok \/ r.empty THEN {} ELSE {"not-decodable"}
  <2>1. x = Buffered(c, q, r, changed, out, log)
    BY <1>3 DEF Arm, BufferedJSON
  <2>2. out \in SUBSET Mentions /\ (Identity(c) => out = r.text)
    BY <1>0, RewrittenTexts, IdentityPasses
  <2>3. ASSUME NEW m \in out, m.space \in CanonicalSet \ {c.variant}
        PROVE  /\ m \in r.text
               /\ \/ m.place = "hidden"
                  \/ c.noSweep /\ m.place = "stray"
                  \/ "not-decodable" \in log
    <3> DEFINE parses == ok
    <3>1. parses \in BOOLEAN /\ m \in RewriteJSON(c, r.text, parses, CanonicalSet, c.variant)
      OBVIOUS
    <3> HIDE DEF parses
    <3>2. m.space \in CanonicalSet /\ m.space # c.variant
      BY <2>3
    <3>3. /\ m \in r.text
          /\ m.place = "hidden" \/ (c.noSweep /\ m.place = "stray") \/ ~parses
      BY <1>0, <3>1, <3>2, JSONLeaves
    <3> QED
      BY <1>0, <3>3 DEF parses
  <2> HIDE DEF out, log, x
  <2>4. Handled(c, q, r, changed, Buffered(c, q, r, changed, out, log))
    BY <1>0, <2>2, <2>3, BufferedHandles
  <2> QED
    BY <2>1, <2>4 DEF x
<1>4. CASE ~r.attachment /\ r.ct = "text" /\ r.json = "no"
  <2> DEFINE out == Retarget(r.text, CanonicalSet, c.variant, Flat)
  <2>1. x = Buffered(c, q, r, changed, out, {})
    BY <1>4 DEF Arm
  <2>2. out \in SUBSET Mentions
    BY <1>0, RetargetTexts
  <2>5. Identity(c) => out = r.text
    <3> SUFFICES ASSUME Identity(c) PROVE out = r.text
      OBVIOUS
    <3>1. \A reach : Retarget(r.text, CanonicalSet, c.variant, reach) = r.text
      BY <1>0, IdentityPasses
    <3> QED
      BY <3>1
  <2>3. ASSUME NEW m \in out, m.space \in CanonicalSet \ {c.variant}
        PROVE  m \in r.text /\ m.place = "hidden"
    BY <1>0, <2>3, RetargetMention DEF Mentions, Places, Flat
  <2> HIDE DEF out, x
  <2>4. Handled(c, q, r, changed, Buffered(c, q, r, changed, out, {}))
    BY <1>0, <2>2, <2>3, <2>5, BufferedHandles
  <2> QED
    BY <2>1, <2>4 DEF x
<1>5. CASE ~r.attachment /\ r.ct = "event-stream"
  <2>1. x = Result(r, {"event-stream"})
    BY <1>5 DEF Arm
  <2> QED
    BY <2>1 DEF Handled, Accounted, Excused
<1>6. CASE ~r.attachment /\ r.ct = "css"
  <2>1. x = Result(r, {})
    BY <1>6 DEF Arm
  <2> QED
    BY <1>6, <2>1 DEF Handled, Accounted, Excused
<1> QED
  BY <1>0, <1>1, <1>2, <1>3, <1>4, <1>5, <1>6 DEF Types

-----------------------------------------------------------------------------
(* The way to the arms: headers, cookies, Vary, decoding. *)

Unchanging(c) == c.dryRun \/ Identity(c)

\* A stage before the arms: it leaves the body, and what is said of it stays
\* said of it.
Prepares(c, d, r) ==
  /\ d \in Responses
  /\ d.text = r.text /\ d.cut = r.cut /\ d.status = r.status /\ d.ct = r.ct
  /\ Told(r) => Told(d)
  /\ Validated(r) => Validated(d)
  /\ Unchanging(c) => d = r

LEMMA PreparesTwice ==
    ASSUME NEW c, NEW r, NEW d, NEW e, Prepares(c, d, r), Prepares(c, e, d)
    PROVE  Prepares(c, e, r)
BY DEF Prepares

LEMMA AddVaryPrepares ==
    ASSUME NEW c \in Configs, NEW r \in Responses
    PROVE  LET d == AddVary(c, r)
           IN  /\ Prepares(c, d, r) /\ SameHead(d, r) /\ SameBody(d, r)
               /\ ~Unchanging(c) => "Host" \in d.vary
<1> DEFINE d == [r EXCEPT !.vary = @ \cup {"Host"}]
<1>1. r \in ResponseRecords
  BY DEF Responses
<1>2. d \in Responses
  BY DEF Responses, ResponseRecords
<1>3. /\ d.length = r.length /\ d.etag = r.etag /\ "Host" \in d.vary
      /\ SameHead(d, r) /\ SameBody(d, r)
  BY <1>1 DEF ResponseRecords, SameHead, SameBody
<1> HIDE DEF d
<1>4. CASE Unchanging(c)
  <2>1. AddVary(c, r) = r
    BY <1>4 DEF AddVary, Unchanging
  <2> QED
    BY <1>4, <2>1 DEF Prepares, SameHead, SameBody
<1>5. CASE ~Unchanging(c)
  <2>1. AddVary(c, r) = d
    BY <1>5 DEF AddVary, Unchanging, d
  <2> QED
    BY <1>2, <1>3, <1>5, <2>1 DEF Prepares, SameBody, Told, Validated, Body
<1> QED
  BY <1>4, <1>5

LEMMA DecodedPrepares ==
    ASSUME NEW c \in Configs, ~Unchanging(c), NEW r \in Responses
    PROVE  /\ Prepares(c, Decoded(r), r)
           /\ SameHead(Decoded(r), r)
           /\ Decoded(r).vary = r.vary
<1> DEFINE d == [r EXCEPT !.coding = "identity", !.encoding = "identity", !.length = None]
<1>1. r \in ResponseRecords
  BY DEF Responses
<1>2. d \in Responses
  BY DEF Responses, ResponseRecords, Codings
<1>3. /\ d.text = r.text /\ d.cut = r.cut /\ d.length = None /\ d.etag = r.etag
      /\ SameHead(d, r) /\ d.vary = r.vary
  BY <1>1 DEF ResponseRecords, SameHead
<1> HIDE DEF d
<1>4. Decoded(r) = r \/ Decoded(r) = d
  BY DEF Decoded, d
<1> QED
  BY <1>2, <1>3, <1>4 DEF Prepares, SameHead, Told, Validated

\* However finishBody gets to an arm, or past them all.
LEMMA FinishBodyHandles ==
    ASSUME NEW c \in Configs, NEW q \in Requests, NEW r \in Responses, NEW changed \in BOOLEAN
    PROVE  \E d \in Responses :
             /\ Prepares(c, d, r) /\ SameHead(d, r)
             /\ ~Unchanging(c) => "Host" \in d.vary
             /\ Handled(c, q, d, changed, FinishBody(c, q, r, changed))
<1> DEFINE v == AddVary(c, r)
           x == FinishBody(c, q, r, changed)
<1>1. /\ Prepares(c, v, r) /\ SameHead(v, r) /\ v \in Responses
      /\ ~Unchanging(c) => "Host" \in v.vary
  BY AddVaryPrepares DEF Prepares
<1>2. ASSUME NEW log, x = Result(v, log),
             Unchanging(c) \/ log \cap {"not-decodable", "range"} # {}
      PROVE  Handled(c, q, v, changed, x)
  <2> QED
    BY <1>2 DEF Handled, Accounted, Excused, Unchanging
<1>3. CASE r.status = "206"
  <2>1. x = Result(v, {"range"})
    BY <1>3 DEF FinishBody
  <2> HIDE DEF v, x
  <2> QED
    BY <1>1, <1>2, <2>1 DEF x
<1>4. CASE r.status # "206" /\ Unchanging(c)
  <2>1. \/ x = Arm(c, q, v, changed)
        \/ \E log : x = Result(v, log)
    BY <1>4 DEF FinishBody, Unchanging
  <2> HIDE DEF v, x
  <2>2. Handled(c, q, v, changed, x)
    BY <1>1, <1>2, <1>4, <2>1, ArmHandles
  <2> QED
    BY <1>1, <2>2 DEF x
<1>5. CASE r.status # "206" /\ ~Unchanging(c)
  <2>1. \/ x = Arm(c, q, Decoded(v), changed)
        \/ x = Result(v, {"not-decodable"})
    BY <1>5 DEF FinishBody, Unchanging
  <2> HIDE DEF v, x
  <2>2. CASE x = Result(v, {"not-decodable"})
    BY <1>1, <1>2, <2>2 DEF x
  <2>3. CASE x = Arm(c, q, Decoded(v), changed)
    <3>1. /\ Prepares(c, Decoded(v), v) /\ SameHead(Decoded(v), v) /\ Decoded(v) \in Responses
          /\ Decoded(v).vary = v.vary
      BY <1>1, <1>5, DecodedPrepares DEF Prepares
    <3>2. Prepares(c, Decoded(v), r) /\ SameHead(Decoded(v), r)
      BY <1>1, <3>1, PreparesTwice DEF SameHead
    <3>3. Handled(c, q, Decoded(v), changed, x)
      BY <2>3, <3>1, ArmHandles
    <3> QED
      BY <1>1, <3>1, <3>2, <3>3 DEF x
  <2> QED
    BY <2>1, <2>2, <2>3
<1> QED
  BY <1>3, <1>4, <1>5

\* What a live proxy sends on of the headers that name origins: nothing of the
\* canonical spaces, but for the Location of a self-redirect.
HeadersMapped(c, q, r, d) ==
  /\ d.location # None /\ d.location.space \in CanonicalSet \ {c.variant}
       => SelfRedirect(c, q, r)
  /\ ~d.domain
  /\ \A m \in d.link : m.place \in Grammar => m.space \notin CanonicalSet \ {c.variant}

LEMMA ToVariantMaps ==
    ASSUME NEW c \in Configs, NEW u \in URLs
    PROVE  /\ ToVariant(c, u) \in URLs
           /\ ToVariant(c, u).space \notin CanonicalSet \ {c.variant}
           /\ Identity(c) => ToVariant(c, u) = u
BY DEF ToVariant, Configs, URLs, Identity

LEMMA HeadersPrepare ==
    ASSUME NEW c \in Configs, NEW q \in Requests, NEW r \in Responses
    PROVE  LET h == DropCookieDomain(c, RewriteOriginHeaders(c, r, SelfRedirect(c, q, r)))
           IN  /\ Prepares(c, h, r) /\ SameBody(h, r)
               /\ ~Unchanging(c) => HeadersMapped(c, q, r, h)
<1> DEFINE self == SelfRedirect(c, q, r)
           loc  == IF self \/ r.location = None THEN r.location ELSE ToVariant(c, r.location)
           link == Retarget(r.link, CanonicalSet, c.variant, Grammar)
           g    == [r EXCEPT !.location = loc, !.link = link]
           d    == [r EXCEPT !.location = loc, !.link = link, !.domain = FALSE]
           h    == DropCookieDomain(c, RewriteOriginHeaders(c, r, self))
<1>1. /\ r \in ResponseRecords /\ r.location \in URLs \cup {None} /\ r.link \in SUBSET Mentions
      /\ c.variant \in Spaces
  BY DEF Responses, ResponseRecords, Configs
<1>2. loc \in URLs \cup {None} /\ link \in SUBSET Mentions
  BY <1>1, ToVariantMaps, RetargetTexts
<1>3. CASE c.dryRun
  <2>1. h = r
    BY <1>3 DEF RewriteOriginHeaders, DropCookieDomain
  <2> QED
    BY <1>3, <2>1 DEF Prepares, SameBody, Unchanging
<1>4. CASE ~c.dryRun /\ Identity(c)
  <2>1. loc = r.location /\ link = r.link
    <3>1. loc = r.location
      BY <1>1, <1>4, ToVariantMaps
    <3>2. \A reach : Retarget(r.link, CanonicalSet, c.variant, reach) = r.link
      BY <1>1, <1>4, IdentityPasses
    <3> QED
      BY <3>1, <3>2
  <2>2. h = g
    BY <1>4 DEF RewriteOriginHeaders, DropCookieDomain
  <2>3. h = [r EXCEPT !.location = r.location, !.link = r.link]
    BY <2>1, <2>2
  <2> HIDE DEF h
  <2>4. h = r
    BY <1>1, <2>3 DEF ResponseRecords
  <2> QED
    BY <1>4, <2>4 DEF Prepares, SameBody, Unchanging, h
<1>5. CASE ~Unchanging(c)
  <2>1. h = d
    BY <1>1, <1>5 DEF RewriteOriginHeaders, DropCookieDomain, Unchanging, ResponseRecords
  <2>2. loc # None /\ loc.space \in CanonicalSet \ {c.variant} => self
    BY <1>1, ToVariantMaps
  <2>3. ASSUME NEW m \in link, m.place \in Grammar
        PROVE  m.space \notin CanonicalSet \ {c.variant}
    BY <1>1, <2>3, RetargetMention
  <2> HIDE DEF self, loc, link, g, h
  <2>4. /\ d.location = loc /\ d.link = link /\ d.domain = FALSE
        /\ d.length = r.length /\ d.etag = r.etag /\ SameBody(d, r)
    BY <1>1 DEF ResponseRecords, SameBody
  <2>5. d \in Responses
    BY <1>2 DEF Responses, ResponseRecords
  <2> HIDE DEF d
  <2>6. Prepares(c, d, r)
    BY <1>5, <2>4, <2>5 DEF Prepares, SameBody, Told, Validated, Body
  <2>7. HeadersMapped(c, q, r, d)
    BY <2>2, <2>3, <2>4 DEF HeadersMapped, self
  <2> QED
    BY <2>1, <2>4, <2>6, <2>7 DEF h, self
<1> QED
  BY <1>3, <1>4, <1>5 DEF Unchanging

-----------------------------------------------------------------------------
(* modifyResponse: blanked by --strict-origins, or handled after its headers. *)
Blanked(c, q, r) == SelfRedirect(c, q, r) /\ c.strict

LEMMA ModifyResponseHandles ==
    ASSUME NEW c \in Configs, NEW q \in Requests, NEW r \in Responses
    PROVE  LET x == ModifyResponse(c, q, r)
           IN  \/ Blanked(c, q, r) /\ x = Result(Plain("404"), {})
               \/ /\ ~Blanked(c, q, r)
                  /\ SelfRedirect(c, q, r) => "self-redirect" \in x.log
                  /\ \E d \in Responses, changed \in BOOLEAN : \E y :
                       /\ Prepares(c, d, r)
                       /\ ~Unchanging(c) => HeadersMapped(c, q, r, d) /\ "Host" \in d.vary
                       /\ Unchanging(c) => ~changed
                       /\ Handled(c, q, d, changed, y)
                       /\ x.resp = y.resp /\ y.log \subseteq x.log
<1> DEFINE x    == ModifyResponse(c, q, r)
           self == SelfRedirect(c, q, r)
           h    == DropCookieDomain(c, RewriteOriginHeaders(c, r, self))
           y    == FinishBody(c, q, h, h # r)
<1>1. CASE Blanked(c, q, r)
  BY <1>1 DEF ModifyResponse, Blanked
<1>2. CASE ~Blanked(c, q, r)
  <2>1. x = [y EXCEPT !.log = @ \cup IF self THEN {"self-redirect"} ELSE {}]
    BY <1>2 DEF ModifyResponse, Blanked
  <2>2. /\ Prepares(c, h, r) /\ (~Unchanging(c) => HeadersMapped(c, q, r, h))
        /\ h \in Responses
    BY HeadersPrepare DEF Prepares
  <2> DEFINE changed == h # r
  <2>3. changed \in BOOLEAN /\ (Unchanging(c) => ~changed)
    BY <2>2 DEF Prepares
  <2> HIDE DEF h, changed
  <2>4. PICK d \in Responses :
          /\ Prepares(c, d, h) /\ SameHead(d, h)
          /\ ~Unchanging(c) => "Host" \in d.vary
          /\ Handled(c, q, d, changed, FinishBody(c, q, h, changed))
    BY <2>2, <2>3, FinishBodyHandles
  <2>5. y = FinishBody(c, q, h, changed)
    BY DEF changed
  <2> HIDE DEF y, x
  <2>6. Prepares(c, d, r)
    BY <2>2, <2>4, PreparesTwice
  <2>7. ~Unchanging(c) => HeadersMapped(c, q, r, d)
    BY <2>2, <2>4 DEF HeadersMapped, SameHead
  <2>8. y = Failure \/ \E z, log : y = Result(z, log)
    BY <2>4, <2>5 DEF Handled
  <2>9. /\ x.resp = y.resp /\ y.log \subseteq x.log
        /\ self => "self-redirect" \in x.log
    BY <2>1, <2>8 DEF Failure, Result
  <2> QED
    BY <1>2, <2>3, <2>4, <2>5, <2>6, <2>7, <2>9 DEF x
<1> QED
  BY <1>1, <1>2

\* What comes of a response that was handled.
LEMMA HandledOutcome ==
    ASSUME NEW c \in Configs, NEW q \in Requests, NEW r \in Responses,
           NEW changed \in BOOLEAN, NEW x, Handled(c, q, r, changed, x)
    PROVE  \/ x.resp = Plain("502") /\ r.cut
           \/ /\ x.resp \in ResponseRecords
              /\ SameHead(x.resp, r) /\ r.vary \subseteq x.resp.vary
              /\ ~Unchanging(c) => Accounted(c, r, x.log, x.resp.text)
              /\ Told(r) => Told(x.resp)
              /\ Validated(r) => Validated(x.resp)
              /\ Quiet(c, changed) => x.resp = r
              /\ ~c.compress => x.resp.cut = r.cut
<1>0. r \in ResponseRecords
  BY DEF Responses
<1>1. CASE x = Failure /\ r.cut
  BY <1>1 DEF Failure
<1>2. ASSUME NEW log, x = Result(r, log),
             ~c.dryRun /\ ~Identity(c) => Accounted(c, r, log, r.text)
      PROVE  /\ x.resp = r
             /\ ~Unchanging(c) => Accounted(c, r, x.log, r.text)
  BY <1>2 DEF Result, Unchanging
<1>3. ASSUME NEW out \in SUBSET Mentions, NEW log, ~Quiet(c, changed),
             x = Result(Finish(c, q, [r EXCEPT !.text = out], changed), log),
             ~Identity(c) => Accounted(c, r, log, out)
      PROVE  /\ x.resp \in ResponseRecords
             /\ SameHead(x.resp, r) /\ r.vary \subseteq x.resp.vary
             /\ ~Unchanging(c) => Accounted(c, r, x.log, x.resp.text)
             /\ Told(x.resp) /\ Validated(x.resp)
             /\ ~c.compress => x.resp.cut = r.cut
  <2> DEFINE s == [r EXCEPT !.text = out]
             f == Finish(c, q, s, changed)
  <2>1. /\ s \in ResponseRecords /\ SameHead(s, r) /\ s.vary = r.vary
        /\ s.text = out /\ s.cut = r.cut
    BY <1>0 DEF ResponseRecords, SameHead
  <2>2. x.resp = f /\ x.log = log
    BY <1>3 DEF Result
  <2> HIDE DEF s
  <2>3. /\ f \in ResponseRecords /\ SameHead(f, s) /\ f.text \subseteq s.text
        /\ s.vary \subseteq f.vary /\ Told(f) /\ f.etag = None
        /\ ~c.compress => f.cut = s.cut
    BY <1>3, <2>1, FinishKeeps
  <2> HIDE DEF f
  <2>4. ~Unchanging(c) => Accounted(c, r, log, f.text)
    BY <1>3, <2>1, <2>3 DEF Accounted, Unchanging
  <2>5. SameHead(f, r)
    BY <2>1, <2>3 DEF SameHead
  <2> QED
    BY <2>1, <2>2, <2>3, <2>4, <2>5 DEF Validated
<1>4. CASE \E log : /\ x = Result(r, log)
                    /\ ~c.dryRun /\ ~Identity(c) => Accounted(c, r, log, r.text)
  <2>1. x.resp = r /\ (~Unchanging(c) => Accounted(c, r, x.log, r.text))
    BY <1>2, <1>4
  <2> QED
    BY <1>0, <2>1 DEF SameHead
<1>5. CASE \E out \in SUBSET Mentions : \E log :
             /\ ~Quiet(c, changed)
             /\ x = Result(Finish(c, q, [r EXCEPT !.text = out], changed), log)
             /\ ~Identity(c) => Accounted(c, r, log, out)
  BY <1>3, <1>5
<1> QED
  BY <1>1, <1>4, <1>5 DEF Handled

\* And of one that went through modifyResponse: an error in its place, or the
\* response with its headers mapped, its text accounted for, what is said of it
\* said of it, and its end where the upstream's was.
LEMMA ModifyResponseOutcome ==
    ASSUME NEW c \in Configs, NEW q \in Requests, NEW r \in Responses
    PROVE  LET x == ModifyResponse(c, q, r)
           IN  \/ Blanked(c, q, r) /\ x.resp = Plain("404")
               \/ ~Blanked(c, q, r) /\ r.cut /\ x.resp = Plain("502")
               \/ /\ ~Blanked(c, q, r)
                  /\ SelfRedirect(c, q, r) => "self-redirect" \in x.log
                  /\ x.resp \in ResponseRecords
                  /\ x.resp.status = r.status /\ x.resp.ct = r.ct
                  /\ Told(r) => Told(x.resp)
                  /\ Validated(r) => Validated(x.resp)
                  /\ ~c.compress => x.resp.cut = r.cut
                  /\ Unchanging(c) => x.resp = r
                  /\ ~Unchanging(c) => /\ Accounted(c, r, x.log, x.resp.text)
                                       /\ HeadersMapped(c, q, r, x.resp)
                                       /\ "Host" \in x.resp.vary
<1> DEFINE x == ModifyResponse(c, q, r)
<1>1. CASE Blanked(c, q, r) /\ x = Result(Plain("404"), {})
  BY <1>1 DEF Result
<1>2. ASSUME ~Blanked(c, q, r),
             SelfRedirect(c, q, r) => "self-redirect" \in x.log,
             NEW d \in Responses, NEW changed \in BOOLEAN, NEW y,
             Prepares(c, d, r),
             ~Unchanging(c) => HeadersMapped(c, q, r, d) /\ "Host" \in d.vary,
             Unchanging(c) => ~changed,
             Handled(c, q, d, changed, y),
             x.resp = y.resp, y.log \subseteq x.log
      PROVE  \/ r.cut /\ x.resp = Plain("502")
             \/ /\ x.resp \in ResponseRecords
                /\ x.resp.status = r.status /\ x.resp.ct = r.ct
                /\ Told(r) => Told(x.resp)
                /\ Validated(r) => Validated(x.resp)
                /\ ~c.compress => x.resp.cut = r.cut
                /\ Unchanging(c) => x.resp = r
                /\ ~Unchanging(c) => /\ Accounted(c, r, x.log, x.resp.text)
                                     /\ HeadersMapped(c, q, r, x.resp)
                                     /\ "Host" \in x.resp.vary
  <2> HIDE DEF x
  <2>1. CASE y.resp = Plain("502") /\ d.cut
    BY <1>2, <2>1 DEF Prepares
  <2>2. CASE /\ y.resp \in ResponseRecords
             /\ SameHead(y.resp, d) /\ d.vary \subseteq y.resp.vary
             /\ ~Unchanging(c) => Accounted(c, d, y.log, y.resp.text)
             /\ Told(d) => Told(y.resp)
             /\ Validated(d) => Validated(y.resp)
             /\ Quiet(c, changed) => y.resp = d
             /\ ~c.compress => y.resp.cut = d.cut
    <3>1. y.resp.status = r.status /\ y.resp.ct = r.ct
      BY <1>2, <2>2 DEF Prepares, SameHead
    <3>2. Unchanging(c) => y.resp = r
      BY <1>2, <2>2 DEF Prepares, Quiet, Unchanging
    <3>3. ~Unchanging(c) => Accounted(c, r, x.log, y.resp.text)
      BY <1>2, <2>2 DEF Prepares, Accounted, Excused
    <3>4. ~Unchanging(c) => HeadersMapped(c, q, r, y.resp) /\ "Host" \in y.resp.vary
      BY <1>2, <2>2 DEF HeadersMapped, SameHead
    <3> QED
      BY <1>2, <2>2, <3>1, <3>2, <3>3, <3>4 DEF Prepares
  <2> QED
    BY <1>2, <2>1, <2>2, HandledOutcome
<1> HIDE DEF x
<1>3. CASE ~Blanked(c, q, r)
  BY <1>2, <1>3, ModifyResponseHandles DEF x
<1> QED
  BY <1>1, <1>3, ModifyResponseHandles DEF x

-----------------------------------------------------------------------------
(* The request. *)

\* What the upstream is asked is the request, with its texts mapped back.
LEMMA ForwardedTypes ==
    ASSUME NEW c \in Configs, NEW q \in Requests
    PROVE  LET f == Forwarded(c, q)
           IN  /\ f \in Requests
               /\ f.method = q.method /\ f.kind = q.kind /\ f.cut = q.cut
               /\ f.url = [space |-> Canon, path |-> q.url.path]
               /\ f.match = q.match
               /\ f.body = IF ReadsBody(q) /\ ~q.big /\ ~c.dryRun
                           THEN RequestBody(c, q) ELSE q.body
               /\ f.line = IF c.dryRun THEN q.line
                           ELSE Retarget(q.line, {c.variant}, Canon, Grammar)
<1> DEFINE url  == [q.url EXCEPT !.space = Canon]
           line == IF c.dryRun THEN q.line ELSE Retarget(q.line, {c.variant}, Canon, Grammar)
           body == IF ReadsBody(q) /\ ~q.big /\ ~c.dryRun THEN RequestBody(c, q) ELSE q.body
           f    == [q EXCEPT !.url = url, !.line = line, !.body = body,
                             !.range = FALSE, !.gzip = FALSE]
<1>1. /\ Canon \in Spaces /\ q.url \in URLs /\ q.body \in SUBSET Mentions
      /\ q.line \in SUBSET Mentions /\ q.kind \in Kinds
  BY DEF Requests, Spaces, CanonicalSet
<1>2. url \in URLs /\ url = [space |-> Canon, path |-> q.url.path]
  BY <1>1 DEF URLs
<1>3. line \in SUBSET Mentions
  BY <1>1, RetargetTexts
<1>4. ReadsBody(q) => RequestBody(c, q) \in SUBSET Mentions
  BY <1>1, RetargetTexts, RewrittenTexts DEF RequestBody, ReadsBody, Kinds
<1>5. body \in SUBSET Mentions
  BY <1>1, <1>4
<1>6. Forwarded(c, q) = f
  BY DEF Forwarded
<1> HIDE DEF url, line, body
<1>7. f \in Requests
  BY <1>2, <1>3, <1>5 DEF Requests
<1>8. /\ f.method = q.method /\ f.kind = q.kind /\ f.cut = q.cut
      /\ f.url = url /\ f.match = q.match /\ f.body = body /\ f.line = line
  BY DEF Requests
<1> HIDE DEF f
<1> QED
  BY <1>2, <1>6, <1>7, <1>8 DEF body, line

\* What a live proxy lets through of its own variant in a body it reads.
LEMMA RequestBodyLeaves ==
    ASSUME NEW c \in Configs, NEW q \in Requests, ReadsBody(q), c.variant # Canon,
           NEW m \in RequestBody(c, q), m.space = c.variant
    PROVE  /\ m \in q.body
           /\ \/ m.place = "hidden"
              \/ m.place = "stray" /\ (c.noSweep \/ q.kind = "multipart")
              \/ q.kind = "badjson"
<1>1. /\ Canon \in Spaces /\ q.body \in SUBSET Mentions /\ q.kind \in Kinds
      /\ Places = Flat \cup {"hidden"} /\ Places = Grammar \cup {"stray", "hidden"}
  BY DEF Requests, Spaces, CanonicalSet, Places, Flat, Grammar
<1>2. CASE q.kind = "flat"
  <2>1. m \in Retarget(q.body, {c.variant}, Canon, Flat)
    BY <1>2 DEF RequestBody
  <2> QED
    BY <1>1, <2>1, RetargetMention DEF Mentions
<1>3. CASE q.kind = "multipart"
  <2>1. m \in Retarget(q.body, {c.variant}, Canon, Grammar)
    BY <1>3 DEF RequestBody
  <2> QED
    BY <1>1, <1>3, <2>1, RetargetMention DEF Mentions
<1>4. CASE q.kind \in {"json", "badjson"}
  <2> DEFINE parses == q.kind = "json"
  <2>1. parses \in BOOLEAN /\ m \in RewriteJSON(c, q.body, parses, {c.variant}, Canon)
    BY <1>4 DEF RequestBody
  <2> HIDE DEF parses
  <2>2. /\ m \in q.body
        /\ \/ m.place = "hidden"
           \/ c.noSweep /\ m.place = "stray"
           \/ ~parses
    BY <1>1, <2>1, JSONLeaves
  <2> QED
    BY <1>4, <2>2 DEF parses
<1> QED
  BY <1>1, <1>2, <1>3, <1>4 DEF ReadsBody, Kinds

LEMMA IdentityForwards ==
    ASSUME NEW c \in Configs, NEW q \in Requests, Unchanging(c)
    PROVE  Forwarded(c, q).body = q.body /\ Forwarded(c, q).line = q.line
<1>1. CASE c.dryRun
  BY <1>1, ForwardedTypes
<1>2. CASE Identity(c)
  <2>1. c.variant = Canon /\ q.body \in SUBSET Mentions /\ q.line \in SUBSET Mentions
        /\ q.kind \in Kinds
    BY <1>2, IdentityPasses DEF Requests
  <2>2. \A text \in SUBSET Mentions : \A reach : Retarget(text, {c.variant}, Canon, reach) = text
    BY <2>1, RetargetToItself
  <2>3. \A parses \in BOOLEAN : RewriteJSON(c, q.body, parses, {c.variant}, Canon) = q.body
    BY <2>1, <2>2 DEF RewriteJSON
  <2>4. ReadsBody(q) => RequestBody(c, q) = q.body
    BY <2>1, <2>2, <2>3 DEF RequestBody, ReadsBody, Kinds
  <2>5. Retarget(q.line, {c.variant}, Canon, Grammar) = q.line
    BY <2>1, RetargetToItself
  <2> QED
    BY <2>4, <2>5, ForwardedTypes
<1> QED
  BY <1>1, <1>2 DEF Unchanging

-----------------------------------------------------------------------------
(* Exactly what becomes of a text, where every pass runs and nothing breaks. *)

Live(c) == ~c.dryRun /\ ~c.noSweep

LEMMA SweptText ==
    ASSUME NEW text \in SUBSET Mentions, NEW from, NEW to \in Spaces
    PROVE  Retarget(Retarget(text, from, to, Grammar), from, to, Bytes)
             = Retarget(text, from, to, Flat)
BY DEF Retarget, Mentions, Grammar, Bytes, Flat

\* Page and form come back as they were, but for aliases, if the variant was not
\* written in them before.
LEMMA RoundTrip ==
    ASSUME NEW text \in SUBSET Mentions, NEW v \in Others, \A m \in text : m.space # v
    PROVE  Retarget(Retarget(text, CanonicalSet, v, Flat), {v}, Canon, Flat)
             = Retarget(text, Aliases, Canon, Flat)
<1> DEFINE F(m) == IF m.space \in CanonicalSet /\ m.place \in Flat THEN [m EXCEPT !.space = v] ELSE m
           G(m) == IF m.space \in {v} /\ m.place \in Flat THEN [m EXCEPT !.space = Canon] ELSE m
           H(m) == IF m.space \in Aliases /\ m.place \in Flat THEN [m EXCEPT !.space = Canon] ELSE m
<1>1. ASSUME NEW m \in text PROVE G(F(m)) = H(m)
  <2>1. m \in Mentions /\ m.space # v /\ v \notin CanonicalSet
    BY SpacesAssumption
  <2>2. CASE m.space \in CanonicalSet /\ m.place \in Flat
    <3>1. F(m) = [space |-> v, place |-> m.place]
      BY <2>1, <2>2 DEF Mentions
    <3>2. G(F(m)) = [space |-> Canon, place |-> m.place]
      BY <2>2, <3>1
    <3>3. H(m) = [space |-> Canon, place |-> m.place]
      BY <2>1, <2>2 DEF Mentions, CanonicalSet
    <3> QED
      BY <3>2, <3>3
  <2>3. CASE ~(m.space \in CanonicalSet /\ m.place \in Flat)
    BY <2>1, <2>3 DEF CanonicalSet
  <2> QED
    BY <2>2, <2>3
<1>2. Retarget(text, CanonicalSet, v, Flat) = {F(m) : m \in text}
  BY DEF Retarget
<1>3. Retarget({F(m) : m \in text}, {v}, Canon, Flat) = {G(y) : y \in {F(m) : m \in text}}
  BY DEF Retarget
<1>4. Retarget(text, Aliases, Canon, Flat) = {H(m) : m \in text}
  BY DEF Retarget
<1> HIDE DEF F, G, H
<1>5. {G(y) : y \in {F(m) : m \in text}} = {G(F(m)) : m \in text}
  OBVIOUS
<1>6. {G(F(m)) : m \in text} = {H(m) : m \in text}
  BY <1>1
<1> QED
  BY <1>2, <1>3, <1>4, <1>5, <1>6

LEMMA LiveTexts ==
    ASSUME NEW c \in Configs, Live(c), NEW text \in SUBSET Mentions
    PROVE  /\ RewriteHTML(c, text) = Retarget(text, CanonicalSet, c.variant, Flat)
           /\ \A from : \A to \in Spaces :
                RewriteJSON(c, text, TRUE, from, to) = Retarget(text, from, to, Flat)
<1>1. c.variant \in Spaces
  BY DEF Configs
<1> QED
  BY <1>1, SweptText DEF RewriteHTML, RewriteJSON, Live

\* A page or a JSON document, whole and under the cap, is shown with every
\* canonical mention that any pass finds mapped, and nothing else changed.
ModelPage(r) ==
  /\ r.status = "200" /\ r.encoding = "identity"
  /\ ~r.attachment /\ ~r.big /\ ~r.cut
  /\ r.ct = "html" \/ (r.ct = "json" /\ r.json = "ok")

LEMMA PageText ==
    ASSUME NEW c \in Configs, Live(c), ~Identity(c), NEW q \in Requests,
           NEW r \in Responses, ModelPage(r)
    PROVE  LET x == ModifyResponse(c, q, r)
           IN  /\ x.resp.status = "200"
               /\ x.resp.text = Retarget(r.text, CanonicalSet, c.variant, Flat)
<1> DEFINE new == Retarget(r.text, CanonicalSet, c.variant, Flat)
           self == SelfRedirect(c, q, r)
           h == DropCookieDomain(c, RewriteOriginHeaders(c, r, self))
           v == AddVary(c, h)
           changed == h # r
           x == ModifyResponse(c, q, r)
           y == Arm(c, q, v, changed)
<1>1. ~self
  BY DEF SelfRedirect, ModelPage, Redirects
<1>2. h \in Responses /\ SameBody(h, r)
  BY HeadersPrepare DEF Prepares
<1>3. v \in Responses /\ SameBody(v, r) /\ ModelPage(v)
  <2> HIDE DEF h
  <2>1. v \in Responses /\ SameBody(v, h)
    BY <1>2, AddVaryPrepares DEF Prepares
  <2> QED
    BY <1>2, <2>1 DEF SameBody, ModelPage
<1>4. x = [y EXCEPT !.log = @ \cup IF self THEN {"self-redirect"} ELSE {}]
  <2>1. h.status = "200" /\ v.encoding = "identity"
    BY <1>2, <1>3 DEF SameBody, ModelPage
  <2>2. FinishBody(c, q, h, changed) = y
    BY <2>1 DEF FinishBody, Live, Decodable, Decoded
  <2>3. x = [FinishBody(c, q, h, changed)
               EXCEPT !.log = @ \cup IF self THEN {"self-redirect"} ELSE {}]
    BY <1>1 DEF ModifyResponse
  <2> QED
    BY <2>2, <2>3
<1>5. v.text = r.text /\ r.text \in SUBSET Mentions /\ new \in SUBSET Mentions /\ v \in ResponseRecords
      /\ changed \in BOOLEAN
  BY <1>3, RetargetTexts DEF SameBody, Responses, ResponseRecords, Configs
<1> HIDE DEF h, v, changed, x, y, new
<1>6. ASSUME NEW log, y = Result(Finish(c, q, [v EXCEPT !.text = new], changed), log)
      PROVE  x.resp.status = "200" /\ x.resp.text = new
  <2> DEFINE s == [v EXCEPT !.text = new]
  <2>1. s \in ResponseRecords /\ s.text = new /\ s.cut = v.cut /\ s.status = v.status
    BY <1>5 DEF ResponseRecords
  <2>2. x.resp = Finish(c, q, s, changed)
    BY <1>4, <1>6 DEF Result
  <2> HIDE DEF s
  <2> QED
    BY <1>3, <1>5, <2>1, <2>2, FinishKeeps DEF ModelPage, SameHead
<1>7. CASE v.ct = "html"
  <2>1. RewriteHTML(c, v.text) = new
    BY <1>5, LiveTexts DEF new
  <2>2. y = Result(Finish(c, q, [v EXCEPT !.text = new], changed), {})
    BY <1>3, <1>7, <2>1 DEF Arm, ModelPage, Live, y
  <2> QED
    BY <1>6, <2>2 DEF x, new
<1>8. CASE v.ct = "json" /\ v.json = "ok"
  <2>1. RewriteJSON(c, v.text, TRUE, CanonicalSet, c.variant) = new
    <3>1. c.variant \in Spaces
      BY DEF Configs
    <3> QED
      BY <1>5, <3>1, LiveTexts DEF new
  <2>2. y = Buffered(c, q, v, changed, new, {})
    BY <1>3, <1>8, <2>1 DEF Arm, BufferedJSON, ModelPage, y
  <2>3. \/ v.text = new /\ \E log : y = Result(v, log)
        \/ \E log : y = Result(Finish(c, q, [v EXCEPT !.text = new], changed), log)
    BY <1>3, <2>2 DEF Buffered, ModelPage, Live
  <2>4. CASE v.text = new /\ \E log : y = Result(v, log)
    BY <1>3, <1>4, <2>4 DEF Result, ModelPage, x, new
  <2> QED
    BY <1>6, <2>3, <2>4 DEF x, new
<1> QED
  BY <1>3, <1>7, <1>8 DEF ModelPage
=============================================================================
