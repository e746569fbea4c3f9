--------------------------- MODULE ExchangeProofs ---------------------------
(***************************************************************************)
(* What Exchange says of one exchange, for every set of spaces, flags,     *)
(* requests and responses, with any number of mentions in a text and any   *)
(* number of hints.  The invariant is the history of the exchange: at each *)
(* phase, which functions of Pipeline its variables are the values of.     *)
(* What those functions do is in PipelineProofs.                           *)
(*                                                                         *)
(* And what Sweep says of the body that streams through an exchange, for   *)
(* every host, window, document and way of reading it.  The invariant      *)
(* there is that the sweep is always where one pass over the whole         *)
(* document would be.  Its sections: what a verdict reads; that it reads   *)
(* no further than the window; what a pass knows at each place; a round    *)
(* beside the pass over the whole document; the stream; that no reference  *)
(* that is spelled plainly is missed.                                      *)
(***************************************************************************)
EXTENDS Exchange, Sweep, PipelineProofs, SequenceTheorems, WellFoundedInduction

Begun ==
  /\ phase = "asked"
  /\ fwd = None /\ hints = {} /\ ans = None /\ resp = None /\ log = {}

Sent == fwd = Forwarded(cfg, req)

Waiting ==
  /\ phase = "forwarded"
  /\ Sent /\ ans = None /\ resp = None
  /\ log = RequestLog(cfg, req)

Written == phase \in {"writing", "done", "aborted"}

Refused ==
  /\ Written
  /\ fwd = None /\ hints = {} /\ ans = None
  /\ resp = Plain("421")

Unanswered ==
  /\ Written
  /\ Sent /\ ans = None
  /\ resp = Plain("502")
  /\ log = RequestLog(cfg, req)

Replied ==
  /\ Written
  /\ Sent
  /\ ans \in Responses /\ Answers(fwd, ans)
  /\ resp = ModifyResponse(cfg, req, ans).resp
  /\ log = RequestLog(cfg, req) \cup ModifyResponse(cfg, req, ans).log

HintSent(text) ==
  IF cfg.dryRun THEN text ELSE Retarget(text, CanonicalSet, cfg.variant, Grammar)

Inv ==
  /\ cfg \in Configs /\ req \in Asked /\ req \in Requests
  /\ Begun \/ Waiting \/ Refused \/ Unanswered \/ Replied
  /\ phase = "done" => ~resp.cut
  /\ \A h \in hints : \E text \in Hints : h = HintSent(text)

-----------------------------------------------------------------------------
LEMMA InitInv ==
    ASSUME Init
    PROVE  Inv
BY InputsAssumption DEF InputsAssumption, Init, Inv, Begun

LEMMA ForwardInv ==
    ASSUME Inv, Misdirected \/ Forward \/ UpstreamFails \/ Copied
    PROVE  Inv'
<1>1. CASE Misdirected
  BY <1>1 DEF Misdirected, Inv, Begun, Waiting, Refused, Unanswered, Replied, Written, HintSent
<1>2. CASE Forward
  BY <1>2 DEF Forward, Inv, Begun, Waiting, Refused, Unanswered, Replied, Written, Sent, HintSent
<1>3. CASE UpstreamFails
  BY <1>3 DEF UpstreamFails, Inv, Begun, Waiting, Refused, Unanswered, Replied, Written, Sent,
              HintSent
<1>4. CASE Copied
  BY <1>4 DEF Copied, Inv, Begun, Waiting, Refused, Unanswered, Replied, Written, Sent,
              HintSent
<1> QED
  BY <1>1, <1>2, <1>3, <1>4

LEMMA HintInv ==
    ASSUME Inv, NEW text \in Hints, Hint(text)
    PROVE  Inv'
BY DEF Hint, Inv, Begun, Waiting, Refused, Unanswered, Replied, Written, Sent, HintSent

LEMMA AnswerInv ==
    ASSUME Inv, NEW r \in Answered(req), Answer(r)
    PROVE  Inv'
BY InputsAssumption DEF InputsAssumption, Answer, Inv, Begun, Waiting, Refused, Unanswered, Replied, Written, Sent, HintSent

\* In every state the exchange is where Inv says it is.
THEOREM Invariance == Spec => []Inv
<1>1. Init => Inv
  BY InitInv
<1>2. Inv /\ [Next]_vars => Inv'
  <2> SUFFICES ASSUME Inv, [Next]_vars PROVE Inv'
    OBVIOUS
  <2>1. CASE Misdirected \/ Forward \/ UpstreamFails \/ Copied
    BY <2>1, ForwardInv
  <2>2. ASSUME NEW text \in Hints, Hint(text) PROVE Inv'
    BY <2>2, HintInv
  <2>3. ASSUME NEW r \in Answered(req), Answer(r) PROVE Inv'
    BY <2>3, AnswerInv
  <2>4. CASE UNCHANGED vars
    BY <2>4 DEF vars, Inv, Begun, Waiting, Refused, Unanswered, Replied, Written, Sent, HintSent
  <2> QED
    BY <2>1, <2>2, <2>3, <2>4 DEF Next
<1> QED
  BY <1>1, <1>2, PTL DEF Spec

-----------------------------------------------------------------------------
\* The response a browser is sent is an error of the proxy's own, which has no
\* mentions, or what ModifyResponse makes of the upstream's.
LEMMA ResponseCases ==
    ASSUME Inv
    PROVE  \/ resp = None /\ ans = None
           \/ resp = Plain("421") \/ resp = Plain("502") \/ resp = Plain("404")
           \/ /\ Replied
              /\ ~Blanked(cfg, req, ans)
              /\ SelfRedirect(cfg, req, ans) => "self-redirect" \in log
              /\ resp.ct = ans.ct
              /\ Told(ans) => Told(resp)
              /\ Validated(ans) => Validated(resp)
              /\ ~cfg.compress => resp.cut = ans.cut
              /\ Unchanging(cfg) => resp = ans
              /\ ~Unchanging(cfg) => /\ Accounted(cfg, ans, log, resp.text)
                                     /\ HeadersMapped(cfg, req, ans, resp)
<1>1. CASE Begun \/ Waiting \/ Refused \/ Unanswered
  BY <1>1 DEF Begun, Waiting, Refused, Unanswered
<1>2. CASE Replied
  <2> DEFINE x == ModifyResponse(cfg, req, ans)
  <2>1. cfg \in Configs /\ req \in Requests /\ ans \in Responses /\ resp = x.resp /\ x.log \subseteq log
    BY <1>2 DEF Inv, Replied
  <2>2. \/ x.resp = Plain("404") \/ x.resp = Plain("502")
        \/ /\ ~Blanked(cfg, req, ans)
           /\ SelfRedirect(cfg, req, ans) => "self-redirect" \in x.log
           /\ x.resp.ct = ans.ct
           /\ Told(ans) => Told(x.resp)
           /\ Validated(ans) => Validated(x.resp)
           /\ ~cfg.compress => x.resp.cut = ans.cut
           /\ Unchanging(cfg) => x.resp = ans
           /\ ~Unchanging(cfg) => /\ Accounted(cfg, ans, x.log, x.resp.text)
                                  /\ HeadersMapped(cfg, req, ans, x.resp)
    BY <2>1, ModifyResponseOutcome
  <2> HIDE DEF x
  <2>3. ASSUME Accounted(cfg, ans, x.log, resp.text)
        PROVE  Accounted(cfg, ans, log, resp.text)
    BY <2>1, <2>3 DEF Accounted, Excused
  <2> QED
    BY <1>2, <2>1, <2>2, <2>3
<1> QED
  BY <1>1, <1>2 DEF Inv

\* No canonical origin but this worktree's own variant is in a body the browser
\* is sent unless a skip, a warning, a media type or a switched-off pass says so
\* (internal/proxy/proxy.go, modifyResponse and finishBody).
THEOREM NoLeak == Spec => []NoSilentLeak
<1>1. Inv => NoSilentLeak
  <2> SUFFICES ASSUME Inv, resp # None, ~Passive, Leaks(resp.text)
               PROVE  \/ log \cap {"size-cap", "not-decodable", "base64", "attachment",
                                   "event-stream", "range"} # {}
                      \/ resp.ct = "css"
                      \/ resp.ct = "html" /\ \E m \in ans.text : m.place = "hidden"
                      \/ cfg.noSweep /\ \E m \in ans.text : m.place = "stray"
    BY DEF NoSilentLeak
  <2>1. PICK m \in resp.text : m.space \in CanonicalSet \ {cfg.variant}
    BY DEF Leaks
  <2>2. resp.ct = ans.ct /\ Accounted(cfg, ans, log, resp.text)
    BY <2>1, ResponseCases DEF Plain, Passive, Unchanging
  <2> QED
    BY <2>1, <2>2 DEF Accounted, Excused
<1> QED
  BY <1>1, Invariance, PTL

\* The Location of a self-redirect to a safe request is the one header that may
\* name a canonical origin; all others are mapped, the 1xx ones as well
\* (rewriteOriginHeaders, hintRewriter).
THEOREM CarveOutIsOnly == Spec => []OnlyCarveOut
<1>1. ASSUME Inv, ~Passive, resp # None
      PROVE  /\ resp.location # None /\ resp.location.space \in CanonicalSet \ {cfg.variant}
                  => "self-redirect" \in log /\ req.method \in Safe /\ ~cfg.strict
             /\ ~resp.domain
             /\ \A m \in resp.link : m.place \in Grammar
                                       => m.space \notin CanonicalSet \ {cfg.variant}
  BY <1>1, ResponseCases DEF Plain, Passive, Unchanging, HeadersMapped, Blanked, SelfRedirect
<1>2. ASSUME Inv, ~Passive, NEW h \in hints, NEW m \in h, m.place \in Grammar
      PROVE  m.space \notin CanonicalSet \ {cfg.variant}
  <2>1. PICK text \in Hints : h = Retarget(text, CanonicalSet, cfg.variant, Grammar)
    BY <1>2 DEF Inv, HintSent, Passive
  <2>2. text \in SUBSET Mentions
    BY <1>2, <2>1, InputsAssumption DEF InputsAssumption
  <2> QED
    BY <1>2, <2>1, <2>2, RetargetMention
<1>3. Inv => OnlyCarveOut
  BY <1>1, <1>2 DEF OnlyCarveOut
<1> QED
  BY <1>3, Invariance, PTL

\* A Content-Length is of the body it goes with and a validator of its text, if
\* the upstream's were (decodeBody, finishBody, compressBody).
THEOREM HeadersAreHonest == Spec => []HonestHeaders
<1>1. Inv => HonestHeaders
  <2> SUFFICES ASSUME Inv, ans # None
               PROVE  /\ ans.length \in {None, Body(ans)} => resp.length \in {None, Body(resp)}
                      /\ ans.etag \in {None, Body(ans)} =>
                           resp.etag = None \/ resp.etag.text = resp.text
    BY DEF HonestHeaders
  <2>1. ans.etag \in {None, Body(ans)} => Validated(ans)
    BY DEF Validated, Body
  <2>2. ASSUME NEW code, resp = Plain(code)
        PROVE  Told(resp) /\ Validated(resp)
    BY <2>2 DEF Plain, Told, Validated, Body
  <2>3. /\ Told(ans) => Told(resp)
        /\ Validated(ans) => Validated(resp)
    BY <2>2, ResponseCases
  <2> QED
    BY <2>1, <2>3 DEF Told, Validated
<1> QED
  BY <1>1, Invariance, PTL

\* Under the identity map nothing of an exchange is changed, and under --dry-run
\* only what --strict-origins blanks.
THEOREM PassiveIsTransparent == Spec => []Transparent
<1>1. ASSUME Inv, Passive, resp # None, ans # None, ~ans.cut,
             ~(cfg.strict /\ SelfRedirect(cfg, req, ans))
      PROVE  resp = ans
  <2>1. Replied
    BY <1>1 DEF Inv, Begun, Waiting, Refused, Unanswered
  <2>2. cfg \in Configs /\ req \in Requests /\ ans \in Responses
        /\ resp = ModifyResponse(cfg, req, ans).resp
    BY <1>1, <2>1 DEF Inv, Replied
  <2> QED
    BY <1>1, <2>2, ModifyResponseOutcome DEF Blanked, Passive, Unchanging
<1>2. ASSUME Inv, Passive, fwd # None
      PROVE  fwd.body = req.body /\ fwd.line = req.line
  BY <1>2, IdentityForwards
     DEF Inv, Begun, Waiting, Refused, Unanswered, Replied, Sent, Passive, Unchanging
<1>3. ASSUME Inv, Passive, NEW h \in hints
      PROVE  h \in Hints
  <2>1. PICK text \in Hints : h = HintSent(text)
    BY <1>3 DEF Inv
  <2>2. text \in SUBSET Mentions /\ cfg \in Configs
    BY <1>3, <2>1, InputsAssumption DEF InputsAssumption, Inv
  <2>3. Identity(cfg) => \A reach : Retarget(text, CanonicalSet, cfg.variant, reach) = text
    BY <2>2, IdentityPasses
  <2> QED
    BY <1>3, <2>1, <2>3 DEF HintSent, Passive
<1>4. Inv => Transparent
  BY <1>1, <1>2, <1>3 DEF Transparent
<1> QED
  BY <1>4, Invariance, PTL

\* The variant's hostname goes upstream in a body only with a record, in a body
\* no pass reads, or in a file of a form (rewriteRequestBody).
THEOREM NoWrite == Spec => []NoSilentWrite
<1>1. Inv => NoSilentWrite
  <2> SUFFICES ASSUME Inv, fwd # None, ~cfg.dryRun, ~fwd.cut, Writes(fwd.body)
               PROVE  \/ log \cap {"size-cap", "not-decodable", "base64"} # {}
                      \/ fwd.kind \in {"other", "none"} \/ fwd.method # "POST"
                      \/ fwd.kind = "multipart" /\ \E m \in req.body : m.place = "stray"
                      \/ cfg.noSweep /\ \E m \in req.body : m.place = "stray"
    BY DEF NoSilentWrite
  <2>1. cfg \in Configs /\ req \in Requests /\ fwd = Forwarded(cfg, req)
        /\ RequestLog(cfg, req) \subseteq log
    BY DEF Inv, Begun, Waiting, Refused, Unanswered, Replied, Sent
  <2>2. /\ fwd.method = req.method /\ fwd.kind = req.kind /\ fwd.cut = req.cut
        /\ fwd.body = IF ReadsBody(req) /\ ~req.big /\ ~cfg.dryRun
                      THEN RequestBody(cfg, req) ELSE req.body
    BY <2>1, ForwardedTypes
  <2>3. PICK m \in fwd.body : m.space = cfg.variant /\ cfg.variant # Canon
    BY DEF Writes
  <2>4. CASE ~ReadsBody(req)
    BY <2>2, <2>4 DEF ReadsBody
  <2>5. CASE ReadsBody(req) /\ req.big
    BY <2>1, <2>5 DEF RequestLog
  <2>6. CASE ReadsBody(req) /\ ~req.big
    <3>1. /\ m \in req.body
          /\ \/ m.place = "hidden"
             \/ m.place = "stray" /\ (cfg.noSweep \/ req.kind = "multipart")
             \/ req.kind = "badjson"
      BY <2>1, <2>2, <2>3, <2>6, RequestBodyLeaves
    <3>2. m.place = "hidden" => "base64" \in RequestLog(cfg, req)
      BY <2>3, <2>6, <3>1 DEF RequestLog, Hides
    <3>3. req.kind = "badjson" => "not-decodable" \in RequestLog(cfg, req)
      BY <2>6 DEF RequestLog
    <3> QED
      BY <2>1, <2>2, <3>1, <3>2, <3>3
  <2> QED
    BY <2>4, <2>5, <2>6
<1> QED
  BY <1>1, Invariance, PTL

\* Without --compress a response that the upstream broke off is an error to the
\* browser or breaks off there too; it never ends well.
THEOREM FailureIsSurfaced == Spec => []FailureSurfaced
<1>1. Inv => FailureSurfaced
  <2> SUFFICES ASSUME Inv, ans # None, ans.cut, ~cfg.compress, phase = "done",
                      ~(cfg.strict /\ SelfRedirect(cfg, req, ans))
               PROVE  resp = Plain("502")
    BY DEF FailureSurfaced
  <2>1. cfg \in Configs /\ req \in Requests /\ ans \in Responses /\ ~resp.cut
        /\ resp = ModifyResponse(cfg, req, ans).resp
    BY DEF Inv, Begun, Waiting, Refused, Unanswered, Replied
  <2> QED
    BY <2>1, ModifyResponseOutcome DEF Blanked
<1> QED
  BY <1>1, Invariance, PTL

-----------------------------------------------------------------------------
(***************************************************************************)
(* The sweep.                                                              *)
(***************************************************************************)

-----------------------------------------------------------------------------
\* Runs, and what is walked over: the bytes a verdict reads.

\* A set of naturals has a least member.
LEMMA LeastOf ==
    ASSUME NEW T \in SUBSET Nat, T # {}
    PROVE  \E x \in T : \A y \in T : x <= y
<1>1. PICK x \in T : \A y \in T : <<y, x>> \notin OpToRel(<, Nat)
  BY WFMin, NatLessThanWellFounded, Zenon
<1>2. \A y \in T : ~(y < x)
  BY <1>1, Zenon DEF OpToRel
<1>3. \A y \in T : x <= y
  BY <1>2
<1> QED
  BY <1>3

\* The least member of a set is its minimum.
LEMMA MinOf ==
    ASSUME NEW T, NEW x \in T, T \subseteq Int, \A y \in T : x <= y
    PROVE  Min(T) = x
<1>1. \A z \in T : (\A y \in T : z <= y) => z = x
  OBVIOUS
<1> QED
  BY <1>1 DEF Min

\* The lesser of two.
LEMMA MinOfTwo ==
    ASSUME NEW m \in Int, NEW n \in Int
    PROVE  Min({m, n}) = IF m <= n THEN m ELSE n
<1>1. CASE m <= n
  <2> QED  BY <1>1, MinOf, \A y \in {m, n} : m <= y, {m, n} \subseteq Int, m \in {m, n}
<1>2. CASE ~(m <= n)
  <2> QED  BY <1>2, MinOf, \A y \in {m, n} : n <= y, {m, n} \subseteq Int, n \in {m, n}
<1> QED  BY <1>1, <1>2

\* The greater of two.
LEMMA MaxOfTwo ==
    ASSUME NEW m \in Int, NEW n \in Int
    PROVE  Max({m, n}) = IF m >= n THEN m ELSE n
<1> DEFINE top == IF m >= n THEN m ELSE n
<1>1. top \in {m, n} /\ \A y \in {m, n} : top >= y
  OBVIOUS
<1>2. \A z \in {m, n} : (\A y \in {m, n} : z >= y) => z = top
  OBVIOUS
<1> QED
  BY <1>1, <1>2 DEF Max

\* A place of the text has a byte of it, and any other place the end.
LEMMA AtIs ==
    ASSUME NEW b \in Seq(Byte), NEW i \in Int
    PROVE  /\ i \in 1..Len(b) => At(b, i) = b[i] /\ At(b, i) \in Byte
           /\ i \notin 1..Len(b) <=> At(b, i) = "end"
<1>1. "end" \notin Byte
  BY DEF Byte
<1> QED  BY <1>1 DEF At

\* r is the length of the run of a class that begins at i.
IsRun(b, i, class, r) ==
    /\ r \in Nat
    /\ \A m \in i..(i + r - 1) : At(b, m) \in class
    /\ At(b, i + r) \notin class

\* RunAt is the length of a run: all of a class, and then something that is not.
LEMMA RunIs ==
    ASSUME NEW b \in Seq(Byte), NEW i \in Nat \ {0}, NEW class, "end" \notin class
    PROVE  IsRun(b, i, class, RunAt(b, i, class))
<1> DEFINE L == Len(b)
           top == Max({i, L + 1})
           T == {j \in i..(L + 1) : At(b, j) \notin class} \cup {top}
<1>1. L \in Nat /\ top = (IF i >= L + 1 THEN i ELSE L + 1)
  BY MaxOfTwo
<1>2. top \in Nat /\ i <= top /\ At(b, top) = "end"
  BY <1>1, AtIs
<1>3. T \in SUBSET Nat /\ T # {}
  BY <1>1, <1>2
<1>4. PICK x \in T : \A y \in T : x <= y
  BY <1>3, LeastOf
<1>5. Min(T) = x
  <2> HIDE DEF T
  <2>1. T \subseteq Int
    BY <1>3
  <2> QED  BY <2>1, <1>4, MinOf
<1>6. RunAt(b, i, class) = x - i
  BY <1>5 DEF RunAt
<1> HIDE DEF top
<1>7. x \in Nat /\ i <= x /\ At(b, x) \notin class /\ x <= top
  BY <1>1, <1>2, <1>4
<1>8. ASSUME NEW m \in i..(x - 1) PROVE At(b, m) \in class
  <2>1. m \notin T
    BY <1>4, <1>7
  <2>2. m \in i..(L + 1)
    BY <1>1, <1>7
  <2> QED  BY <2>1, <2>2
<1> HIDE DEF T, L
<1>9. i + (x - i) - 1 = x - 1 /\ i + (x - i) = x /\ x - i \in Nat
  BY <1>7
<1> QED  BY <1>6, <1>7, <1>8, <1>9 DEF IsRun

\* There is one such length.
LEMMA RunUnique ==
    ASSUME NEW b, NEW i \in Int, NEW class, NEW r, NEW q,
           IsRun(b, i, class, r), IsRun(b, i, class, q)
    PROVE  r = q
<1>1. r \in Nat /\ q \in Nat
  BY DEF IsRun
<1>2. CASE r < q
  <2>1. i + r \in i..(i + q - 1)
    BY <1>1, <1>2
  <2> QED  BY <2>1 DEF IsRun
<1>3. CASE q < r
  <2>1. i + q \in i..(i + r - 1)
    BY <1>1, <1>3
  <2> QED  BY <2>1 DEF IsRun
<1> QED  BY <1>1, <1>2, <1>3

\* b is what d has after its first o bytes, as far as its first n.
Agree(b, d, o, n) == \A i \in 1..n : At(b, i) = At(d, i + o)

\* A run that ends where b and d agree is as long in both.
LEMMA RunAgree ==
    ASSUME NEW b \in Seq(Byte), NEW d \in Seq(Byte), NEW o \in Nat, NEW n \in Int,
           Agree(b, d, o, n), NEW class, "end" \notin class, NEW i \in Nat \ {0},
           i + RunAt(d, i + o, class) <= n
    PROVE  RunAt(b, i, class) = RunAt(d, i + o, class)
<1> DEFINE r == RunAt(d, i + o, class)
<1>1. IsRun(d, i + o, class, r)
  BY RunIs, i + o \in Nat \ {0}
<1>2. r \in Nat
  BY <1>1 DEF IsRun
<1> HIDE DEF r
<1>3. \A m \in i..(i + r - 1) : At(b, m) = At(d, m + o) /\ m + o \in (i + o)..(i + o + r - 1)
  BY <1>2 DEF Agree, r
<1>4. At(b, i + r) = At(d, i + o + r)
  <2>1. i + r \in 1..n /\ (i + r) + o = i + o + r
    BY <1>2 DEF r
  <2> QED  BY <2>1 DEF Agree
<1>5. IsRun(b, i, class, r)
  BY <1>1, <1>2, <1>3, <1>4 DEF IsRun
<1> QED
  BY <1>5, RunIs, RunUnique DEF r

\* The removed bytes that are walked over.
Walk(b, i) == Min({RunAt(b, i, Removed), MaxRemoved})

\* The walk is no longer than the source's maxRemovedRun.
LEMMA WalkIs ==
    ASSUME NEW b \in Seq(Byte), NEW i \in Nat \ {0}
    PROVE  Walk(b, i) \in 0..MaxRemoved
<1>1. RunAt(b, i, Removed) \in Nat
  BY RunIs, "end" \notin Removed DEF IsRun, Removed
<1> QED  BY <1>1, MinOfTwo, WindowAssumption DEF Walk

\* The walk reads no more than that either: it ends alike in b and d.
LEMMA WalkAgree ==
    ASSUME NEW b \in Seq(Byte), NEW d \in Seq(Byte), NEW o \in Nat, NEW n \in Int,
           Agree(b, d, o, n), NEW i \in Nat \ {0}, i + MaxRemoved - 1 <= n
    PROVE  Walk(b, i) = Walk(d, i + o)
<1> DEFINE q == RunAt(b, i, Removed)
           r == RunAt(d, i + o, Removed)
<1>0. "end" \notin Removed
  BY DEF Removed
<1>1. IsRun(b, i, Removed, q) /\ IsRun(d, i + o, Removed, r)
  BY <1>0, RunIs, i + o \in Nat \ {0}
<1>2. q \in Nat /\ r \in Nat /\ MaxRemoved \in Nat
  BY <1>1, WindowAssumption DEF IsRun
<1>3. CASE r < MaxRemoved
  <2>1. i + RunAt(d, i + o, Removed) <= n
    BY <1>2, <1>3
  <2>2. q = r
    BY <2>1, RunAgree, <1>0
  <2> QED  BY <2>2 DEF Walk
<1>4. CASE r >= MaxRemoved /\ q < MaxRemoved
  <2> HIDE DEF q, r
  <2>1. i + q \in 1..n /\ (i + q) + o = i + o + q
    BY <1>2, <1>4
  <2>2. At(b, i + q) = At(d, i + o + q)
    BY <2>1 DEF Agree
  <2>3. i + o + q \in (i + o)..(i + o + r - 1)
    BY <1>2, <1>4
  <2> QED  BY <1>1, <2>2, <2>3 DEF IsRun
<1>5. CASE r >= MaxRemoved /\ q >= MaxRemoved
  <2>1. Walk(b, i) = MaxRemoved /\ Walk(d, i + o) = MaxRemoved
    BY <1>2, <1>5, MinOfTwo DEF Walk
  <2> QED  BY <2>1
<1> QED  BY <1>2, <1>3, <1>4, <1>5

\* And so does what hostTerminated reads after it.
LEMMA TerminatedAgree ==
    ASSUME NEW b \in Seq(Byte), NEW d \in Seq(Byte), NEW o \in Nat, NEW n \in Int,
           Agree(b, d, o, n), NEW end \in Nat, end + MaxRemoved + 2 <= n
    PROVE  HostTerminated(b, end) <=> HostTerminated(d, end + o)
<1> DEFINE w == Walk(b, end + 1)
<1>1. w \in 0..MaxRemoved /\ MaxRemoved \in Nat
  BY WalkIs, WindowAssumption
<1>2. Walk(d, end + o + 1) = w
  <2>1. (end + 1) + MaxRemoved - 1 <= n
    BY <1>1
  <2>2. Walk(b, end + 1) = Walk(d, (end + 1) + o)
    BY <2>1, WalkAgree
  <2> QED  BY <2>2
<1> HIDE DEF w
<1>3. /\ At(b, end + w + 1) = At(d, end + o + w + 1)
      /\ At(b, end + w + 1 + 1) = At(d, end + o + w + 1 + 1)
  <2>1. end + w + 1 \in 1..n /\ end + w + 1 + 1 \in 1..n
    BY <1>1
  <2>2. (end + w + 1) + o = end + o + w + 1 /\ (end + w + 1 + 1) + o = end + o + w + 1 + 1
    BY <1>1
  <2> QED  BY <2>1, <2>2 DEF Agree
<1>4. HostTerminated(b, end) <=>
        \/ ~IsHostByte(At(b, end + w + 1))
        \/ At(b, end + w + 1) = "." /\ ~IsHostByte(At(b, end + w + 1 + 1))
  BY DEF HostTerminated, DelimAt, w, Walk
<1>5. HostTerminated(d, end + o) <=>
        \/ ~IsHostByte(At(d, end + o + w + 1))
        \/ At(d, end + o + w + 1) = "." /\ ~IsHostByte(At(d, end + o + w + 1 + 1))
  BY <1>2 DEF HostTerminated, DelimAt, Walk
<1> QED  BY <1>3, <1>4, <1>5

-----------------------------------------------------------------------------
\* Candidates.

\* What the host is made of, for the provers.
LEMMA HostBytes ==
    /\ Host \in Seq(Byte) /\ Len(Host) \in Nat \ {0}
    /\ \A i \in 1..Len(Host) : Host[i] \in Byte /\ Host[i] \notin Structural
<1>1. Host \in Seq(Byte \ Structural) /\ Host # <<>>
  BY HostAssumption
<1>2. Len(Host) \in Nat \ {0}
  BY <1>1
<1>3. \A i \in 1..Len(Host) : Host[i] \in Byte \ Structural
  BY <1>1
<1>4. Host \in Seq(Byte)
  BY <1>1
<1> QED  BY <1>2, <1>3, <1>4

\* A word is spelled at i if its bytes are there.
LEMMA SpellsAt ==
    ASSUME NEW b \in Seq(Byte), NEW i \in Nat \ {0}, NEW word \in Seq(Byte)
    PROVE  /\ Spells(b, i, word) <=> /\ i + Len(word) - 1 <= Len(b)
                                    /\ \A j \in 1..Len(word) : b[i + j - 1] = word[j]
<1> DEFINE n == Len(word)
           s == SubSeq(b, i, i + n - 1)
<1>1. n \in Nat /\ Len(b) \in Nat
  OBVIOUS
<1>2. ASSUME i + n - 1 <= Len(b)
      PROVE  s = word <=> \A j \in 1..n : b[i + j - 1] = word[j]
  <2>1. s \in Seq(Byte) /\ Len(s) = n
    BY <1>1, <1>2
  <2>2. \A j \in 1..n : s[j] = b[i + j - 1]
    BY <1>1, <1>2
  <2> HIDE DEF s
  <2>3. (\A j \in 1..n : s[j] = word[j]) => s = word
    BY <2>1, <1>1
  <2> QED  BY <2>2, <2>3
<1> QED  BY <1>2 DEF Spells

\* What a candidate is, byte by byte.
RelativeAt(b, i) ==
    /\ i + 1 + Len(Host) <= Len(b)
    /\ b[i] = "/" /\ b[i + 1] = "/"
    /\ \A j \in 1..Len(Host) : b[i + 1 + j] = Host[j]

AbsoluteAt(b, i) ==
    /\ i + 2 + Len(Host) <= Len(b)
    /\ b[i] = "p" /\ b[i + 1] = "/" /\ b[i + 2] = "/"
    /\ \A j \in 1..Len(Host) : b[i + 2 + j] = Host[j]

\* A candidate begins where either form of one is.
LEMMA BeginsAt ==
    ASSUME NEW b \in Seq(Byte), NEW i \in Nat \ {0}
    PROVE  Begins(b, i) <=> RelativeAt(b, i) \/ AbsoluteAt(b, i)
<1> DEFINE r == Separator \o Host
           a == <<"p">> \o r
           n == Len(Host)
<1>0. "p" \in Byte /\ "/" \in Byte
  BY DEF Byte, Structural
<1>1. Host \in Seq(Byte) /\ n \in Nat \ {0}
  BY HostBytes
<1>2. /\ r \in Seq(Byte) /\ Len(r) = n + 2
      /\ r[1] = "/" /\ r[2] = "/" /\ \A j \in 1..n : r[2 + j] = Host[j]
  BY <1>0, <1>1 DEF Separator
<1> HIDE DEF r
<1>3. /\ a \in Seq(Byte) /\ Len(a) = n + 3
      /\ a[1] = "p" /\ \A j \in 1..(n + 2) : a[1 + j] = r[j]
  BY <1>0, <1>1, <1>2
<1>4. <<"p">> \o Separator \o Host = a
  <2>1. <<"p">> \in Seq(Byte) /\ Separator \in Seq(Byte)
    BY <1>0 DEF Separator
  <2> QED  BY <2>1, <1>1, ConcatAssociative DEF r
<1> HIDE DEF a
<1>5. Spells(b, i, r) <=> RelativeAt(b, i)
  <2>1. Spells(b, i, r) <=> /\ i + (n + 2) - 1 <= Len(b)
                            /\ \A j \in 1..(n + 2) : b[i + j - 1] = r[j]
    BY <1>2, SpellsAt
  <2>2. (\A j \in 1..(n + 2) : b[i + j - 1] = r[j]) <=>
          /\ b[i] = "/" /\ b[i + 1] = "/" /\ \A j \in 1..n : b[i + 1 + j] = Host[j]
    <3>1. ASSUME \A j \in 1..(n + 2) : b[i + j - 1] = r[j]
          PROVE  /\ b[i] = "/" /\ b[i + 1] = "/" /\ \A j \in 1..n : b[i + 1 + j] = Host[j]
      <4>0. 1 \in 1..(n + 2) /\ 2 \in 1..(n + 2) /\ i + 1 - 1 = i /\ i + 2 - 1 = i + 1
        BY <1>1
      <4>1. b[i] = r[1] /\ b[i + 1] = r[2]
        BY <3>1, <4>0
      <4>2. \A j \in 1..n : b[i + (2 + j) - 1] = r[2 + j]
        BY <3>1, <1>1
      <4>3. \A j \in 1..n : i + (2 + j) - 1 = i + 1 + j
        OBVIOUS
      <4> QED  BY <4>1, <4>2, <4>3, <1>2
    <3>2. ASSUME b[i] = "/" /\ b[i + 1] = "/" /\ \A j \in 1..n : b[i + 1 + j] = Host[j],
                 NEW j \in 1..(n + 2)
          PROVE  b[i + j - 1] = r[j]
      <4>1. CASE j = 1  BY <4>1, <3>2, <1>2
      <4>2. CASE j = 2  BY <4>2, <3>2, <1>2
      <4>3. CASE j > 2
        <5>1. j - 2 \in 1..n /\ i + 1 + (j - 2) = i + j - 1 /\ 2 + (j - 2) = j
          BY <4>3, <1>1
        <5>2. b[i + 1 + (j - 2)] = Host[j - 2] /\ r[2 + (j - 2)] = Host[j - 2]
          BY <5>1, <3>2, <1>2
        <5> QED  BY <5>1, <5>2
      <4> QED  BY <4>1, <4>2, <4>3
    <3> QED  BY <3>1, <3>2
  <2>3. i + (n + 2) - 1 = i + 1 + n
    BY <1>1
  <2> QED  BY <2>1, <2>2, <2>3 DEF RelativeAt
<1>6. Spells(b, i, a) <=> AbsoluteAt(b, i)
  <2>1. Spells(b, i, a) <=> /\ i + (n + 3) - 1 <= Len(b)
                            /\ \A j \in 1..(n + 3) : b[i + j - 1] = a[j]
    <3>1. a \in Seq(Byte) /\ Len(a) = n + 3
      BY <1>3
    <3>2. Spells(b, i, a) <=> /\ i + Len(a) - 1 <= Len(b)
                              /\ \A j \in 1..Len(a) : b[i + j - 1] = a[j]
      BY <3>1, SpellsAt
    <3> QED  BY <3>1, <3>2
  <2>2. (\A j \in 1..(n + 3) : b[i + j - 1] = a[j]) <=>
          /\ b[i] = "p" /\ b[i + 1] = "/" /\ b[i + 2] = "/"
          /\ \A j \in 1..n : b[i + 2 + j] = Host[j]
    <3>0. a[2] = "/" /\ a[3] = "/" /\ \A j \in 1..n : a[3 + j] = Host[j]
      <4>1. a[1 + 1] = r[1] /\ a[1 + 2] = r[2]
        BY <1>3, <1>1
      <4>2. \A j \in 1..n : a[1 + (2 + j)] = r[2 + j]
        BY <1>3, <1>1
      <4>3. \A j \in 1..n : 1 + (2 + j) = 3 + j
        OBVIOUS
      <4> QED  BY <4>1, <4>2, <4>3, <1>2
    <3>1. ASSUME \A j \in 1..(n + 3) : b[i + j - 1] = a[j]
          PROVE  /\ b[i] = "p" /\ b[i + 1] = "/" /\ b[i + 2] = "/"
                 /\ \A j \in 1..n : b[i + 2 + j] = Host[j]
      <4>0. /\ 1 \in 1..(n + 3) /\ 2 \in 1..(n + 3) /\ 3 \in 1..(n + 3)
            /\ i + 1 - 1 = i /\ i + 2 - 1 = i + 1 /\ i + 3 - 1 = i + 2
        BY <1>1
      <4>1. b[i] = a[1] /\ b[i + 1] = a[2] /\ b[i + 2] = a[3]
        BY <3>1, <4>0
      <4>2. \A j \in 1..n : b[i + (3 + j) - 1] = a[3 + j]
        BY <3>1, <1>1
      <4>3. \A j \in 1..n : i + (3 + j) - 1 = i + 2 + j
        OBVIOUS
      <4> QED  BY <4>1, <4>2, <4>3, <3>0, <1>3
    <3>2. ASSUME /\ b[i] = "p" /\ b[i + 1] = "/" /\ b[i + 2] = "/"
                 /\ \A j \in 1..n : b[i + 2 + j] = Host[j],
                 NEW j \in 1..(n + 3)
          PROVE  b[i + j - 1] = a[j]
      <4>1. CASE j = 1  BY <4>1, <3>2, <1>3
      <4>2. CASE j = 2  BY <4>2, <3>2, <3>0
      <4>4. CASE j = 3  BY <4>4, <3>2, <3>0
      <4>3. CASE j > 3
        <5>1. j - 3 \in 1..n /\ i + 2 + (j - 3) = i + j - 1 /\ 3 + (j - 3) = j
          BY <4>3, <1>1
        <5>2. b[i + 2 + (j - 3)] = Host[j - 3] /\ a[3 + (j - 3)] = Host[j - 3]
          BY <5>1, <3>2, <3>0
        <5> QED  BY <5>1, <5>2
      <4> QED  BY <4>1, <4>2, <4>3, <4>4
    <3> QED  BY <3>1, <3>2
  <2>3. i + (n + 3) - 1 = i + 2 + n
    BY <1>1
  <2> QED  BY <2>1, <2>2, <2>3 DEF AbsoluteAt
<1> QED  BY <1>4, <1>5, <1>6 DEF Begins, r

\* The host of a candidate is in the buffer, and its first byte says which it is.
LEMMA BeginsIs ==
    ASSUME NEW b \in Seq(Byte), NEW i \in Nat \ {0}, Begins(b, i)
    PROVE  /\ IsRelative(b, i) <=> RelativeAt(b, i)
           /\ ~IsRelative(b, i) <=> AbsoluteAt(b, i)
           /\ HostEnd(b, i) \in (i + 1)..Len(b)
           /\ HostEnd(b, i) < i + MaxPat
           /\ i \in 1..Len(b)
<1>1. RelativeAt(b, i) \/ AbsoluteAt(b, i)
  BY BeginsAt
<1>2. Len(Host) \in Nat \ {0} /\ Len(Separator) = 2 /\ Len(b) \in Nat
  BY HostBytes DEF Separator
<1>3. CASE RelativeAt(b, i)
  BY <1>2, <1>3 DEF RelativeAt, AbsoluteAt, IsRelative, HostEnd, MaxPat
<1>4. CASE AbsoluteAt(b, i)
  BY <1>2, <1>4 DEF RelativeAt, AbsoluteAt, IsRelative, HostEnd, MaxPat
<1> QED  BY <1>1, <1>3, <1>4

\* No candidate can begin at such a byte.
NoStart(b, i) ==
    /\ b[i] # "p"
    /\ b[i] = "/" => i + 1 \in 1..Len(b) /\ b[i + 1] # "/"

\* NoStart says what it means.
LEMMA NoStartIs ==
    ASSUME NEW b \in Seq(Byte), NEW i \in Nat \ {0}, NoStart(b, i)
    PROVE  ~Begins(b, i)
BY BeginsAt DEF NoStart, RelativeAt, AbsoluteAt

\* Nor inside another one that is relative.
LEMMA NoneInside ==
    ASSUME NEW b \in Seq(Byte), NEW i \in Nat \ {0}, Begins(b, i), IsRelative(b, i),
           NEW j \in (i + 1)..HostEnd(b, i)
    PROVE  j \in 1..Len(b) /\ NoStart(b, j)
<1>1. RelativeAt(b, i) /\ HostEnd(b, i) = i + Len(Host) + 1 /\ Len(Host) \in Nat \ {0}
  BY BeginsIs, HostBytes DEF HostEnd
<1>2. Len(b) \in Nat /\ i + 1 + Len(Host) <= Len(b)
  BY <1>1 DEF RelativeAt
<1>3. \A k \in 1..Len(Host) : b[i + 1 + k] \notin {"p", "/"}
  BY <1>1, HostBytes DEF RelativeAt, Structural
<1>4. CASE j = i + 1
  <2>1. b[i + 1] = "/" /\ b[i + 1 + 1] # "/"
    BY <1>1, <1>3 DEF RelativeAt
  <2> QED  BY <2>1, <1>1, <1>2, <1>4 DEF NoStart
<1>5. CASE j > i + 1
  <2>1. j - i - 1 \in 1..Len(Host) /\ i + 1 + (j - i - 1) = j
    BY <1>1, <1>5
  <2>2. b[j] \notin {"p", "/"}
    BY <2>1, <1>3
  <2> QED  BY <2>2, <1>1, <1>2 DEF NoStart
<1> QED  BY <1>4, <1>5

-----------------------------------------------------------------------------
\* Verdicts: where they end, and that they are one of five.

\* The name ends in the buffer, a root dot after the host.
LEMMA NameEndIs ==
    ASSUME NEW b \in Seq(Byte), NEW i \in Nat \ {0}, Begins(b, i)
    PROVE  /\ NameEnd(b, i) \in HostEnd(b, i)..Len(b)
           /\ NameEnd(b, i) <= HostEnd(b, i) + 1
<1>1. HostEnd(b, i) \in (i + 1)..Len(b) /\ Len(b) \in Nat
  BY BeginsIs
<1>2. At(b, HostEnd(b, i) + 1) = "." => HostEnd(b, i) + 1 \in 1..Len(b)
  BY <1>1, AtIs, "." # "end"
<1> QED  BY <1>1, <1>2 DEF NameEnd

\* A port follows a colon, and ends in the buffer.
LEMMA PortLenIs ==
    ASSUME NEW b \in Seq(Byte), NEW i \in Nat \ {0}, Begins(b, i)
    PROVE  /\ PortLen(b, i) \in Nat
           /\ PortLen(b, i) > 0 => HasColon(b, i)
           /\ HasColon(b, i) => /\ NameEnd(b, i) + 1 \in 1..Len(b)
                                /\ b[NameEnd(b, i) + 1] = ":"
                                /\ PortLen(b, i) = RunAt(b, NameEnd(b, i) + 2, Digit)
                                /\ NameEnd(b, i) + 1 + PortLen(b, i) <= Len(b)
<1> DEFINE e == NameEnd(b, i)
           r == RunAt(b, e + 2, Digit)
<1>0. e \in Nat /\ Len(b) \in Nat
  BY NameEndIs, BeginsIs
<1>1. IsRun(b, e + 2, Digit, r)
  BY <1>0, RunIs, "end" \notin Digit, e + 2 \in Nat \ {0} DEF Digit
<1>2. r \in Nat
  BY <1>1 DEF IsRun
<1>3. CASE ~HasColon(b, i)
  BY <1>3 DEF PortLen
<1>4. CASE HasColon(b, i)
  <2>1. PortLen(b, i) = r
    BY <1>4 DEF PortLen
  <2>2. e + 1 \in 1..Len(b) /\ b[e + 1] = ":"
    <3>1. At(b, e + 1) = ":"
      BY <1>4 DEF HasColon
    <3>2. e + 1 \in 1..Len(b)
      BY <3>1, <1>0, AtIs, ":" # "end"
    <3> QED  BY <3>1, <3>2, AtIs
  <2> HIDE DEF r
  <2>3. e + 1 + r <= Len(b)
    <3>1. CASE r = 0
      BY <3>1, <2>2, <1>0
    <3>2. CASE r > 0
      <4>1. e + 1 + r \in (e + 2)..(e + 2 + r - 1)
        BY <3>2, <1>0, <1>2
      <4>2. At(b, e + 1 + r) # "end"
        BY <4>1, <1>1 DEF IsRun, Digit
      <4>3. e + 1 + r \in 1..Len(b)
        BY <4>2, <1>0, <1>2, AtIs
      <4> QED  BY <4>3
    <3> QED  BY <3>1, <3>2, <1>2
  <2> QED  BY <2>1, <2>2, <2>3, <1>2, <1>4 DEF r
<1> QED  BY <1>3, <1>4

\* So does the origin, with its port.
LEMMA OriginEndIs ==
    ASSUME NEW b \in Seq(Byte), NEW i \in Nat \ {0}, Begins(b, i)
    PROVE  /\ OriginEnd(b, i) \in NameEnd(b, i)..Len(b)
           /\ OriginEnd(b, i) <= NameEnd(b, i) + 1 + PortLen(b, i)
<1>1. NameEnd(b, i) \in Nat /\ Len(b) \in Nat /\ NameEnd(b, i) <= Len(b)
  BY NameEndIs, BeginsIs
<1>2. /\ PortLen(b, i) \in Nat
      /\ PortLen(b, i) > 0 => NameEnd(b, i) + 1 + PortLen(b, i) <= Len(b)
  BY PortLenIs
<1> QED  BY <1>1, <1>2 DEF OriginEnd

\* The reasons a verdict gives.
Reasons == {"unanchored", "not-a-url", "host-not-in-map", "rewrote"}

\* The five verdicts, each with what it is decided on.
LEMMA VerdictIs ==
    ASSUME NEW b, NEW i, NEW before
    PROVE  \/ /\ Unanchored(b, i, before)
              /\ Verdict(b, i, before) = [end |-> HostEnd(b, i), reason |-> "unanchored"]
           \/ /\ ~Unanchored(b, i, before) /\ BareColon(b, i)
              /\ Verdict(b, i, before) = [end |-> NameEnd(b, i) + 1, reason |-> "not-a-url"]
           \/ /\ ~Unanchored(b, i, before) /\ ~BareColon(b, i)
              /\ ~HostTerminated(b, OriginEnd(b, i))
              /\ Verdict(b, i, before) = [end |-> OriginEnd(b, i), reason |-> "not-a-url"]
           \/ /\ ~Unanchored(b, i, before) /\ ~BareColon(b, i)
              /\ HostTerminated(b, OriginEnd(b, i)) /\ ~DefaultPort(PortOf(b, i))
              /\ Verdict(b, i, before) = [end |-> OriginEnd(b, i), reason |-> "host-not-in-map"]
           \/ /\ ~Unanchored(b, i, before) /\ ~BareColon(b, i)
              /\ HostTerminated(b, OriginEnd(b, i)) /\ DefaultPort(PortOf(b, i))
              /\ Verdict(b, i, before) = [end |-> OriginEnd(b, i), reason |-> "rewrote"]
<1>1. CASE Unanchored(b, i, before)
  <2>1. Verdict(b, i, before) = [end |-> HostEnd(b, i), reason |-> "unanchored"]
    BY <1>1 DEF Verdict, Unanchored
  <2> QED  BY <2>1, <1>1
<1>2. CASE ~Unanchored(b, i, before) /\ BareColon(b, i)
  <2>1. Verdict(b, i, before) = [end |-> NameEnd(b, i) + 1, reason |-> "not-a-url"]
    BY <1>2 DEF Verdict, Unanchored, BareColon
  <2> QED  BY <2>1, <1>2
<1>3. CASE ~Unanchored(b, i, before) /\ ~BareColon(b, i) /\ ~HostTerminated(b, OriginEnd(b, i))
  <2>1. Verdict(b, i, before) = [end |-> OriginEnd(b, i), reason |-> "not-a-url"]
    BY <1>3 DEF Verdict, Unanchored, BareColon
  <2> QED  BY <2>1, <1>3
<1>4. CASE /\ ~Unanchored(b, i, before) /\ ~BareColon(b, i) /\ HostTerminated(b, OriginEnd(b, i))
           /\ ~DefaultPort(PortOf(b, i))
  <2>1. Verdict(b, i, before) = [end |-> OriginEnd(b, i), reason |-> "host-not-in-map"]
    BY <1>4 DEF Verdict, Unanchored, BareColon
  <2> QED  BY <2>1, <1>4
<1>5. CASE /\ ~Unanchored(b, i, before) /\ ~BareColon(b, i) /\ HostTerminated(b, OriginEnd(b, i))
           /\ DefaultPort(PortOf(b, i))
  <2>1. Verdict(b, i, before) = [end |-> OriginEnd(b, i), reason |-> "rewrote"]
    BY <1>5 DEF Verdict, Unanchored, BareColon
  <2> QED  BY <2>1, <1>5
<1> QED  BY <1>1, <1>2, <1>3, <1>4, <1>5

\* A verdict's end is past the candidate's first byte, in the buffer.
LEMMA VerdictBounds ==
    ASSUME NEW b \in Seq(Byte), NEW i \in Nat \ {0}, Begins(b, i), NEW before
    PROVE  /\ Verdict(b, i, before).end \in (i + 1)..Len(b)
           /\ Verdict(b, i, before).reason \in Reasons
           /\ Verdict(b, i, before).reason = "unanchored" =>
                 /\ IsRelative(b, i)
                 /\ Verdict(b, i, before).end = HostEnd(b, i)
<1>1. HostEnd(b, i) \in (i + 1)..Len(b)
  BY BeginsIs
<1>2. NameEnd(b, i) \in HostEnd(b, i)..Len(b)
  BY NameEndIs
<1>3. OriginEnd(b, i) \in NameEnd(b, i)..Len(b)
  BY OriginEndIs
<1>4. HasColon(b, i) => NameEnd(b, i) + 1 \in 1..Len(b)
  BY PortLenIs
<1>5. \A k \in {HostEnd(b, i), NameEnd(b, i), OriginEnd(b, i)} : k \in (i + 1)..Len(b)
  BY <1>1, <1>2, <1>3
<1>6. HasColon(b, i) => NameEnd(b, i) + 1 \in (i + 1)..Len(b)
  BY <1>4, <1>5
<1> DEFINE v == Verdict(b, i, before)
<1>7. \/ v = [end |-> HostEnd(b, i), reason |-> "unanchored"] /\ IsRelative(b, i)
      \/ v = [end |-> NameEnd(b, i) + 1, reason |-> "not-a-url"] /\ HasColon(b, i)
      \/ \E why \in Reasons \ {"unanchored"} : v = [end |-> OriginEnd(b, i), reason |-> why]
  BY VerdictIs, Zenon DEF Unanchored, BareColon, Reasons
<1> HIDE DEF v
<1>8. v.end \in (i + 1)..Len(b) /\ v.reason \in Reasons
      /\ (v.reason = "unanchored" => IsRelative(b, i) /\ v.end = HostEnd(b, i))
  <2>1. CASE v = [end |-> HostEnd(b, i), reason |-> "unanchored"] /\ IsRelative(b, i)
    BY <2>1, <1>5 DEF Reasons
  <2>2. CASE v = [end |-> NameEnd(b, i) + 1, reason |-> "not-a-url"] /\ HasColon(b, i)
    BY <2>2, <1>6 DEF Reasons
  <2>3. ASSUME NEW why \in Reasons \ {"unanchored"}, v = [end |-> OriginEnd(b, i), reason |-> why]
        PROVE  v.end \in (i + 1)..Len(b) /\ v.reason \in Reasons /\ v.reason # "unanchored"
    BY <2>3, <1>5
  <2> QED  BY <1>7, <2>1, <2>2, <2>3
<1> QED  BY <1>8 DEF v

-----------------------------------------------------------------------------
\* Locality: a verdict is the same wherever the bytes it reads are the same.

\* A candidate is known by what is read at its places, the end included.
LEMMA RelativeByAt ==
    ASSUME NEW b \in Seq(Byte), NEW i \in Nat \ {0}
    PROVE  /\ RelativeAt(b, i) <=> /\ At(b, i) = "/" /\ At(b, i + 1) = "/"
                                   /\ \A j \in 1..Len(Host) : At(b, i + 1 + j) = Host[j]
           /\ AbsoluteAt(b, i) <=> /\ At(b, i) = "p" /\ At(b, i + 1) = "/" /\ At(b, i + 2) = "/"
                                   /\ \A j \in 1..Len(Host) : At(b, i + 2 + j) = Host[j]
<1> DEFINE n == Len(Host)
<1>1. n \in Nat \ {0} /\ Len(b) \in Nat /\ Host[n] # "end"
  <2>1. n \in Nat \ {0} /\ Len(b) \in Nat
    BY HostBytes
  <2>2. n \in 1..n
    BY <2>1
  <2> QED  BY <2>1, <2>2, HostBytes DEF Structural
<1> HIDE DEF n
<1>2. \A k \in 1..Len(b) : At(b, k) = b[k]
  BY AtIs
<1>3. \A k \in Nat \ {0} : k > Len(b) => At(b, k) = "end"
  BY AtIs
<1>4. RelativeAt(b, i) <=> /\ At(b, i) = "/" /\ At(b, i + 1) = "/"
                           /\ \A j \in 1..n : At(b, i + 1 + j) = Host[j]
  <2>1. CASE i + 1 + n <= Len(b)
    <3>1. i \in 1..Len(b) /\ i + 1 \in 1..Len(b) /\ \A j \in 1..n : i + 1 + j \in 1..Len(b)
      BY <2>1, <1>1
    <3>2. At(b, i) = b[i] /\ At(b, i + 1) = b[i + 1]
          /\ \A j \in 1..n : At(b, i + 1 + j) = b[i + 1 + j]
      BY <3>1, <1>2
    <3> QED  BY <3>2, <2>1 DEF RelativeAt, n
  <2>2. CASE i + 1 + n > Len(b)
    <3>1. n \in 1..n /\ At(b, i + 1 + n) = "end"
      BY <2>2, <1>1, <1>3
    <3> QED  BY <3>1, <2>2, <1>1 DEF RelativeAt, n
  <2> QED  BY <2>1, <2>2, <1>1
<1>5. AbsoluteAt(b, i) <=> /\ At(b, i) = "p" /\ At(b, i + 1) = "/" /\ At(b, i + 2) = "/"
                           /\ \A j \in 1..n : At(b, i + 2 + j) = Host[j]
  <2>1. CASE i + 2 + n <= Len(b)
    <3>1. i \in 1..Len(b) /\ i + 1 \in 1..Len(b) /\ i + 2 \in 1..Len(b)
          /\ \A j \in 1..n : i + 2 + j \in 1..Len(b)
      BY <2>1, <1>1
    <3>2. At(b, i) = b[i] /\ At(b, i + 1) = b[i + 1] /\ At(b, i + 2) = b[i + 2]
          /\ \A j \in 1..n : At(b, i + 2 + j) = b[i + 2 + j]
      BY <3>1, <1>2
    <3> QED  BY <3>2, <2>1 DEF AbsoluteAt, n
  <2>2. CASE i + 2 + n > Len(b)
    <3>1. n \in 1..n /\ At(b, i + 2 + n) = "end"
      BY <2>2, <1>1, <1>3
    <3> QED  BY <3>1, <2>2, <1>1 DEF AbsoluteAt, n
  <2> QED  BY <2>1, <2>2, <1>1
<1> QED  BY <1>4, <1>5 DEF n

\* Whether a candidate begins at i is decided by the longest pattern's bytes.
LEMMA BeginsAgree ==
    ASSUME NEW b \in Seq(Byte), NEW d \in Seq(Byte), NEW o \in Nat, NEW n \in Int,
           Agree(b, d, o, n), NEW i \in Nat \ {0}, i + MaxPat <= n + 1
    PROVE  Begins(b, i) <=> Begins(d, i + o)
<1>1. Len(Host) \in Nat \ {0} /\ MaxPat = Len(Host) + 3
  BY HostBytes DEF MaxPat, Separator
<1>2. \A k \in 1..n : At(b, k) = At(d, k + o)
  BY DEF Agree
<1>3. At(b, i) = At(d, i + o) /\ At(b, i + 1) = At(d, i + o + 1) /\ At(b, i + 2) = At(d, i + o + 2)
  <2>1. i \in 1..n /\ i + 1 \in 1..n /\ i + 2 \in 1..n
    BY <1>1
  <2>2. (i + 1) + o = i + o + 1 /\ (i + 2) + o = i + o + 2
    OBVIOUS
  <2> QED  BY <1>2, <2>1, <2>2
<1>4. ASSUME NEW j \in 1..Len(Host)
      PROVE  At(b, i + 1 + j) = At(d, i + o + 1 + j) /\ At(b, i + 2 + j) = At(d, i + o + 2 + j)
  <2>1. i + 1 + j \in 1..n /\ i + 2 + j \in 1..n
    BY <1>1
  <2>2. (i + 1 + j) + o = i + o + 1 + j /\ (i + 2 + j) + o = i + o + 2 + j
    OBVIOUS
  <2> QED  BY <1>2, <2>1, <2>2
<1>5. i + o \in Nat \ {0}
  OBVIOUS
<1>6. Begins(b, i) <=> RelativeAt(b, i) \/ AbsoluteAt(b, i)
  BY BeginsAt
<1>7. Begins(d, i + o) <=> RelativeAt(d, i + o) \/ AbsoluteAt(d, i + o)
  BY <1>5, BeginsAt
<1>8. RelativeAt(b, i) <=> RelativeAt(d, i + o)
  BY <1>3, <1>4, <1>5, RelativeByAt
<1>9. AbsoluteAt(b, i) <=> AbsoluteAt(d, i + o)
  BY <1>3, <1>4, <1>5, RelativeByAt
<1> QED  BY <1>6, <1>7, <1>8, <1>9

\* No port is longer than the window allows: the digits of it that are read lie
\* within the slack, with a root dot, the colon and the byte after them.
LEMMA VerdictAgree ==
    ASSUME NEW b \in Seq(Byte), NEW d \in Seq(Byte), NEW o \in Nat, NEW n \in Int,
           Agree(b, d, o, n), PortsFit(d), NEW i \in Nat \ {0}, i + MaxMatchLen <= n,
           Begins(b, i), NEW before
    PROVE  /\ Begins(d, i + o)
           /\ IsRelative(d, i + o) <=> IsRelative(b, i)
           /\ Verdict(d, i + o, before).end = Verdict(b, i, before).end + o
           /\ Verdict(d, i + o, before).reason = Verdict(b, i, before).reason
<1>0. /\ MaxPat \in Nat /\ Slack \in Nat /\ Slack >= 3 /\ MaxRemoved \in Nat
      /\ MaxMatchLen = MaxPat + Slack + MaxRemoved
      /\ i + o \in Nat \ {0} /\ Len(b) \in Nat /\ Len(d) \in Nat
  BY HostBytes, WindowAssumption DEF MaxPat, Separator, MaxMatchLen
<1> HIDE DEF MaxPat, MaxMatchLen
<1>1. Begins(d, i + o)
  BY <1>0, BeginsAgree
<1>2. \A k \in 1..n : At(b, k) = At(d, k + o)
  BY DEF Agree
<1>3. IsRelative(d, i + o) <=> IsRelative(b, i)
  <2>1. i \in 1..Len(b) /\ i + o \in 1..Len(d) /\ i \in 1..n
    BY <1>0, <1>1, BeginsIs
  <2>2. b[i] = d[i + o]
    BY <2>1, <1>2, AtIs
  <2> QED  BY <2>2 DEF IsRelative
<1> DEFINE h == HostEnd(b, i)
           e == NameEnd(b, i)
           p == PortLen(b, i)
           x == OriginEnd(b, i)
<1>4. h \in (i + 1)..Len(b) /\ h < i + MaxPat
  BY BeginsIs
<1>5. HostEnd(d, i + o) = h + o
  BY <1>3, HostBytes DEF HostEnd
<1> HIDE DEF h
<1>6. e \in h..Len(b) /\ e <= h + 1
  BY NameEndIs DEF h
<1>7. NameEnd(d, i + o) = e + o
  <2>1. h + 1 \in 1..n /\ h + 2 \in 1..n /\ (h + 1) + o = h + o + 1 /\ (h + 2) + o = h + o + 2
    BY <1>0, <1>4
  <2>2. At(b, h + 1) = At(d, h + o + 1) /\ At(b, h + 2) = At(d, h + o + 2)
    BY <2>1, <1>2
  <2>3. NameEnd(b, i) = IF At(b, h + 1) = "." /\ EndsHost(b, h + 2) THEN h + 1 ELSE h
    BY DEF NameEnd, h
  <2>4. NameEnd(d, i + o) =
          IF At(d, h + o + 1) = "." /\ EndsHost(d, h + o + 2) THEN h + o + 1 ELSE h + o
    BY <1>5 DEF NameEnd
  <2>5. EndsHost(b, h + 2) <=> EndsHost(d, h + o + 2)
    BY <2>2 DEF EndsHost
  <2> QED  BY <2>2, <2>3, <2>4, <2>5, <1>4
<1> HIDE DEF e
<1>8. HasColon(d, i + o) <=> HasColon(b, i)
  <2>1. e + 1 \in 1..n /\ (e + 1) + o = e + o + 1
    BY <1>0, <1>4, <1>6
  <2>2. At(b, e + 1) = At(d, e + o + 1)
    BY <2>1, <1>2
  <2> QED  BY <2>2, <1>7 DEF HasColon, e
<1>9. p \in Nat /\ p <= Slack - 3 /\ PortLen(d, i + o) = p
  <2>1. CASE ~HasColon(b, i)
    BY <2>1, <1>8, <1>0 DEF PortLen
  <2>2. CASE HasColon(b, i)
    <3> DEFINE r == RunAt(d, e + o + 2, Digit)
    <3>1. /\ e + o + 1 \in 1..Len(d) /\ d[e + o + 1] = ":"
          /\ PortLen(d, i + o) = r /\ r \in Nat
      BY <2>2, <1>0, <1>1, <1>7, <1>8, PortLenIs
    <3>2. r <= Slack - 3
      <4>1. e + o + 1 \in DOMAIN d /\ e + o + 1 + 1 = e + o + 2
        BY <3>1, <1>4, <1>6
      <4> QED  BY <3>1, <4>1 DEF PortsFit
    <3>3. (e + 2) + o = e + o + 2 /\ e + 2 \in Nat \ {0}
      BY <1>4, <1>6
    <3>4. (e + 2) + r <= n
      BY <3>1, <3>2, <1>0, <1>4, <1>6
    <3>5. RunAt(b, e + 2, Digit) = r
      <4>1. "end" \notin Digit
        BY DEF Digit
      <4>2. RunAt(d, (e + 2) + o, Digit) = r
        BY <3>3
      <4> HIDE DEF r
      <4> QED  BY <3>3, <3>4, <4>1, <4>2, RunAgree
    <3>6. p = RunAt(b, e + 2, Digit)
      BY <2>2 DEF PortLen, e
    <3> QED  BY <3>1, <3>2, <3>5, <3>6
  <2> QED  BY <2>1, <2>2
<1> HIDE DEF p
<1>10. x \in e..Len(b) /\ x <= e + 1 + p /\ OriginEnd(d, i + o) = x + o
  <2>1. x \in e..Len(b) /\ x <= e + 1 + p
    BY OriginEndIs DEF e, p
  <2>2. x = e + (IF p > 0 THEN 1 + p ELSE 0)
    BY DEF OriginEnd, e, p
  <2>3. OriginEnd(d, i + o) = e + o + (IF p > 0 THEN 1 + p ELSE 0)
    BY <1>7, <1>9 DEF OriginEnd
  <2>4. e \in Nat /\ p \in Nat
    BY <1>4, <1>6, <1>9
  <2>5. OriginEnd(d, i + o) = x + o
    <3> HIDE DEF x
    <3>1. CASE p > 0
      BY <3>1, <2>2, <2>3, <2>4
    <3>2. CASE ~(p > 0)
      BY <3>2, <2>2, <2>3, <2>4
    <3> QED  BY <3>1, <3>2
  <2> QED  BY <2>1, <2>5
<1> HIDE DEF x
<1>11. BareColon(d, i + o) <=> BareColon(b, i)
  <2>1. e + 1 \in Nat /\ (e + 1) + MaxRemoved + 2 <= n
    BY <1>0, <1>4, <1>6
  <2>2. HostTerminated(b, e + 1) <=> HostTerminated(d, (e + 1) + o)
    BY <2>1, <1>0, TerminatedAgree
  <2>3. (e + 1) + o = e + o + 1
    BY <1>4, <1>6
  <2> QED  BY <2>2, <2>3, <1>7, <1>8, <1>9 DEF BareColon, e, p
<1>12. HostTerminated(d, x + o) <=> HostTerminated(b, x)
  <2>1. x \in Nat /\ x + MaxRemoved + 2 <= n
    BY <1>0, <1>4, <1>6, <1>9, <1>10
  <2> QED  BY <2>1, <1>0, TerminatedAgree
<1>13. PortOf(d, i + o) = PortOf(b, i)
  <2>1. p = 0 \/ e + 1 + p <= Len(b)
    BY PortLenIs, <1>9 DEF e, p
  <2>2. \A k \in (e + 2)..(e + 1 + p) : k \in 1..Len(b) /\ k + o \in 1..Len(d) /\ b[k] = d[k + o]
    <3> TAKE k \in (e + 2)..(e + 1 + p)
    <3>1. k \in 1..Len(b) /\ k \in 1..n
      BY <2>1, <1>0, <1>4, <1>6, <1>9
    <3>2. At(b, k) # "end" /\ At(b, k) = At(d, k + o)
      BY <3>1, <1>2, AtIs
    <3>3. k + o \in 1..Len(d)
      BY <3>1, <3>2, AtIs
    <3> QED  BY <3>1, <3>2, <3>3, AtIs
  <2> DEFINE u == SubSeq(b, e + 2, e + 1 + p)
             w == SubSeq(d, e + o + 2, e + o + 1 + p)
  <2>3. u \in Seq(Byte) /\ Len(u) = p /\ \A k \in 1..p : u[k] = b[e + 2 + k - 1]
    <3>1. \A k \in (e + 2)..(e + 1 + p) : b[k] \in Byte
      BY <2>2
    <3>2. e + 2 \in Int /\ e + 1 + p \in Int /\ (e + 1 + p) - (e + 2) + 1 = p
      BY <1>4, <1>6, <1>9
    <3> QED  BY <3>1, <3>2, <1>9, SubSeqProperties
  <2>4. w \in Seq(Byte) /\ Len(w) = p /\ \A k \in 1..p : w[k] = d[e + o + 2 + k - 1]
    <3>1. \A k \in (e + o + 2)..(e + o + 1 + p) : d[k] \in Byte
      <4> TAKE k \in (e + o + 2)..(e + o + 1 + p)
      <4>1. k - o \in (e + 2)..(e + 1 + p) /\ (k - o) + o = k
        BY <1>4, <1>6, <1>9
      <4>2. k \in 1..Len(d)
        BY <4>1, <2>2
      <4> QED  BY <4>2
    <3>2. e + o + 2 \in Int /\ e + o + 1 + p \in Int /\ (e + o + 1 + p) - (e + o + 2) + 1 = p
      BY <1>4, <1>6, <1>9
    <3> QED  BY <3>1, <3>2, <1>9, SubSeqProperties
  <2> HIDE DEF u, w
  <2>5. \A k \in 1..p : u[k] = w[k]
    <3> TAKE k \in 1..p
    <3>1. e + 2 + k - 1 \in (e + 2)..(e + 1 + p) /\ (e + 2 + k - 1) + o = e + o + 2 + k - 1
      BY <1>4, <1>6, <1>9
    <3> QED  BY <3>1, <2>2, <2>3, <2>4
  <2>6. u = w
    BY <2>3, <2>4, <2>5, SeqEqual
  <2> QED  BY <2>6, <1>7, <1>9 DEF PortOf, u, w, e, p
<1>14. Unanchored(d, i + o, before) <=> Unanchored(b, i, before)
  BY <1>3 DEF Unanchored
<1>15. /\ Verdict(d, i + o, before).end = Verdict(b, i, before).end + o
       /\ Verdict(d, i + o, before).reason = Verdict(b, i, before).reason
  <2>1. CASE Unanchored(b, i, before)
    BY <2>1, <1>5, <1>14 DEF Verdict, h
  <2>2. CASE ~Unanchored(b, i, before) /\ BareColon(b, i)
    BY <2>2, <1>7, <1>11, <1>14, <1>6, <1>4 DEF Verdict, e
  <2>3. CASE ~Unanchored(b, i, before) /\ ~BareColon(b, i)
    BY <2>3, <1>10, <1>11, <1>12, <1>13, <1>14 DEF Verdict, x
  <2> QED  BY <2>1, <2>2, <2>3
<1> QED  BY <1>1, <1>3, <1>15

-----------------------------------------------------------------------------
\* The pass: what is known at each of its places.

\* f is the scan of b as far as its n-th place.
IsPass(f, b, limit, before, n) ==
    f = [i \in 0..n |-> IF i = 0 THEN Unscanned(limit)
                        ELSE LET s == f[i - 1] IN Consider(b, i, before, s)]

\* There is a pass over every buffer, to every place.
LEMMA PassExists ==
    ASSUME NEW b, NEW limit \in Nat, NEW before, NEW n \in Nat
    PROVE  \E f : IsPass(f, b, limit, before, n)
<1> DEFINE Has(m) == \E f : IsPass(f, b, limit, before, m)
           T == {m \in Nat : ~Has(m)}
<1>1. Has(0)
  <2> DEFINE f == [i \in 0..0 |-> Unscanned(limit)]
  <2>1. \A i \in 0..0 : i = 0
    OBVIOUS
  <2>2. f = [i \in 0..0 |-> IF i = 0 THEN Unscanned(limit)
                            ELSE LET s == f[i - 1] IN Consider(b, i, before, s)]
    BY <2>1
  <2> QED  BY <2>2 DEF IsPass
<1>2. ASSUME NEW m \in Nat, Has(m) PROVE Has(m + 1)
  <2>1. PICK f : IsPass(f, b, limit, before, m)
    BY <1>2
  <2> DEFINE g == [i \in 0..(m + 1) |->
                     IF i = m + 1 THEN Consider(b, i, before, f[m]) ELSE f[i]]
  <2>2. \A i \in 0..m : g[i] = f[i] /\ f[i] = IF i = 0 THEN Unscanned(limit)
                                               ELSE Consider(b, i, before, f[i - 1])
    BY <2>1 DEF IsPass
  <2>3. g[m + 1] = Consider(b, m + 1, before, f[m])
    OBVIOUS
  <2>4. \A i \in 0..(m + 1) : g[i] = IF i = 0 THEN Unscanned(limit)
                                      ELSE Consider(b, i, before, g[i - 1])
    <3> TAKE i \in 0..(m + 1)
    <3>1. CASE i = 0
      <4>1. i \in 0..m
        BY <3>1
      <4> HIDE DEF g
      <4> QED  BY <4>1, <3>1, <2>2
    <3>2. CASE i \in 1..m
      <4>1. i - 1 \in 0..m /\ i \in 0..m /\ i # 0
        BY <3>2
      <4> HIDE DEF g
      <4> QED  BY <4>1, <2>2
    <3>3. CASE i = m + 1
      <4>1. m \in 0..m /\ i - 1 = m /\ i # 0
        BY <3>3
      <4> HIDE DEF g
      <4> QED  BY <4>1, <2>2, <2>3, <3>3
    <3> QED  BY <3>1, <3>2, <3>3
  <2>5. DOMAIN g = 0..(m + 1) /\ g = [i \in 0..(m + 1) |-> g[i]]
    OBVIOUS
  <2> HIDE DEF g
  <2>6. g = [i \in 0..(m + 1) |-> IF i = 0 THEN Unscanned(limit)
                                   ELSE LET s == g[i - 1] IN Consider(b, i, before, s)]
    BY <2>4, <2>5
  <2> QED  BY <2>6 DEF IsPass
<1> HIDE DEF Has
<1>3. ASSUME T # {} PROVE FALSE
  <2>1. PICK m \in T : \A k \in T : m <= k
    BY <1>3, LeastOf
  <2>2. m \in Nat /\ ~Has(m) /\ m # 0
    BY <2>1, <1>1
  <2>3. m - 1 \in Nat /\ m - 1 \notin T
    BY <2>1, <2>2
  <2>4. Has(m - 1)
    BY <2>3
  <2>5. Has((m - 1) + 1)
    BY <2>3, <2>4, <1>2
  <2> QED  BY <2>2, <2>5
<1> QED  BY <1>3 DEF Has

\* Pass takes the places one after another.
LEMMA PassIs ==
    ASSUME NEW b, NEW limit \in Nat, NEW before
    PROVE  /\ Pass(b, limit, before)[0] = Unscanned(limit)
           /\ \A i \in 1..limit :
                Pass(b, limit, before)[i] = Consider(b, i, before, Pass(b, limit, before)[i - 1])
<1> DEFINE f == Pass(b, limit, before)
<1>1. f = CHOOSE g : g = [i \in 0..limit |-> IF i = 0 THEN Unscanned(limit)
                                ELSE LET s == g[i - 1] IN Consider(b, i, before, s)]
  BY DEF Pass
<1>2. \E g : g = [i \in 0..limit |-> IF i = 0 THEN Unscanned(limit)
                                ELSE LET s == g[i - 1] IN Consider(b, i, before, s)]
  <2>1. \E g : IsPass(g, b, limit, before, limit)
    BY PassExists
  <2> QED  BY <2>1, Zenon DEF IsPass
<1> HIDE DEF f
<1>3. f = [i \in 0..limit |-> IF i = 0 THEN Unscanned(limit)
                                ELSE LET s == f[i - 1] IN Consider(b, i, before, s)]
  BY <1>1, <1>2, Zenon
<1>4. f[0] = Unscanned(limit)
  BY <1>3
<1>5. \A i \in 1..limit : f[i] = Consider(b, i, before, f[i - 1])
  BY <1>3
<1> QED  BY <1>4, <1>5 DEF f

\* Induction from m up to n, for the members of a set.
LEMMA UpTo ==
    ASSUME NEW T, NEW m \in Nat, NEW n \in Int, m \in T,
           \A i \in m..(n - 1) : i \in T => i + 1 \in T
    PROVE  \A i \in m..n : i \in T
<1> DEFINE U == {i \in m..n : i \notin T}
<1>1. ASSUME U # {} PROVE FALSE
  <2>1. U \in SUBSET Nat
    OBVIOUS
  <2>2. PICK k \in U : \A j \in U : k <= j
    BY <1>1, <2>1, LeastOf
  <2>3. k \in m..n /\ k \notin T /\ k # m
    BY <2>2
  <2>4. k - 1 \in m..(n - 1) /\ k - 1 \notin U /\ k - 1 \in m..n
    BY <2>2, <2>3
  <2>5. k - 1 \in T
    BY <2>4
  <2>6. (k - 1) + 1 \in T
    BY <2>4, <2>5
  <2> QED  BY <2>3, <2>6
<1> QED  BY <1>1

\* What is recorded of a candidate.
Event == [at : Nat, what : Reasons]

\* What a pass over b knows: where it is, and what it has.
Known(b, limit, s) ==
    /\ s.scanned \in 0..Len(b)
    /\ s.consumed \in limit..Len(b)
    /\ s.last \in 0..Len(b)
    /\ s.out \in Seq(Byte)
    /\ s.events \in Seq(Event)
    /\ s.last <= s.scanned
    /\ s.last <= s.consumed
    /\ s.consumed > limit => s.scanned = s.consumed
    /\ \A j \in (s.consumed + 1)..s.scanned : NoStart(b, j)

\* Where nothing begins, or what does is shadowed, the scan learns nothing.
LEMMA PassedBy ==
    ASSUME NEW b, NEW i, NEW before, NEW s, ~Begins(b, i) \/ i <= s.scanned
    PROVE  Consider(b, i, before, s) = s
BY DEF Consider, Shadowed

\* t is what is known after the candidate at i, of which v is the verdict.
Taken(b, i, s, v, t) ==
    /\ t.scanned = v.end
    /\ v.reason = "unanchored" => t.consumed = s.consumed
    /\ v.reason # "unanchored" => t.consumed = Max({s.consumed, v.end})
    /\ v.reason = "rewrote" =>
          /\ t.last = v.end
          /\ t.out = s.out \o SubSeq(b, s.last + 1, i - 1) \o Replacement(b, i)
    /\ v.reason # "rewrote" => t.last = s.last /\ t.out = s.out
    /\ t.events = Append(s.events, [at |-> i - 1, what |-> v.reason])

\* Anywhere else it learns what the verdict says.
LEMMA TakenIs ==
    ASSUME NEW b, NEW i, NEW before, NEW s, Begins(b, i), ~(i <= s.scanned)
    PROVE  Taken(b, i, s, Verdict(b, i, Before(b, i, before)), Consider(b, i, before, s))
<1> DEFINE v == Verdict(b, i, Before(b, i, before))
           t == Consider(b, i, before, s)
<1>1. t = [scanned  |-> v.end,
           consumed |-> IF v.reason = "unanchored" THEN s.consumed ELSE Max({s.consumed, v.end}),
           last     |-> IF v.reason = "rewrote" THEN v.end ELSE s.last,
           out      |-> IF v.reason = "rewrote"
                        THEN s.out \o SubSeq(b, s.last + 1, i - 1) \o Replacement(b, i)
                        ELSE s.out,
           events   |-> Append(s.events, [at |-> i - 1, what |-> v.reason])]
  BY DEF Consider, Shadowed
<1> HIDE DEF v, t
<1>2. Taken(b, i, s, v, t)
  BY <1>1 DEF Taken
<1> QED  BY <1>2 DEF v, t

\* A replacement is of bytes, and of the candidate's form alone.
LEMMA ReplacementIs ==
    ASSUME NEW b, NEW i
    PROVE  /\ Replacement(b, i) \in Seq(Byte)
           /\ \A d, k : (IsRelative(d, k) <=> IsRelative(b, i)) =>
                Replacement(d, k) = Replacement(b, i)
<1>1. "p" \in Byte /\ "/" \in Byte /\ "v" \in Byte
  BY DEF Byte, Structural
<1>2. <<>> \in Seq(Byte) /\ <<"p">> \in Seq(Byte) /\ Separator \in Seq(Byte) /\ Target \in Seq(Byte)
  BY <1>1 DEF Separator, Target
<1>3. Replacement(b, i) \in Seq(Byte)
  BY <1>2 DEF Replacement
<1> QED  BY <1>3 DEF Replacement

\* One place more, and what a pass knows is still so.
LEMMA KnownStep ==
    ASSUME NEW b \in Seq(Byte), NEW limit \in 0..Len(b), NEW before, NEW i \in 1..limit,
           NEW s, Known(b, limit, s)
    PROVE  Known(b, limit, Consider(b, i, before, s))
<1> DEFINE v == Verdict(b, i, Before(b, i, before))
           t == Consider(b, i, before, s)
<1>0. Len(b) \in Nat /\ i \in Nat \ {0} /\ limit \in Nat
  OBVIOUS
<1>1. CASE ~Begins(b, i) \/ i <= s.scanned
  BY <1>1, PassedBy
<1>2. CASE Begins(b, i) /\ ~(i <= s.scanned)
  <2>1. Taken(b, i, s, v, t)
    BY <1>2, TakenIs
  <2>2. /\ v.end \in (i + 1)..Len(b) /\ v.reason \in Reasons
        /\ v.reason = "unanchored" => IsRelative(b, i) /\ v.end = HostEnd(b, i)
    BY <1>0, <1>2, VerdictBounds
  <2> HIDE DEF v, t
  <2>3. /\ t.scanned = v.end
        /\ v.reason = "unanchored" => t.consumed = s.consumed
        /\ v.reason = "rewrote" =>
              /\ t.last = v.end
              /\ t.out = s.out \o SubSeq(b, s.last + 1, i - 1) \o Replacement(b, i)
        /\ v.reason # "rewrote" => t.last = s.last /\ t.out = s.out
        /\ t.events = Append(s.events, [at |-> i - 1, what |-> v.reason])
    BY <2>1 DEF Taken
  <2>4. /\ s.scanned \in 0..Len(b) /\ s.consumed \in limit..Len(b) /\ s.last \in 0..Len(b)
        /\ s.last <= s.scanned /\ s.last <= s.consumed
        /\ s.consumed > limit => s.scanned = s.consumed
    BY DEF Known
  <2>5. s.consumed = limit
    BY <2>4, <1>0, <1>2
  <2>6. v.reason # "unanchored" =>
          t.consumed = IF s.consumed >= v.end THEN s.consumed ELSE v.end
    <3>1. s.consumed \in Int /\ v.end \in Int
      BY <2>2, <2>4, <1>0
    <3> QED  BY <3>1, <2>1, MaxOfTwo DEF Taken
  <2>7. t.scanned \in 0..Len(b) /\ t.scanned > i
    BY <2>3, <2>6, <2>2, <1>0
  <2>8. t.consumed \in limit..Len(b)
    <3>1. CASE v.reason = "unanchored"
      BY <3>1, <2>3, <2>6, <2>4
    <3>2. CASE v.reason # "unanchored"
      BY <3>2, <2>3, <2>6, <2>2, <2>4, <1>0
    <3> QED  BY <3>1, <3>2
  <2>9. t.last \in 0..Len(b) /\ t.last <= t.scanned /\ t.last <= t.consumed
    <3>1. CASE v.reason = "rewrote"
      <4>1. t.last = v.end
        BY <3>1, <2>3
      <4>2. t.consumed >= v.end
        BY <3>1, <2>6, <2>2, <2>4, <1>0
      <4> QED  BY <4>1, <4>2, <2>3, <2>6, <2>2, <1>0
    <3>2. CASE v.reason # "rewrote"
      <4>1. t.last = s.last /\ t.consumed >= s.consumed
        <5>1. CASE v.reason = "unanchored"
          BY <5>1, <3>2, <2>3, <2>6, <2>4
        <5>2. CASE v.reason # "unanchored"
          BY <5>2, <3>2, <2>3, <2>6, <2>2, <2>4, <1>0
        <5> QED  BY <5>1, <5>2
      <4> QED  BY <4>1, <2>4, <2>7, <2>8, <1>0, <1>2
    <3> QED  BY <3>1, <3>2
  <2>10. t.out \in Seq(Byte)
    <3>1. SubSeq(b, s.last + 1, i - 1) \in Seq(Byte)
      <4>1. \A k \in (s.last + 1)..(i - 1) : b[k] \in Byte
        BY <2>4, <1>0
      <4>2. s.last + 1 \in Int /\ i - 1 \in Int
        BY <2>4
      <4> QED  BY <4>1, <4>2, SubSeqProperties
    <3>2. s.out \in Seq(Byte) /\ Replacement(b, i) \in Seq(Byte)
      BY ReplacementIs DEF Known
    <3>3. s.out \o SubSeq(b, s.last + 1, i - 1) \o Replacement(b, i) \in Seq(Byte)
      BY <3>1, <3>2, ConcatProperties
    <3> QED  BY <2>3, <2>6, <3>2, <3>3
  <2>11. t.events \in Seq(Event)
    <3>1. [at |-> i - 1, what |-> v.reason] \in Event
      BY <2>2, <1>0 DEF Event
    <3>2. s.events \in Seq(Event)
      BY DEF Known
    <3> QED  BY <2>3, <2>6, <3>1, <3>2
  <2>12. t.consumed > limit => t.scanned = t.consumed
    <3>1. CASE v.reason = "unanchored"
      BY <3>1, <2>3, <2>6, <2>5
    <3>2. CASE v.reason # "unanchored"
      BY <3>2, <2>3, <2>6, <2>2, <2>5, <1>0
    <3> QED  BY <3>1, <3>2
  <2>13. \A j \in (t.consumed + 1)..t.scanned : NoStart(b, j)
    <3>1. CASE v.reason = "unanchored"
      <4>1. (t.consumed + 1)..t.scanned \subseteq (i + 1)..HostEnd(b, i)
        BY <3>1, <2>3, <2>6, <2>2, <2>5, <2>7, <1>0
      <4> QED  BY <3>1, <4>1, <2>2, <1>0, <1>2, NoneInside
    <3>2. CASE v.reason # "unanchored"
      <4>1. t.consumed >= t.scanned
        BY <3>2, <2>3, <2>6, <2>2, <2>4, <1>0
      <4> QED  BY <4>1, <2>7, <2>8, <1>0
    <3> QED  BY <3>1, <3>2
  <2>14. Known(b, limit, t)
    BY <2>7, <2>8, <2>9, <2>10, <2>11, <2>12, <2>13 DEF Known
  <2> QED  BY <2>14 DEF t
<1> QED  BY <1>1, <1>2

\* At every place of every pass.
LEMMA PassKnown ==
    ASSUME NEW b \in Seq(Byte), NEW limit \in 0..Len(b), NEW before
    PROVE  \A i \in 0..limit : Known(b, limit, Pass(b, limit, before)[i])
<1> DEFINE f == Pass(b, limit, before)
           T == {i \in Nat : Known(b, limit, f[i])}
<1>0. limit \in Nat /\ Len(b) \in Nat
  OBVIOUS
<1>1. f[0] = Unscanned(limit) /\ \A i \in 1..limit : f[i] = Consider(b, i, before, f[i - 1])
  BY <1>0, PassIs
<1> HIDE DEF f
<1>2. Known(b, limit, f[0])
  <2>1. Known(b, limit, Unscanned(limit))
    BY <1>0 DEF Known, Unscanned
  <2> QED  BY <1>1, <2>1
<1>3. \A i \in 0..(limit - 1) : i \in T => i + 1 \in T
  <2> SUFFICES ASSUME NEW i \in 0..(limit - 1), Known(b, limit, f[i])
               PROVE  Known(b, limit, f[i + 1])
    OBVIOUS
  <2>1. i + 1 \in 1..limit /\ (i + 1) - 1 = i
    BY <1>0
  <2>2. f[i + 1] = Consider(b, i + 1, before, f[i])
    BY <2>1, <1>1
  <2>3. Known(b, limit, Consider(b, i + 1, before, f[i]))
    BY <2>1, KnownStep
  <2> QED  BY <2>2, <2>3
<1>4. 0 \in T
  BY <1>2
<1> HIDE DEF T
<1>5. \A i \in 0..limit : i \in T
  BY <1>0, <1>3, <1>4, UpTo
<1> QED  BY <1>5 DEF T, f

-----------------------------------------------------------------------------
\* Pieces of texts.

\* Two adjacent pieces make one.
LEMMA PiecesJoin ==
    ASSUME NEW d \in Seq(Byte), NEW m \in Nat \ {0}, NEW k \in Int, NEW n \in Int,
           m - 1 <= k, k <= n, n <= Len(d)
    PROVE  SubSeq(d, m, k) \o SubSeq(d, k + 1, n) = SubSeq(d, m, n)
<1>1. m \in 1..(Len(d) + 1) /\ k \in (m - 1)..Len(d) /\ n \in k..Len(d)
  OBVIOUS
<1> QED  BY <1>1, ConcatAdjacentSubSeq

\* A piece of a text is a text.
LEMMA PieceIs ==
    ASSUME NEW d \in Seq(Byte), NEW m \in Nat \ {0}, NEW n \in Int, n <= Len(d)
    PROVE  SubSeq(d, m, n) \in Seq(Byte)
<1>1. \A k \in m..n : d[k] \in Byte
  OBVIOUS
<1> QED  BY <1>1, SubSeqProperties

\* b is a stretch of d, after its first o bytes.
Within(b, d, o) == \A k \in 1..Len(b) : k + o \in 1..Len(d) /\ b[k] = d[k + o]

\* A piece of b is a piece of d, o bytes on.
LEMMA PieceWithin ==
    ASSUME NEW b \in Seq(Byte), NEW d \in Seq(Byte), NEW o \in Nat, Within(b, d, o),
           NEW m \in Nat \ {0}, NEW n \in Int, n <= Len(b)
    PROVE  SubSeq(b, m, n) = SubSeq(d, m + o, n + o)
<1> DEFINE u == SubSeq(b, m, n)
           w == SubSeq(d, m + o, n + o)
           l == IF m <= n THEN n - m + 1 ELSE 0
<1>1. \A k \in m..n : k \in 1..Len(b) /\ k + o \in 1..Len(d) /\ b[k] = d[k + o]
  BY DEF Within
<1>2. u \in Seq(Byte) /\ Len(u) = l /\ \A k \in 1..(n - m + 1) : u[k] = b[m + k - 1]
  <2>1. \A k \in m..n : b[k] \in Byte
    BY <1>1
  <2> QED  BY <2>1, SubSeqProperties
<1>3. w \in Seq(Byte) /\ Len(w) = l /\ \A k \in 1..(n - m + 1) : w[k] = d[m + o + k - 1]
  <2>1. \A k \in (m + o)..(n + o) : d[k] \in Byte
    <3> TAKE k \in (m + o)..(n + o)
    <3>1. k - o \in m..n /\ (k - o) + o = k
      OBVIOUS
    <3>2. k \in 1..Len(d)
      BY <3>1, <1>1
    <3> QED  BY <3>2
  <2>2. /\ m + o \in Int /\ n + o \in Int /\ (n + o) - (m + o) + 1 = n - m + 1
        /\ m + o <= n + o <=> m <= n
    OBVIOUS
  <2> QED  BY <2>1, <2>2, SubSeqProperties
<1> HIDE DEF u, w
<1>4. \A k \in 1..l : u[k] = w[k]
  <2> TAKE k \in 1..l
  <2>1. k \in 1..(n - m + 1) /\ m + k - 1 \in m..n /\ (m + k - 1) + o = m + o + k - 1
    OBVIOUS
  <2> QED  BY <2>1, <1>1, <1>2, <1>3
<1>5. u = w
  BY <1>2, <1>3, <1>4, SeqEqual
<1> QED  BY <1>5 DEF u, w

\* Events that are located are events, as many of them.
LEMMA LocatedIs ==
    ASSUME NEW es \in Seq(Event), NEW o \in Nat
    PROVE  /\ Located(es, o) \in Seq(Event)
           /\ Len(Located(es, o)) = Len(es)
           /\ \A i \in 1..Len(es) : Located(es, o)[i] = [es[i] EXCEPT !.at = @ + o]
<1>1. DOMAIN es = 1..Len(es) /\ Len(es) \in Nat
  OBVIOUS
<1>2. \A e \in Event : [e EXCEPT !.at = @ + o] \in Event
  BY DEF Event
<1>3. \A i \in 1..Len(es) : [es[i] EXCEPT !.at = @ + o] \in Event
  BY <1>2
<1>4. Located(es, o) = [i \in 1..Len(es) |-> [es[i] EXCEPT !.at = @ + o]]
  BY <1>1 DEF Located
<1> QED  BY <1>1, <1>3, <1>4

\* The last event is located as the others are.
LEMMA LocatedAppend ==
    ASSUME NEW es \in Seq(Event), NEW o \in Nat, NEW at \in Nat, NEW what \in Reasons
    PROVE  Located(Append(es, [at |-> at, what |-> what]), o) =
           Append(Located(es, o), [at |-> at + o, what |-> what])
<1> DEFINE e == [at |-> at, what |-> what]
           g == [at |-> at + o, what |-> what]
           u == Located(Append(es, e), o)
           w == Append(Located(es, o), g)
           n == Len(es)
<1>1. e \in Event /\ g \in Event /\ [e EXCEPT !.at = @ + o] = g
  BY DEF Event
<1> HIDE DEF e, g
<1>2. /\ Append(es, e) \in Seq(Event) /\ Len(Append(es, e)) = n + 1 /\ n \in Nat
      /\ \A i \in 1..n : Append(es, e)[i] = es[i]
      /\ Append(es, e)[n + 1] = e
  BY <1>1
<1>3. /\ u \in Seq(Event) /\ Len(u) = n + 1
      /\ \A i \in 1..(n + 1) : u[i] = [Append(es, e)[i] EXCEPT !.at = @ + o]
  <2> DEFINE a == Append(es, e)
  <2>1. a \in Seq(Event) /\ Len(a) = n + 1
    BY <1>2
  <2> HIDE DEF a
  <2>2. /\ Located(a, o) \in Seq(Event) /\ Len(Located(a, o)) = Len(a)
        /\ \A i \in 1..Len(a) : Located(a, o)[i] = [a[i] EXCEPT !.at = @ + o]
    BY <2>1, LocatedIs
  <2> QED  BY <2>1, <2>2 DEF a
<1>4. /\ Located(es, o) \in Seq(Event) /\ Len(Located(es, o)) = n
      /\ \A i \in 1..n : Located(es, o)[i] = [es[i] EXCEPT !.at = @ + o]
  BY LocatedIs
<1>5. /\ w \in Seq(Event) /\ Len(w) = n + 1
      /\ \A i \in 1..n : w[i] = Located(es, o)[i]
      /\ w[n + 1] = g
  BY <1>1, <1>4, AppendProperties
<1> HIDE DEF u, w
<1>6. \A i \in 1..(n + 1) : u[i] = w[i]
  <2> TAKE i \in 1..(n + 1)
  <2>1. CASE i \in 1..n
    BY <2>1, <1>2, <1>3, <1>4, <1>5
  <2>2. CASE i = n + 1
    BY <2>2, <1>1, <1>2, <1>3, <1>5
  <2> QED  BY <2>1, <2>2, <1>2
<1>7. u = w
  BY <1>2, <1>3, <1>5, <1>6, SeqEqual
<1> QED  BY <1>7 DEF u, w, e, g

\* No events are located as none.
LEMMA LocatedEmpty == ASSUME NEW o PROVE Located(<<>>, o) = <<>>
BY DEF Located

\* To record an event after others is to record it after them all.
LEMMA AppendAfter ==
    ASSUME NEW es \in Seq(Event), NEW fs \in Seq(Event), NEW e \in Event
    PROVE  Append(es \o fs, e) = es \o Append(fs, e)
<1>1. <<e>> \in Seq(Event) /\ es \o fs \in Seq(Event)
  BY ConcatProperties
<1>2. Append(es \o fs, e) = (es \o fs) \o <<e>> /\ Append(fs, e) = fs \o <<e>>
  BY <1>1, AppendIsConcat
<1>3. (es \o fs) \o <<e>> = es \o (fs \o <<e>>)
  BY <1>1, ConcatAssociative
<1> QED  BY <1>2, <1>3

-----------------------------------------------------------------------------
\* A pass over a window of a document, beside the pass over all of it.

\* While a pass over b, o bytes into d, knows s, a pass over d knows t, if it
\* knew S at the start of b.
Beside(d, o, S, s, t) ==
    /\ t.events = S.events \o Located(s.events, o)
    /\ s.last = 0 => /\ s.out = <<>>
                     /\ t.out = S.out /\ t.last = S.last
    /\ s.last > 0 => /\ t.out = S.out \o SubSeq(d, S.last + 1, o) \o s.out
                     /\ t.last = s.last + o
    /\ s.scanned = 0 => t.scanned = S.scanned
    /\ s.scanned > 0 => t.scanned = s.scanned + o

\* A pass over d that has nothing left to decide after its first o bytes.
Settled(d, o, S) ==
    /\ S.out \in Seq(Byte) /\ S.events \in Seq(Event)
    /\ S.last \in 0..o
    /\ S.scanned \in Int
    /\ \A j \in (o + 1)..S.scanned : NoStart(d, j)

\* Texts, and what they are made of, for the provers to take as they are.
Text == Seq(Byte)
Joined(a, c) == a \o c
Piece(d, m, n) == SubSeq(d, m, n)

\* Texts that are joined are a text, however they are grouped.
LEMMA JoinedIs ==
    /\ <<>> \in Text
    /\ \A a, c \in Text : Joined(a, c) \in Text
    /\ \A a \in Text : Joined(a, <<>>) = a /\ Joined(<<>>, a) = a
    /\ \A a, c, e \in Text : Joined(Joined(a, c), e) = Joined(a, Joined(c, e))
<1>1. \A a, c \in Text : Joined(a, c) \in Text
  BY ConcatProperties DEF Joined, Text
<1>2. \A a \in Text : Joined(a, <<>>) = a /\ Joined(<<>>, a) = a
  BY ConcatEmptySeq DEF Joined, Text
<1>3. \A a, c, e \in Text : Joined(Joined(a, c), e) = Joined(a, Joined(c, e))
  BY ConcatAssociative DEF Joined, Text
<1>4. <<>> \in Text
  BY DEF Text
<1> QED  BY <1>1, <1>2, <1>3, <1>4

\* The two groupings that OutBeside needs.
LEMMA Regroup ==
    ASSUME NEW a \in Text, NEW g \in Text, NEW s \in Text, NEW p \in Text, NEW r \in Text
    PROVE  /\ Joined(Joined(a, Joined(g, p)), r) = Joined(Joined(a, g), Joined(Joined(<<>>, p), r))
           /\ Joined(Joined(Joined(Joined(a, g), s), p), r) =
              Joined(Joined(a, g), Joined(Joined(s, p), r))
<1>1. /\ Joined(a, g) \in Text /\ Joined(s, p) \in Text /\ Joined(<<>>, p) = p
  BY JoinedIs
<1> DEFINE x == Joined(a, g)
           y == Joined(s, p)
<1>2. Joined(Joined(a, g), p) = Joined(a, Joined(g, p))
  BY JoinedIs
<1> HIDE DEF x, y
<1>3. x \in Text /\ y \in Text
  BY <1>1 DEF x, y
<1>4. Joined(Joined(x, p), r) = Joined(x, Joined(p, r))
  BY <1>3, JoinedIs
<1>5. Joined(Joined(x, s), p) = Joined(x, y)
  BY <1>3, JoinedIs DEF y
<1>6. Joined(Joined(x, y), r) = Joined(x, Joined(y, r))
  BY <1>3, JoinedIs
<1>7. Joined(Joined(a, Joined(g, p)), r) = Joined(x, Joined(p, r))
  BY <1>2, <1>4 DEF x
<1> QED  BY <1>1, <1>5, <1>6, <1>7 DEF x, y

\* PieceIs and PiecesJoin, of pieces.
LEMMA PieceOf ==
    ASSUME NEW d \in Text, NEW m \in Nat \ {0}, NEW n \in Int, n <= Len(d)
    PROVE  /\ Piece(d, m, n) \in Text
           /\ \A k \in (m - 1)..n : Joined(Piece(d, m, k), Piece(d, k + 1, n)) = Piece(d, m, n)
<1>1. Piece(d, m, n) \in Text
  BY PieceIs DEF Piece, Text
<1>2. ASSUME NEW k \in (m - 1)..n
      PROVE  Joined(Piece(d, m, k), Piece(d, k + 1, n)) = Piece(d, m, n)
  <2>1. m - 1 <= k /\ k <= n /\ k \in Int
    OBVIOUS
  <2> QED  BY <2>1, PiecesJoin DEF Piece, Joined, Text
<1> QED  BY <1>1, <1>2

\* PieceWithin, of pieces.
LEMMA PieceSame ==
    ASSUME NEW b \in Text, NEW d \in Text, NEW o \in Nat, Within(b, d, o),
           NEW m \in Nat \ {0}, NEW n \in Int, n <= Len(b)
    PROVE  Piece(b, m, n) = Piece(d, m + o, n + o)
BY PieceWithin DEF Piece, Text

\* What the two passes have let out, as far as the k-th byte of b.
LEMMA OutBeside ==
    ASSUME NEW b \in Text, NEW d \in Text, NEW o \in Nat, Within(b, d, o),
           o <= Len(d), NEW S, Settled(d, o, S), NEW s, NEW limit, Known(b, limit, s), NEW t,
           Beside(d, o, S, s, t), NEW r \in Text, NEW k \in Nat, s.last <= k, k <= Len(b)
    PROVE  Joined(Joined(t.out, Piece(d, t.last + 1, k + o)), r) =
           Joined(Joined(S.out, Piece(d, S.last + 1, o)),
                  Joined(Joined(s.out, Piece(b, s.last + 1, k)), r))
<1>0. /\ S.out \in Text /\ S.last \in 0..o /\ s.out \in Text /\ s.last \in 0..Len(b)
      /\ Len(b) \in Nat /\ Len(d) \in Nat
  BY DEF Settled, Known, Text
<1>1. k + o <= Len(d)
  <2>1. CASE k = 0
    BY <2>1
  <2>2. CASE k > 0
    <3>1. k \in 1..Len(b)
      BY <2>2, <1>0
    <3> QED  BY <3>1 DEF Within
  <2> QED  BY <2>1, <2>2
<1> DEFINE gap == Piece(d, S.last + 1, o)
           piece == Piece(b, s.last + 1, k)
           head == S.out
           tail == s.out
<1>2. gap \in Text /\ piece \in Text
  <2>1. S.last + 1 \in Nat \ {0} /\ s.last + 1 \in Nat \ {0} /\ o \in Int /\ k \in Int
    BY <1>0
  <2> QED  BY <2>1, PieceOf
<1>3. piece = Piece(d, s.last + 1 + o, k + o)
  <2> DEFINE m == s.last + 1
  <2>1. m \in Nat \ {0} /\ k \in Int
    BY <1>0
  <2> HIDE DEF m
  <2>2. Piece(b, m, k) = Piece(d, m + o, k + o)
    BY <2>1, PieceSame
  <2> QED  BY <2>2 DEF m
<1>4. CASE s.last = 0
  <2>1. t.out = S.out /\ t.last = S.last /\ s.out = <<>>
    BY <1>4 DEF Beside
  <2>2. Piece(d, S.last + 1, k + o) = Joined(gap, piece)
    <3>1. piece = Piece(d, o + 1, k + o)
      BY <1>3, <1>4
    <3> DEFINE m == S.last + 1
               l == k + o
    <3>2. m \in Nat \ {0} /\ o \in (m - 1)..l /\ l \in Int /\ l <= Len(d)
      BY <1>0, <1>1
    <3> HIDE DEF m, l
    <3>3. Joined(Piece(d, m, o), Piece(d, o + 1, l)) = Piece(d, m, l)
      BY <3>2, PieceOf
    <3> QED  BY <3>1, <3>3 DEF m, l
  <2> HIDE DEF gap, piece
  <2>3. Joined(Joined(S.out, Joined(gap, piece)), r) =
        Joined(Joined(S.out, gap), Joined(Joined(<<>>, piece), r))
    <3> HIDE DEF head, tail
    <3>1. gap \in Text /\ piece \in Text /\ head \in Text /\ tail \in Text
      BY <1>2, <1>0 DEF head, tail
    <3>2. Joined(Joined(head, Joined(gap, piece)), r) =
          Joined(Joined(head, gap), Joined(Joined(<<>>, piece), r))
      BY <3>1, Regroup
    <3> QED  BY <3>2 DEF head, tail
  <2> QED  BY <2>1, <2>2, <2>3 DEF gap, piece
<1>5. CASE s.last > 0
  <2>1. t.out = Joined(Joined(S.out, gap), s.out) /\ t.last = s.last + o
    BY <1>5 DEF Beside, Joined, Piece
  <2>2. Piece(d, t.last + 1, k + o) = piece
    <3>1. t.last + 1 = s.last + 1 + o
      BY <2>1, <1>0
    <3> QED  BY <3>1, <1>3
  <2> HIDE DEF gap, piece
  <2>3. Joined(Joined(Joined(Joined(S.out, gap), s.out), piece), r) =
        Joined(Joined(S.out, gap), Joined(Joined(s.out, piece), r))
    <3> HIDE DEF head, tail
    <3>1. gap \in Text /\ piece \in Text /\ head \in Text /\ tail \in Text
      BY <1>2, <1>0 DEF head, tail
    <3>2. Joined(Joined(Joined(Joined(head, gap), tail), piece), r) =
          Joined(Joined(head, gap), Joined(Joined(tail, piece), r))
      BY <3>1, Regroup
    <3> QED  BY <3>2 DEF head, tail
  <2> QED  BY <2>1, <2>2, <2>3 DEF gap, piece
<1> QED  BY <1>0, <1>4, <1>5

\* What a rewrite lets out.
LEMMA TakenOut ==
    ASSUME NEW b, NEW i, NEW s, NEW v, NEW t, Taken(b, i, s, v, t), v.reason = "rewrote"
    PROVE  t.out = Joined(Joined(s.out, Piece(b, s.last + 1, i - 1)), Replacement(b, i))
BY DEF Taken, Joined, Piece

\* One place more, in both: the two passes still know the same. It is here that
\* the window must hold all that a verdict reads (VerdictAgree), and the carried
\* byte be the one on the left.
LEMMA BesideStep ==
    ASSUME NEW b \in Text, NEW d \in Text, NEW o \in Nat, o <= Len(d), Within(b, d, o),
           NEW limit \in 0..Len(b), Agree(b, d, o, limit + MaxMatchLen), PortsFit(d),
           NEW before, before = (IF o = 0 THEN NoPrev ELSE d[o]),
           NEW S, Settled(d, o, S), NEW s, Known(b, limit, s), NEW t, Beside(d, o, S, s, t),
           NEW i \in 1..limit
    PROVE  Beside(d, o, S, Consider(b, i, before, s), Consider(d, i + o, NoPrev, t))
<1>0. /\ MaxPat \in Nat /\ MaxMatchLen \in Nat /\ MaxPat <= MaxMatchLen
      /\ Len(b) \in Nat /\ Len(d) \in Nat /\ limit \in Nat /\ i \in Nat \ {0} /\ i + o \in Nat \ {0}
      /\ i <= Len(b) /\ i <= limit
      /\ limit + MaxMatchLen \in Int
  BY HostBytes, WindowAssumption DEF MaxPat, Separator, MaxMatchLen, Text
<1> HIDE DEF MaxPat, MaxMatchLen
<1>1. Before(b, i, before) = Before(d, i + o, NoPrev)
  <2>1. CASE i = 1
    BY <2>1 DEF Before
  <2>2. CASE i > 1
    <3>1. i - 1 \in 1..Len(b) /\ (i - 1) + o = i + o - 1 /\ i + o > 1
      BY <2>2, <1>0
    <3> QED  BY <3>1, <2>2 DEF Before, Within
  <2> QED  BY <2>1, <2>2, <1>0
<1>2. Begins(b, i) <=> Begins(d, i + o)
  <2>1. i + MaxPat <= (limit + MaxMatchLen) + 1
    BY <1>0
  <2> QED  BY <2>1, <1>0, BeginsAgree DEF Text
<1>3. /\ s.scanned \in 0..Len(b) /\ s.last \in 0..Len(b) /\ s.last <= s.scanned
      /\ s.out \in Text /\ s.events \in Seq(Event)
  BY DEF Known, Text
<1>4. CASE ~Begins(b, i)
  BY <1>4, <1>2, PassedBy
<1>5. CASE i <= s.scanned
  <2>1. t.scanned = s.scanned + o
    BY <1>5, <1>3, <1>0 DEF Beside
  <2>2. i + o <= t.scanned
    BY <2>1, <1>5, <1>3, <1>0
  <2> QED  BY <2>2, <1>5, PassedBy
<1>6. CASE Begins(b, i) /\ ~(i <= s.scanned)
  <2>1. ~(i + o <= t.scanned)
    <3>1. CASE s.scanned > 0
      BY <3>1, <1>6, <1>3, <1>0 DEF Beside
    <3>2. CASE s.scanned = 0
      <4>1. t.scanned = S.scanned /\ S.scanned \in Int
        BY <3>2 DEF Beside, Settled
      <4>2. ASSUME i + o <= S.scanned PROVE FALSE
        <5>1. i + o \in (o + 1)..S.scanned
          BY <4>1, <4>2, <1>0
        <5>2. NoStart(d, i + o)
          BY <5>1 DEF Settled
        <5> QED  BY <5>2, <1>0, <1>2, <1>6, NoStartIs DEF Text
      <4> QED  BY <4>1, <4>2
    <3> QED  BY <3>1, <3>2, <1>3
  <2> DEFINE c  == Before(b, i, before)
             v  == Verdict(b, i, c)
             w  == Verdict(d, i + o, c)
             s1 == Consider(b, i, before, s)
             t1 == Consider(d, i + o, NoPrev, t)
  <2>2. Taken(b, i, s, v, s1)
    BY <1>6, TakenIs
  <2>3. Taken(d, i + o, t, w, t1)
    BY <1>1, <1>2, <1>6, <2>1, TakenIs
  <2>4. /\ w.end = v.end + o /\ w.reason = v.reason
        /\ IsRelative(d, i + o) <=> IsRelative(b, i)
    <3>1. i + MaxMatchLen <= limit + MaxMatchLen
      BY <1>0
    <3> HIDE DEF c
    <3> QED  BY <3>1, <1>0, <1>6, VerdictAgree DEF Text
  <2>5. v.end \in (i + 1)..Len(b) /\ v.reason \in Reasons
    <3> HIDE DEF c
    <3> QED  BY <1>0, <1>6, VerdictBounds DEF Text
  <2> HIDE DEF c, v, w, s1, t1
  <2>6. t1.events = S.events \o Located(s1.events, o)
    <3> DEFINE at == i - 1
               what == v.reason
               es == s.events
               fs == Located(es, o)
               e == [at |-> at + o, what |-> what]
    <3>1. at \in Nat /\ what \in Reasons /\ es \in Seq(Event) /\ at + o = i + o - 1
      BY <1>0, <1>3, <2>5
    <3>2. s1.events = Append(es, [at |-> at, what |-> what])
      BY <2>2 DEF Taken
    <3>3. t1.events = Append(S.events \o fs, e)
      <4>1. t1.events = Append(t.events, [at |-> i + o - 1, what |-> w.reason])
        BY <2>3 DEF Taken
      <4> QED  BY <4>1, <3>1, <2>4 DEF Beside
    <3>4. e \in Event
      BY <3>1 DEF Event
    <3> HIDE DEF e, at, what, es
    <3>5. fs \in Seq(Event)
      BY <3>1, LocatedIs
    <3>6. S.events \in Seq(Event)
      BY DEF Settled
    <3>7. Located(s1.events, o) = Append(fs, e)
      <4>1. Located(Append(es, [at |-> at, what |-> what]), o) =
              Append(Located(es, o), [at |-> at + o, what |-> what])
        BY <3>1, LocatedAppend
      <4> QED  BY <4>1, <3>2 DEF e
    <3> HIDE DEF fs
    <3> DEFINE gs == S.events
    <3>8. gs \in Seq(Event)
      BY <3>6
    <3> HIDE DEF gs
    <3>9. Append(gs \o fs, e) = gs \o Append(fs, e)
      BY <3>4, <3>5, <3>8, AppendAfter
    <3> QED  BY <3>3, <3>7, <3>9 DEF gs
  <2>7. s1.scanned > 0 /\ t1.scanned = s1.scanned + o
    BY <2>2, <2>3, <2>4, <2>5, <1>0 DEF Taken
  <2>8. CASE v.reason = "rewrote"
    <3>0. w.reason = "rewrote"
      BY <2>4, <2>8
    <3>1. s1.last > 0 /\ t1.last = s1.last + o
      <4>1. s1.last = v.end /\ t1.last = w.end
        BY <2>2, <2>3, <2>8, <3>0 DEF Taken
      <4> QED  BY <4>1, <2>4, <2>5, <1>0
    <3> DEFINE r == Replacement(b, i)
               k == i - 1
    <3>2. r \in Text /\ Replacement(d, i + o) = r
      BY <2>4, ReplacementIs DEF Text
    <3> HIDE DEF r
    <3>3. k \in Nat /\ s.last <= k /\ k <= Len(b) /\ k + o = i + o - 1
      BY <1>0, <1>3, <1>6
    <3>4. s1.out = Joined(Joined(s.out, Piece(b, s.last + 1, k)), r)
      BY <2>2, <2>8, TakenOut DEF r
    <3>5. t1.out = Joined(Joined(t.out, Piece(d, t.last + 1, k + o)), r)
      <4> DEFINE j == i + o
      <4>1. Taken(d, j, t, w, t1)
        BY <2>3
      <4>2. j - 1 = k + o /\ Replacement(d, j) = r
        BY <3>2, <3>3
      <4> HIDE DEF j
      <4>3. t1.out = Joined(Joined(t.out, Piece(d, t.last + 1, j - 1)), Replacement(d, j))
        BY <4>1, <3>0, TakenOut
      <4> QED  BY <4>2, <4>3
    <3> HIDE DEF k
    <3>6. t1.out = Joined(Joined(S.out, Piece(d, S.last + 1, o)), s1.out)
      BY <3>2, <3>3, <3>4, <3>5, OutBeside
    <3>7. t1.out = S.out \o SubSeq(d, S.last + 1, o) \o s1.out
      BY <3>6 DEF Joined, Piece
    <3>8. s1.last # 0 /\ s1.scanned # 0
      BY <3>1, <2>7
    <3>9. Beside(d, o, S, s1, t1)
      BY <3>1, <3>7, <3>8, <2>6, <2>7 DEF Beside
    <3> QED  BY <3>9 DEF s1, t1
  <2>9. CASE v.reason # "rewrote"
    <3>1. s1.last = s.last /\ s1.out = s.out /\ t1.last = t.last /\ t1.out = t.out
      BY <2>2, <2>3, <2>4, <2>9 DEF Taken
    <3>2. s1.scanned # 0
      BY <2>7
    <3>3. Beside(d, o, S, s1, t1)
      BY <3>1, <3>2, <2>6, <2>7 DEF Beside
    <3> QED  BY <3>3 DEF s1, t1
  <2> QED  BY <2>8, <2>9
<1> QED  BY <1>4, <1>5, <1>6

\* What a pass over the whole document knows when it has passed n places.
Whole(d, n) == Pass(d, Len(d), NoPrev)[n]

\* A pass over the whole document, place by place.
LEMMA WholeIs ==
    ASSUME NEW d \in Text
    PROVE  /\ Whole(d, 0) = Unscanned(Len(d))
           /\ \A i \in 1..Len(d) : Whole(d, i) = Consider(d, i, NoPrev, Whole(d, i - 1))
           /\ \A i \in 0..Len(d) : Known(d, Len(d), Whole(d, i))
<1>1. Len(d) \in Nat /\ Len(d) \in 0..Len(d)
  BY DEF Text
<1>2. \A i \in 0..Len(d) : Known(d, Len(d), Pass(d, Len(d), NoPrev)[i])
  BY <1>1, PassKnown DEF Text
<1>3. /\ Pass(d, Len(d), NoPrev)[0] = Unscanned(Len(d))
      /\ \A i \in 1..Len(d) :
            Pass(d, Len(d), NoPrev)[i] = Consider(d, i, NoPrev, Pass(d, Len(d), NoPrev)[i - 1])
  BY <1>1, PassIs
<1> QED  BY <1>2, <1>3 DEF Whole

\* b is what has been read of d and not yet decided, o its place, and `before`
\* the byte on its left: as far as n, what b has is what d has.
Window(b, d, o, before, n) ==
    /\ Within(b, d, o) /\ Agree(b, d, o, n)
    /\ before = (IF o = 0 THEN NoPrev ELSE d[o])
    /\ Settled(d, o, Whole(d, o))

\* BesideStep, at every place of a round.
LEMMA Alongside ==
    ASSUME NEW b \in Text, NEW d \in Text, NEW o \in 0..Len(d), PortsFit(d),
           NEW limit \in 0..Len(b), NEW before, Window(b, d, o, before, limit + MaxMatchLen)
    PROVE  /\ limit + o <= Len(d)
           /\ \A i \in 0..limit :
                Beside(d, o, Whole(d, o), Pass(b, limit, before)[i], Whole(d, i + o))
<1> DEFINE f == Pass(b, limit, before)
           S == Whole(d, o)
           T == {i \in Nat : Beside(d, o, S, f[i], Whole(d, i + o))}
<1>0. /\ o \in Nat /\ limit \in Nat /\ Len(b) \in Nat /\ Len(d) \in Nat /\ o <= Len(d)
      /\ limit <= Len(b)
  BY DEF Text
<1>1. limit + o <= Len(d)
  <2>1. CASE limit = 0
    BY <2>1, <1>0
  <2>2. CASE limit > 0
    <3>1. limit \in 1..Len(b)
      BY <2>2, <1>0
    <3> QED  BY <3>1, <1>0 DEF Window, Within
  <2> QED  BY <2>1, <2>2, <1>0
<1>2. f[0] = Unscanned(limit) /\ \A i \in 1..limit : f[i] = Consider(b, i, before, f[i - 1])
  BY <1>0, PassIs
<1>3. \A i \in 0..limit : Known(b, limit, f[i])
  BY <1>0, PassKnown DEF Text
<1> HIDE DEF f
<1>4. 0 \in T
  <2>1. S.events \in Seq(Event)
    BY DEF Window, Settled
  <2> DEFINE es == S.events
  <2>2. S.events \o Located(<<>>, o) = S.events
    <3>1. es \in Seq(Event)
      BY <2>1
    <3> HIDE DEF es
    <3>2. es \o Located(<<>>, o) = es
      BY <3>1, LocatedEmpty, ConcatEmptySeq
    <3> QED  BY <3>2 DEF es
  <2> HIDE DEF S, es
  <2>3. Beside(d, o, S, Unscanned(limit), S)
    BY <2>2 DEF Beside, Unscanned
  <2> QED  BY <2>3, <1>0, <1>2 DEF S
<1>5. \A i \in 0..(limit - 1) : i \in T => i + 1 \in T
  <2> SUFFICES ASSUME NEW i \in 0..(limit - 1), Beside(d, o, S, f[i], Whole(d, i + o))
               PROVE  Beside(d, o, S, f[i + 1], Whole(d, i + 1 + o))
    BY <1>0
  <2> DEFINE j == i + 1
             s == f[i]
             t == Whole(d, i + o)
  <2>1. j \in 1..limit /\ j - 1 = i /\ j + o \in 1..Len(d) /\ (j + o) - 1 = i + o
    BY <1>0, <1>1
  <2>2. Known(b, limit, s) /\ Beside(d, o, S, s, t) /\ Settled(d, o, S)
    BY <1>0, <1>3 DEF Window
  <2>3. f[j] = Consider(b, j, before, s)
    BY <1>2, <2>1
  <2>4. Whole(d, j + o) = Consider(d, j + o, NoPrev, t)
    BY <2>1, WholeIs
  <2>5. o \in Nat /\ o <= Len(d) /\ Within(b, d, o) /\ Agree(b, d, o, limit + MaxMatchLen)
        /\ before = (IF o = 0 THEN NoPrev ELSE d[o])
    BY <1>0 DEF Window
  <2> HIDE DEF j, s, t, S
  <2>6. Beside(d, o, S, Consider(b, j, before, s), Consider(d, j + o, NoPrev, t))
    BY <2>1, <2>2, <2>5, BesideStep
  <2> QED  BY <2>3, <2>4, <2>6 DEF j
<1> HIDE DEF T
<1>6. \A i \in 0..limit : i \in T
  <2>1. 0 \in Nat /\ limit \in Int
    BY <1>0
  <2> QED  BY <2>1, <1>4, <1>5, UpTo
<1> QED  BY <1>1, <1>6 DEF T, f, S

\* What the round r decides is what a pass over the whole document decides
\* between the same two places.
Continues(d, o, r) ==
    /\ r.consumed + o \in 0..Len(d)
    /\ r.out \in Text /\ r.events \in Seq(Event)
    /\ Settled(d, r.consumed + o, Whole(d, r.consumed + o))
    /\ Whole(d, r.consumed + o).events = Whole(d, o).events \o Located(r.events, o)
    /\ Joined(Whole(d, r.consumed + o).out,
              Piece(d, Whole(d, r.consumed + o).last + 1, r.consumed + o)) =
       Joined(Joined(Whole(d, o).out, Piece(d, Whole(d, o).last + 1, o)), r.out)

\* One round of the sweep: what it lets out, records and leaves is what a pass
\* over the whole document does between the same two places.
LEMMA Round ==
    ASSUME NEW b \in Text, NEW d \in Text, NEW o \in 0..Len(d), PortsFit(d),
           NEW limit \in 0..Len(b), NEW before, Window(b, d, o, before, limit + MaxMatchLen),
           NEW r, r = RewritePrefix(b, limit, before)
    PROVE  r.consumed \in limit..Len(b) /\ Continues(d, o, r)
<1> DEFINE s == Pass(b, limit, before)[limit]
           t == Whole(d, limit + o)
           S == Whole(d, o)
           c == s.consumed
<1>0. /\ o \in Nat /\ limit \in Nat /\ Len(b) \in Nat /\ Len(d) \in Nat /\ o <= Len(d)
      /\ limit <= Len(b) /\ limit + o <= Len(d)
  BY Alongside DEF Text
<1>1. Known(b, limit, s)
  <2>1. limit \in 0..limit
    BY <1>0
  <2> QED  BY <2>1, PassKnown DEF Text
<1>2. Beside(d, o, S, s, t)
  <2>1. limit \in 0..limit
    BY <1>0
  <2> QED  BY <2>1, Alongside
<1>3. /\ r.out = Joined(s.out, Piece(b, s.last + 1, c))
      /\ r.consumed = c /\ r.events = s.events
  BY DEF RewritePrefix, Joined, Piece
<1>4. Settled(d, o, S)
  BY DEF Window
<1>5. Known(d, Len(d), t)
  <2>1. limit + o \in 0..Len(d)
    BY <1>0
  <2> QED  BY <2>1, WholeIs
<1> HIDE DEF s, t, S
<1>6. /\ c \in limit..Len(b) /\ s.last \in 0..Len(b) /\ s.last <= c
      /\ s.scanned \in 0..Len(b) /\ s.out \in Text /\ s.events \in Seq(Event)
      /\ c > limit => s.scanned = c
      /\ \A j \in (c + 1)..s.scanned : NoStart(b, j)
  BY <1>1 DEF Known, Text
<1> HIDE DEF c
<1>7. c \in Nat /\ c <= Len(b) /\ c >= limit
  BY <1>0, <1>6
<1>8. c + o \in 0..Len(d)
  <2>1. CASE c = 0
    BY <2>1, <1>0
  <2>2. CASE c > 0
    <3>1. c \in 1..Len(b)
      BY <2>2, <1>7
    <3>2. c + o \in 1..Len(d)
      BY <3>1 DEF Window, Within
    <3> QED  BY <3>2
  <2> QED  BY <2>1, <2>2, <1>7
<1>9. Whole(d, c + o) = t
  <2>1. CASE c = limit
    BY <2>1 DEF t
  <2>2. CASE c > limit
    <3> DEFINE T == {i \in Nat : Whole(d, i) = t}
    <3>1. t.scanned = c + o
      BY <2>2, <1>2, <1>6, <1>0 DEF Beside
    <3>2. limit + o \in T
      BY <1>0 DEF t
    <3>3. \A i \in (limit + o)..((c + o) - 1) : i \in T => i + 1 \in T
      <4> SUFFICES ASSUME NEW i \in (limit + o)..((c + o) - 1), Whole(d, i) = t
                   PROVE  Whole(d, i + 1) = t
        BY <1>0
      <4>1. i + 1 \in 1..Len(d) /\ (i + 1) - 1 = i /\ i + 1 <= t.scanned
        BY <3>1, <1>0, <1>7, <1>8
      <4>2. Whole(d, i + 1) = Consider(d, i + 1, NoPrev, t)
        BY <4>1, WholeIs
      <4> QED  BY <4>1, <4>2, PassedBy
    <3> HIDE DEF T
    <3>4. \A i \in (limit + o)..(c + o) : i \in T
      <4>1. limit + o \in Nat /\ c + o \in Int
        BY <1>0, <1>7
      <4> QED  BY <3>2, <3>3, <4>1, UpTo
    <3>5. c + o \in (limit + o)..(c + o)
      BY <1>0, <1>7
    <3> QED  BY <3>4, <3>5 DEF T
  <2> QED  BY <2>1, <2>2, <1>0, <1>7
<1>10. t.events = S.events \o Located(s.events, o)
  BY <1>2 DEF Beside
<1>11. /\ s.last + 1 \in Nat \ {0} /\ c \in Int
       /\ Piece(b, s.last + 1, c) \in Text
  <2>1. s.last + 1 \in Nat \ {0} /\ c \in Int
    BY <1>6, <1>7
  <2> DEFINE m == s.last + 1
  <2>2. m \in Nat \ {0}
    BY <2>1
  <2> HIDE DEF m
  <2>3. Piece(b, m, c) \in Text
    BY <2>1, <2>2, <1>7, PieceOf
  <2> QED  BY <2>1, <2>3 DEF m
<1>12. r.out \in Text
  <2> DEFINE x == s.out
             y == Piece(b, s.last + 1, c)
  <2>1. x \in Text /\ y \in Text
    BY <1>6, <1>11
  <2> HIDE DEF x, y
  <2>2. Joined(x, y) \in Text
    BY <2>1, JoinedIs
  <2> QED  BY <2>2, <1>3 DEF x, y
<1>13. Joined(t.out, Piece(d, t.last + 1, c + o)) =
       Joined(Joined(S.out, Piece(d, S.last + 1, o)), r.out)
  <2>1. <<>> \in Text
    BY JoinedIs
  <2>2. Joined(Joined(t.out, Piece(d, t.last + 1, c + o)), <<>>) =
        Joined(Joined(S.out, Piece(d, S.last + 1, o)),
               Joined(Joined(s.out, Piece(b, s.last + 1, c)), <<>>))
    BY <2>1, <1>0, <1>1, <1>2, <1>4, <1>6, <1>7, OutBeside DEF Window
  <2>3. Joined(t.out, Piece(d, t.last + 1, c + o)) \in Text
    <3>1. t.out \in Text /\ t.last \in 0..Len(d)
      BY <1>5 DEF Known, Text
    <3> DEFINE m == t.last + 1
               n == c + o
    <3>2. m \in Nat \ {0} /\ n \in Int /\ n <= Len(d)
      BY <3>1, <1>8
    <3> HIDE DEF m, n
    <3>3. Piece(d, m, n) \in Text
      BY <3>2, PieceOf
    <3> QED  BY <3>1, <3>3, JoinedIs DEF m, n
  <2> DEFINE x == Joined(t.out, Piece(d, t.last + 1, c + o))
             y == r.out
  <2>4. x \in Text /\ y \in Text /\ y = Joined(s.out, Piece(b, s.last + 1, c))
    BY <2>3, <1>12, <1>3
  <2> HIDE DEF x, y
  <2>5. Joined(x, <<>>) = x /\ Joined(y, <<>>) = y
    BY <2>4, JoinedIs
  <2> QED  BY <2>2, <2>4, <2>5 DEF x, y
<1>14. Settled(d, c + o, t)
  <2>1. t.out \in Seq(Byte) /\ t.events \in Seq(Event) /\ t.scanned \in Int
    BY <1>5 DEF Known
  <2>2. t.last \in 0..(c + o)
    <3>1. CASE s.last = 0
      BY <3>1, <1>0, <1>2, <1>4, <1>7 DEF Beside, Settled
    <3>2. CASE s.last > 0
      <4>1. t.last = s.last + o
        BY <3>2, <1>2 DEF Beside
      <4> QED  BY <4>1, <1>0, <1>6, <1>7
    <3> QED  BY <3>1, <3>2, <1>6
  <2>3. ASSUME NEW j \in (c + o + 1)..t.scanned PROVE NoStart(d, j)
    <3>1. CASE s.scanned = 0
      <4>1. t.scanned = S.scanned
        BY <3>1, <1>2 DEF Beside
      <4>2. j \in (o + 1)..S.scanned
        BY <4>1, <1>0, <1>7, <2>1
      <4> QED  BY <4>2, <1>4 DEF Settled
    <3>2. CASE s.scanned > 0
      <4>1. t.scanned = s.scanned + o
        BY <3>2, <1>2 DEF Beside
      <4> DEFINE k == j - o
      <4>2. k \in (c + 1)..s.scanned /\ k + o = j /\ k \in 1..Len(b)
        BY <4>1, <1>0, <1>6, <1>7
      <4> HIDE DEF k
      <4>3. NoStart(b, k)
        BY <4>2, <1>6
      <4>4. b[k] = d[j] /\ j \in 1..Len(d)
        BY <4>2 DEF Window, Within
      <4>5. k + 1 \in 1..Len(b) => b[k + 1] = d[j + 1] /\ j + 1 \in 1..Len(d)
        <5>1. (k + 1) + o = j + 1
          BY <4>2, <1>0
        <5> QED  BY <5>1 DEF Window, Within
      <4> QED  BY <4>3, <4>4, <4>5 DEF NoStart
    <3> QED  BY <3>1, <3>2, <1>6
  <2> QED  BY <2>1, <2>2, <2>3 DEF Settled
<1> QED  BY <1>3, <1>6, <1>8, <1>9, <1>10, <1>12, <1>13, <1>14 DEF S, Continues

-----------------------------------------------------------------------------
\* What has been let out and recorded is never taken back.

\* What a pass over d has let out when its first n places have been decided.
Decided(d, n) == Joined(Whole(d, n).out, Piece(d, Whole(d, n).last + 1, n))

\* RewriteText is that pass, to the end.
LEMMA RewriteTextIs ==
    ASSUME NEW d \in Text
    PROVE  /\ RewriteText(d).out = Decided(d, Len(d))
           /\ RewriteText(d).events = Whole(d, Len(d)).events
<1>1. Len(d) \in Nat /\ Len(d) \in 0..Len(d)
  BY DEF Text
<1>2. Whole(d, Len(d)).consumed = Len(d)
  BY <1>1, WholeIs DEF Known
<1> QED  BY <1>2 DEF RewriteText, RewritePrefix, Decided, Joined, Piece, Whole

\* A sequence is a prefix of what continues it.
LEMMA PrefixIs ==
    ASSUME NEW C, NEW s \in Seq(C), NEW z \in Seq(C)
    PROVE  IsPrefix(s, s \o z)
<1> DEFINE t == s \o z
           n == Len(s)
<1>1. /\ t \in Seq(C) /\ n \in Nat /\ Len(t) >= n /\ n <= Len(t)
      /\ \A i \in 1..n : t[i] = s[i]
  <2>1. Len(s) \in Nat /\ Len(z) \in Nat
    OBVIOUS
  <2> QED  BY <2>1, ConcatProperties
<1> HIDE DEF t
<1>2. \A i \in 1..n : s[i] \in C /\ t[i] \in C
  BY <1>1
<1>3. /\ SubSeq(s, 1, n) \in Seq(C) /\ Len(SubSeq(s, 1, n)) = n
      /\ \A i \in 1..n : SubSeq(s, 1, n)[i] = s[i]
  <2>1. 1 \in Int /\ n \in Int
    BY <1>1
  <2> QED  BY <1>1, <1>2, <2>1, SubSeqProperties
<1>4. /\ SubSeq(t, 1, n) \in Seq(C) /\ Len(SubSeq(t, 1, n)) = n
      /\ \A i \in 1..n : SubSeq(t, 1, n)[i] = t[i]
  <2>1. 1 \in Int /\ n \in Int
    BY <1>1
  <2> QED  BY <1>1, <1>2, <2>1, SubSeqProperties
<1> DEFINE x == SubSeq(s, 1, n)
           y == SubSeq(t, 1, n)
<1>5. /\ x \in Seq(C) /\ y \in Seq(C) /\ Len(x) = Len(y) /\ Len(x) = n
      /\ \A i \in 1..n : x[i] = y[i]
  BY <1>1, <1>3, <1>4
<1> HIDE DEF x, y
<1>6. x = y
  <2>1. \A i \in 1..Len(x) : x[i] = y[i]
    BY <1>5
  <2> QED  BY <1>5, <2>1, SeqEqual
<1> QED  BY <1>1, <1>6 DEF x, y, t, IsPrefix

\* Nothing that is recorded is unrecorded.
LEMMA EventsGrow ==
    ASSUME NEW d \in Text, NEW n \in 0..Len(d)
    PROVE  IsPrefix(Whole(d, n).events, Whole(d, Len(d)).events)
<1> DEFINE E == Whole(d, n).events
           More(i) == \E z \in Seq(Event) : Whole(d, i).events = E \o z
           T == {i \in Nat : More(i)}
<1>0. n \in Nat /\ Len(d) \in Nat /\ n <= Len(d)
  BY DEF Text
<1>1. E \in Seq(Event)
  BY WholeIs DEF Known
<1> HIDE DEF E
<1>2. n \in T
  <2>1. E \o <<>> = E /\ <<>> \in Seq(Event)
    BY <1>1, ConcatEmptySeq
  <2> QED  BY <2>1, <1>0 DEF E
<1>3. \A i \in n..(Len(d) - 1) : i \in T => i + 1 \in T
  <2> SUFFICES ASSUME NEW i \in n..(Len(d) - 1), More(i)
               PROVE  More(i + 1)
    <3> HIDE DEF More
    <3> QED  BY <1>0
  <2>0. PICK z \in Seq(Event) : Whole(d, i).events = E \o z
    OBVIOUS
  <2> DEFINE j == i + 1
             s == Whole(d, i)
             t == Whole(d, j)
             c == Before(d, j, NoPrev)
             v == Verdict(d, j, c)
             e == [at |-> j - 1, what |-> v.reason]
  <2>1. j \in 1..Len(d) /\ j - 1 = i /\ j \in Nat \ {0} /\ j - 1 \in Nat
    BY <1>0
  <2>2. t = Consider(d, j, NoPrev, s)
    <3> HIDE DEF j
    <3> QED  BY <2>1, WholeIs
  <2>3. CASE ~Begins(d, j) \/ j <= s.scanned
    BY <2>0, <2>2, <2>3, PassedBy
  <2>4. CASE Begins(d, j) /\ ~(j <= s.scanned)
    <3>1. Taken(d, j, s, v, t)
      BY <2>2, <2>4, TakenIs
    <3>2. v.reason \in Reasons
      <4> HIDE DEF j, c
      <4> QED  BY <2>1, <2>4, VerdictBounds DEF Text
    <3>3. e \in Event
      BY <2>1, <3>2 DEF Event
    <3>4. t.events = Append(E \o z, e)
      BY <2>0, <3>1 DEF Taken
    <3> HIDE DEF e, t
    <3>5. Append(E \o z, e) = E \o Append(z, e)
      BY <1>1, <3>3, AppendAfter
    <3>6. Append(z, e) \in Seq(Event)
      BY <3>3, AppendProperties
    <3>7. t.events = E \o Append(z, e)
      BY <3>4, <3>5
    <3> QED  BY <3>6, <3>7 DEF t
  <2> QED  BY <2>3, <2>4
<1> HIDE DEF T
<1>4. \A i \in n..Len(d) : i \in T
  <2>1. n \in Nat /\ Len(d) \in Int
    BY <1>0
  <2> QED  BY <2>1, <1>2, <1>3, UpTo
<1>5. Len(d) \in T
  BY <1>0, <1>4
<1>6. PICK z \in Seq(Event) : Whole(d, Len(d)).events = E \o z
  BY <1>5 DEF T
<1>7. IsPrefix(E, E \o z)
  BY <1>1, PrefixIs
<1> QED  BY <1>6, <1>7 DEF E

\* Nor is what has been let out ever taken back.
LEMMA OutGrows ==
    ASSUME NEW d \in Text, NEW n \in 0..Len(d), Whole(d, n).last <= n
    PROVE  IsPrefix(Decided(d, n), Decided(d, Len(d)))
<1> DEFINE S == Whole(d, n)
           D == Decided(d, n)
           \* Nothing has been rewritten since, or something has.
           Same(i) == Whole(d, i).out = S.out /\ Whole(d, i).last = S.last
           More(i) == \E z \in Text : Whole(d, i).out = Joined(D, z)
           T == {i \in Nat : Same(i) \/ More(i)}
<1>0. n \in Nat /\ Len(d) \in Nat /\ n <= Len(d)
  BY DEF Text
<1>1. \A i \in 0..Len(d) : /\ Whole(d, i).out \in Text /\ Whole(d, i).last \in 0..Len(d)
                           /\ Whole(d, i).scanned \in 0..Len(d)
                           /\ Whole(d, i).last <= Whole(d, i).scanned
  BY WholeIs DEF Known, Text
<1>2. S.out \in Text /\ S.last \in 0..n
  BY <1>0, <1>1
<1> HIDE DEF S
\* From the last rewrite to any later place, by way of n.
<1>3. ASSUME NEW k \in n..Len(d)
      PROVE  /\ Piece(d, n + 1, k) \in Text
             /\ Joined(S.out, Piece(d, S.last + 1, k)) = Joined(D, Piece(d, n + 1, k))
  <2> DEFINE m == S.last + 1
             a == S.out
             x == Piece(d, m, n)
             y == Piece(d, n + 1, k)
  <2>1. m \in Nat \ {0} /\ n \in (m - 1)..k /\ k \in Int /\ k <= Len(d) /\ n + 1 \in Nat \ {0}
        /\ n \in Int /\ a \in Text
    BY <1>0, <1>2
  <2> HIDE DEF m
  <2>2. x \in Text /\ Joined(x, Piece(d, n + 1, k)) = Piece(d, m, k)
    BY <2>1, <1>0, PieceOf
  <2>3. y \in Text
    <3> DEFINE l == n + 1
    <3>1. l \in Nat \ {0}
      BY <2>1
    <3> HIDE DEF l
    <3>2. Piece(d, l, k) \in Text
      BY <3>1, <2>1, PieceOf
    <3> QED  BY <3>2 DEF l
  <2>4. D = Joined(a, x)
    BY DEF D, Decided, S, m
  <2> HIDE DEF a, x, y, D
  <2>5. Joined(Joined(a, x), y) = Joined(a, Joined(x, y))
    BY <2>1, <2>2, <2>3, JoinedIs
  <2> QED  BY <2>2, <2>3, <2>4, <2>5 DEF a, m, y
<1>4. D \in Text
  <2> DEFINE m == S.last + 1
             a == S.out
             x == Piece(d, m, n)
  <2>1. m \in Nat \ {0} /\ n \in Int /\ a \in Text
    BY <1>0, <1>2
  <2> HIDE DEF m
  <2>2. x \in Text
    BY <2>1, <1>0, PieceOf
  <2> HIDE DEF x, a
  <2>3. Joined(a, x) \in Text
    BY <2>1, <2>2, JoinedIs
  <2> QED  BY <2>3 DEF D, Decided, S, a, x, m
<1> HIDE DEF D
<1>5. n \in T
  BY <1>0 DEF S
<1>6. \A i \in n..(Len(d) - 1) : i \in T => i + 1 \in T
  <2> SUFFICES ASSUME NEW i \in n..(Len(d) - 1), Same(i) \/ More(i)
               PROVE  Same(i + 1) \/ More(i + 1)
    BY <1>0
  <2> DEFINE j == i + 1
             s == Whole(d, i)
             t == Whole(d, j)
             c == Before(d, j, NoPrev)
             v == Verdict(d, j, c)
             r == Replacement(d, j)
             p == Piece(d, s.last + 1, j - 1)
  <2>1. j \in 1..Len(d) /\ j - 1 = i /\ j \in Nat \ {0} /\ i \in 0..Len(d) /\ i \in n..Len(d)
    BY <1>0
  <2>2. t = Consider(d, j, NoPrev, s)
    <3> HIDE DEF j
    <3> QED  BY <2>1, WholeIs
  <2>3. CASE ~Begins(d, j) \/ j <= s.scanned
    BY <2>2, <2>3, PassedBy
  <2>4. CASE Begins(d, j) /\ ~(j <= s.scanned)
    <3>1. Taken(d, j, s, v, t)
      BY <2>2, <2>4, TakenIs
    <3>2. CASE v.reason # "rewrote"
      BY <3>1, <3>2 DEF Taken
    <3>3. CASE v.reason = "rewrote"
      <4> HIDE DEF j, v, t
      <4>1. t.out = Joined(Joined(s.out, p), r)
        BY <3>1, <3>3, TakenOut
      <4>2. r \in Text
        BY ReplacementIs DEF Text
      <4>3. s.last + 1 \in Nat \ {0} /\ s.last <= i /\ s.out \in Text
        BY <2>1, <2>4, <1>1
      <4>4. CASE Same(i)
        <5> DEFINE y == Piece(d, n + 1, i)
        <5>1. y \in Text /\ Joined(s.out, p) = Joined(D, y)
          BY <4>4, <2>1, <1>3
        <5> HIDE DEF p, y, r, s
        <5>2. t.out = Joined(D, Joined(y, r)) /\ Joined(y, r) \in Text
          BY <5>1, <4>1, <4>2, <1>4, JoinedIs
        <5> QED  BY <5>2 DEF t, j
      <4>5. CASE More(i)
        <5>1. PICK z \in Text : s.out = Joined(D, z)
          BY <4>5
        <5>2. p \in Text
          <6> DEFINE m == s.last + 1
          <6>1. m \in Nat \ {0} /\ i \in Int /\ i <= Len(d)
            BY <4>3, <2>1, <1>0
          <6> HIDE DEF m
          <6>2. Piece(d, m, i) \in Text
            BY <6>1, PieceOf
          <6> QED  BY <6>2, <2>1 DEF m
        <5> HIDE DEF p, r, s
        <5> DEFINE y == Joined(z, p)
        <5>3. y \in Text /\ Joined(Joined(D, z), p) = Joined(D, y)
          BY <5>2, <1>4, JoinedIs
        <5> HIDE DEF y
        <5>4. Joined(Joined(D, y), r) = Joined(D, Joined(y, r)) /\ Joined(y, r) \in Text
          BY <5>3, <4>2, <1>4, JoinedIs
        <5>5. t.out = Joined(D, Joined(y, r))
          BY <5>1, <5>3, <5>4, <4>1
        <5> QED  BY <5>4, <5>5 DEF t, j
      <4> QED  BY <4>4, <4>5
    <3> QED  BY <3>2, <3>3
  <2> QED  BY <2>3, <2>4
<1> HIDE DEF T
<1>7. Len(d) \in T
  <2>1. n \in Nat /\ Len(d) \in Int
    BY <1>0
  <2>2. \A i \in n..Len(d) : i \in T
    BY <2>1, <1>5, <1>6, UpTo
  <2> QED  BY <2>2, <1>0
<1>8. \E z \in Text : Decided(d, Len(d)) = Joined(D, z)
  <2> DEFINE s == Whole(d, Len(d))
             p == Piece(d, s.last + 1, Len(d))
  <2>0. Len(d) \in 0..Len(d) /\ Len(d) \in n..Len(d)
    BY <1>0
  <2>1. Decided(d, Len(d)) = Joined(s.out, p)
    BY DEF Decided
  <2>2. CASE Same(Len(d))
    BY <2>0, <2>1, <2>2, <1>3
  <2>3. CASE More(Len(d))
    <3>1. PICK z \in Text : s.out = Joined(D, z)
      BY <2>3
    <3>2. p \in Text
      <4> DEFINE m == s.last + 1
                 l == Len(d)
      <4>1. m \in Nat \ {0} /\ l \in Int /\ l <= Len(d)
        BY <2>0, <1>0, <1>1
      <4> HIDE DEF m, l
      <4>2. Piece(d, m, l) \in Text
        BY <4>1, PieceOf
      <4> QED  BY <4>2 DEF m, l
    <3> HIDE DEF p
    <3>3. Joined(Joined(D, z), p) = Joined(D, Joined(z, p)) /\ Joined(z, p) \in Text
      BY <3>2, <1>4, JoinedIs
    <3> QED  BY <3>1, <3>3, <2>1
  <2> QED  BY <1>7, <2>2, <2>3 DEF T
<1>9. PICK z \in Text : Decided(d, Len(d)) = Joined(D, z)
  BY <1>8
<1>10. IsPrefix(D, Joined(D, z))
  BY <1>4, PrefixIs DEF Joined, Text
<1> QED  BY <1>9, <1>10 DEF D

-----------------------------------------------------------------------------
\* The stream.

\* The inductive invariant: the sweep is where a pass over the whole document
\* would be.
SweepInv ==
    /\ doc \in Documents /\ doc \in Text
    /\ given \in 0..Len(doc) /\ offset \in 0..given
    /\ pending = Piece(doc, offset + 1, given)
    /\ prev = (IF offset = 0 THEN NoPrev ELSE doc[offset])
    /\ sent \in Text /\ out \in Text
    /\ events = Whole(doc, offset).events
    /\ Joined(sent, out) = Decided(doc, offset)
    /\ Settled(doc, offset, Whole(doc, offset))
    /\ eof \in BOOLEAN
    /\ eof => offset = Len(doc)

\* Nothing is read, and nothing is decided.
LEMMA SweepStarts == SweepInit => SweepInv
<1> SUFFICES ASSUME SweepInit PROVE SweepInv
  OBVIOUS
<1>1. doc \in Documents /\ doc \in Text /\ Len(doc) \in Nat
  BY SweepAssumption DEF SweepInit, Text
<1>2. Whole(doc, 0) = Unscanned(Len(doc))
  BY <1>1, WholeIs
<1>3. Piece(doc, 1, 0) = <<>>
  BY SubSeqEmpty DEF Piece
<1>4. Joined(<<>>, <<>>) = <<>> /\ <<>> \in Text
  BY JoinedIs
<1>5. Decided(doc, 0) = <<>>
  BY <1>2, <1>3, <1>4 DEF Decided, Unscanned
<1>6. Settled(doc, 0, Whole(doc, 0))
  <2> DEFINE W == Whole(doc, 0)
  <2>1. W.out = <<>> /\ W.events = <<>> /\ W.last = 0 /\ W.scanned = 0
    BY <1>2 DEF Unscanned
  <2> HIDE DEF W
  <2>2. Settled(doc, 0, W)
    BY <2>1 DEF Settled
  <2> QED  BY <2>2 DEF W
<1>7. Whole(doc, 0).events = <<>>
  BY <1>2 DEF Unscanned
<1>8. /\ doc \in Documents /\ given = 0 /\ offset = 0 /\ pending = <<>> /\ out = <<>>
      /\ sent = <<>> /\ events = <<>> /\ prev = NoPrev /\ eof = FALSE
  BY DEF SweepInit
<1>9. pending = Piece(doc, offset + 1, given)
  BY <1>3, <1>8
<1>10. given \in 0..Len(doc) /\ offset \in 0..given
  BY <1>1, <1>8
<1> QED  BY <1>1, <1>4, <1>5, <1>6, <1>7, <1>8, <1>9, <1>10 DEF SweepInv

\* The buffer with n bytes more of the source.
Buffer(n) == Joined(pending, Piece(doc, given + 1, given + n))

\* b is the stretch of d between its first o bytes and its first l.
Stretch(b, d, o, l) ==
    /\ b = Piece(d, o + 1, l)
    /\ b \in Text /\ Len(b) = l - o
    /\ Within(b, d, o)
    /\ Agree(b, d, o, Len(b))
    /\ l = Len(d) => \A k \in Int : Agree(b, d, o, k)

\* What is pending, with what the source gives next, is a stretch of the document.
LEMMA StretchIs ==
    ASSUME NEW d \in Text, NEW o \in Nat, NEW g \in Nat, NEW n \in Nat, o <= g, g + n <= Len(d),
           NEW b, b = Joined(Piece(d, o + 1, g), Piece(d, g + 1, g + n))
    PROVE  Stretch(b, d, o, g + n)
<1> DEFINE m == o + 1
           l == g + n
<1>1. m \in Nat \ {0} /\ l \in Int /\ l <= Len(d) /\ g \in (m - 1)..l
      /\ Len(d) \in Nat /\ g \in Int /\ g <= Len(d) /\ l \in Nat
  BY DEF Text
<1>2. b = Piece(d, m, l) /\ b \in Text
  <2>1. b = Joined(Piece(d, m, g), Piece(d, g + 1, l))
    BY DEF Joined, Piece
  <2> HIDE DEF m, l
  <2>2. Joined(Piece(d, m, g), Piece(d, g + 1, l)) = Piece(d, m, l)
    BY <1>1, PieceOf
  <2>3. Piece(d, m, l) \in Text
    BY <1>1, PieceOf
  <2> QED  BY <2>1, <2>2, <2>3
<1>3. Len(b) = g + n - o /\ \A k \in 1..Len(b) : b[k] = d[k + o] /\ k + o \in 1..Len(d)
  <2>1. \A k \in m..l : d[k] \in Byte
    BY <1>1 DEF Text
  <2>2. /\ Len(b) = IF m <= l THEN l - m + 1 ELSE 0
        /\ \A k \in 1..(l - m + 1) : b[k] = d[m + k - 1]
    <3>1. m \in Int
      BY <1>1
    <3> HIDE DEF m, l
    <3> QED  BY <2>1, <1>1, <1>2, <3>1, SubSeqProperties DEF Piece
  <2>3. Len(b) = g + n - o
    BY <2>2
  <2>4. \A k \in 1..Len(b) : k \in 1..(l - m + 1) /\ m + k - 1 = k + o /\ k + o \in 1..Len(d)
    BY <2>3
  <2> QED  BY <2>2, <2>3, <2>4
<1>4. Within(b, d, o)
  BY <1>3 DEF Within
<1>5. \A k \in 1..Len(b) : At(b, k) = At(d, k + o)
  BY <1>3 DEF At
<1>6. Agree(b, d, o, Len(b))
  BY <1>5 DEF Agree
<1>7. ASSUME g + n = Len(d), NEW k \in Int PROVE Agree(b, d, o, k)
  <2> SUFFICES ASSUME NEW j \in 1..k PROVE At(b, j) = At(d, j + o)
    BY DEF Agree
  <2>1. CASE j \in 1..Len(b)
    BY <2>1, <1>5
  <2>2. CASE j \notin 1..Len(b)
    <3>1. j + o \notin 1..Len(d)
      BY <2>2, <1>3, <1>7
    <3>2. At(b, j) = "end"
      <4>1. b \in Seq(Byte) /\ j \in Int
        BY <1>2 DEF Text
      <4> QED  BY <4>1, <2>2, AtIs
    <3>3. At(d, j + o) = "end"
      BY <3>1, AtIs, j + o \in Int DEF Text
    <3> QED  BY <3>2, <3>3
  <2> QED  BY <2>1, <2>2
<1> QED  BY <1>2, <1>3, <1>4, <1>6, <1>7 DEF m, l, Stretch

\* StretchIs, of the sweep's buffer.
LEMMA BufferIs ==
    ASSUME SweepInv, NEW n \in Nat, given + n <= Len(doc)
    PROVE  Stretch(Buffer(n), doc, offset, given + n)
<1> DEFINE b == Buffer(n)
           o == offset
           g == given
           d == doc
<1>1. /\ d \in Text /\ o \in Nat /\ g \in Nat /\ o <= g /\ g + n <= Len(d)
      /\ b = Joined(Piece(d, o + 1, g), Piece(d, g + 1, g + n))
  <2>1. /\ d \in Text /\ g \in 0..Len(d) /\ o \in 0..g /\ pending = Piece(d, o + 1, g)
    BY DEF SweepInv
  <2>2. g \in Nat /\ o \in Nat /\ o <= g
    BY <2>1 DEF Text
  <2> QED  BY <2>1, <2>2 DEF Buffer
<1> HIDE DEF b, o, g, d
<1>2. Stretch(b, d, o, g + n)
  BY <1>1, StretchIs
<1> QED  BY <1>2 DEF b, o, g, d

\* A flush is a round: what it leaves pending is again a window of the document.
LEMMA FlushKeeps ==
    ASSUME SweepInv, \A d \in Documents : PortsFit(d),
           NEW n \in Nat, given + n <= Len(doc), NEW last \in BOOLEAN, last => given + n = Len(doc),
           NEW b, b = Buffer(n),
           Limit(b, last) > 0, Flush(b, Limit(b, last)),
           given' = given + n, eof' = last, doc' = doc, sent' = sent
    PROVE  SweepInv'
<1> DEFINE o == offset
           limit == Limit(b, last)
           r == RewritePrefix(b, limit, prev)
           c == r.consumed
           W == Whole(doc, offset)
<1>0. /\ doc \in Documents /\ doc \in Text /\ given \in 0..Len(doc) /\ o \in 0..given
      /\ pending = Piece(doc, o + 1, given)
      /\ prev = (IF o = 0 THEN NoPrev ELSE doc[o])
      /\ sent \in Text /\ out \in Text
      /\ events = W.events /\ Joined(sent, out) = Decided(doc, o)
      /\ Settled(doc, o, W)
  BY DEF SweepInv
<1>1. Len(doc) \in Nat /\ o \in Nat /\ given \in Nat /\ o <= given /\ o \in 0..Len(doc)
  BY <1>0 DEF Text
<1>2. /\ b = Piece(doc, o + 1, given + n)
      /\ b \in Text /\ Len(b) = (given + n) - o
      /\ Within(b, doc, o)
      /\ Agree(b, doc, o, Len(b))
      /\ given + n = Len(doc) => \A k \in Int : Agree(b, doc, o, k)
  <2>1. Stretch(b, doc, o, given + n)
    BY BufferIs
  <2> HIDE DEF o
  <2> QED  BY <2>1, Zenon DEF Stretch
<1>3. MaxMatchLen \in Nat
  BY HostBytes, WindowAssumption DEF MaxPat, Separator, MaxMatchLen
<1> HIDE DEF o, W
<1>4. limit \in 0..Len(b) /\ Agree(b, doc, o, limit + MaxMatchLen) /\ (last => limit = Len(b))
  <2>0. Len(b) \in Nat /\ limit > 0 /\ limit = IF last THEN Len(b) ELSE Len(b) - MaxMatchLen
    BY <1>2 DEF Limit, Text
  <2> HIDE DEF limit, MaxMatchLen
  <2>1. CASE last
    <3>1. limit = Len(b) /\ Len(b) \in Nat
      BY <2>0, <2>1
    <3>2. limit + MaxMatchLen \in Int
      BY <3>1, <1>3
    <3> QED  BY <2>1, <3>1, <3>2, <1>2
  <2>2. CASE ~last
    <3>1. limit = Len(b) - MaxMatchLen /\ Len(b) \in Nat /\ limit > 0
      BY <2>0, <2>2
    <3>2. limit + MaxMatchLen = Len(b) /\ limit \in 0..Len(b)
      BY <3>1, <1>3
    <3> QED  BY <2>2, <3>2, <1>2
  <2> QED  BY <2>1, <2>2
<1>5. /\ out' = out \o r.out
      /\ pending' = SubSeq(b, c + 1, Len(b))
      /\ events' = events \o Located(r.events, offset)
      /\ offset' = offset + c
      /\ prev' = ContextAfter(b, c)
  BY DEF Flush
<1> HIDE DEF limit
<1>6. Window(b, doc, o, prev, limit + MaxMatchLen)
  BY <1>0, <1>2, <1>4 DEF Window, W, o
<1>7. PortsFit(doc)
  BY <1>0
<1> HIDE DEF r
<1>8. /\ c \in limit..Len(b) /\ c + o \in 0..Len(doc)
      /\ r.out \in Text /\ r.events \in Seq(Event)
      /\ Settled(doc, c + o, Whole(doc, c + o))
      /\ Whole(doc, c + o).events = Whole(doc, o).events \o Located(r.events, o)
      /\ Decided(doc, c + o) = Joined(Decided(doc, o), r.out)
  <2> DEFINE p == prev
             x == r
             e == doc
  <2>2. /\ x = RewritePrefix(b, limit, p) /\ Window(b, e, o, p, limit + MaxMatchLen)
        /\ e \in Text /\ b \in Text /\ o \in 0..Len(e) /\ PortsFit(e) /\ limit \in 0..Len(b)
    BY <1>0, <1>1, <1>2, <1>4, <1>6, <1>7 DEF r
  <2> HIDE DEF p, x, e
  <2>3. x.consumed \in limit..Len(b) /\ Continues(e, o, x)
    BY <2>2, Round
  <2> QED  BY <2>3 DEF Continues, Decided, x, e
<1> HIDE DEF c
<1>9. c \in Nat /\ c <= Len(b) /\ offset' = c + o /\ Len(b) \in Nat /\ limit \in Nat
  BY <1>1, <1>2, <1>4, <1>5, <1>8 DEF o
<1>10. given' \in 0..Len(doc) /\ offset' \in 0..given'
  BY <1>1, <1>2, <1>9
<1>11. pending' = Piece(doc, offset' + 1, given')
  <2> DEFINE m == c + 1
             l == Len(b)
  <2>1. m \in Nat \ {0} /\ l \in Int /\ l <= Len(b) /\ m + o = offset' + 1 /\ l + o = given'
    BY <1>1, <1>2, <1>9
  <2>2. pending' = Piece(b, m, l)
    BY <1>5 DEF Piece
  <2> HIDE DEF m, l
  <2>3. Piece(b, m, l) = Piece(doc, m + o, l + o)
    <3>1. b \in Text /\ doc \in Text /\ o \in Nat /\ Within(b, doc, o)
      BY <1>0, <1>1, <1>2
    <3> QED  BY <2>1, <3>1, PieceSame
  <2> QED  BY <2>1, <2>2, <2>3
<1>12. prev' = (IF offset' = 0 THEN NoPrev ELSE doc[offset'])
  <2>1. CASE c = 0
    BY <2>1, <1>0, <1>1, <1>5, <1>9 DEF ContextAfter
  <2>2. CASE c > 0
    <3>0. Len(b) \in Nat /\ c <= Len(b) /\ c \in Nat
      BY <1>9
    <3>1. c \in 1..Len(b)
      BY <2>2, <3>0
    <3>2. b[c] = doc[c + o]
      BY <3>1, <1>2 DEF Within
    <3>3. prev' = b[c]
      BY <2>2, <1>5, <3>0 DEF ContextAfter
    <3>4. offset' = c + o /\ c + o # 0
      BY <2>2, <3>0, <1>1, <1>9
    <3> QED  BY <3>2, <3>3, <3>4
  <2> QED  BY <2>1, <2>2, <1>9
<1>13. events' = Whole(doc, offset').events
  BY <1>0, <1>5, <1>8, <1>9 DEF W, o
<1>14. out' \in Text /\ Joined(sent, out') = Decided(doc, offset')
  <2> DEFINE x == r.out
  <2>1. x \in Text /\ out' = Joined(out, x)
    BY <1>5, <1>8 DEF Joined
  <2>2. Decided(doc, offset') = Joined(Decided(doc, o), x)
    BY <1>8, <1>9
  <2> HIDE DEF x
  <2>3. Joined(out, x) \in Text /\ Joined(Joined(sent, out), x) = Joined(sent, Joined(out, x))
    BY <2>1, <1>0, JoinedIs
  <2> QED  BY <2>1, <2>2, <2>3, <1>0
<1>15. Settled(doc, offset', Whole(doc, offset'))
  BY <1>8, <1>9
<1>16. last => offset' = Len(doc)
  BY <1>1, <1>2, <1>4, <1>8, <1>9
<1> QED  BY <1>0, <1>10, <1>11, <1>12, <1>13, <1>14, <1>15, <1>16 DEF SweepInv

\* Bytes that are read and not decided only make the window longer.
LEMMA ReadKeeps ==
    ASSUME SweepInv, NEW n \in Nat, given + n <= Len(doc),
           given' = given + n, pending' = Buffer(n),
           eof' \in BOOLEAN, eof' => offset = Len(doc),
           UNCHANGED <<doc, prev, offset, out, sent, events>>
    PROVE  SweepInv'
<1>1. /\ doc \in Text /\ given \in 0..Len(doc) /\ offset \in 0..given
      /\ pending = Piece(doc, offset + 1, given) /\ Len(doc) \in Nat
  BY DEF SweepInv, Text
<1>2. given' \in 0..Len(doc) /\ offset \in 0..given' /\ given \in Nat /\ offset \in Nat
      /\ offset <= given
  BY <1>1
<1>3. pending' = Piece(doc, offset + 1, given + n)
  BY BufferIs DEF Stretch
<1> QED  BY <1>2, <1>3 DEF SweepInv

\* A read of the source, with the flush it leads to or without.
LEMMA FillKeeps ==
    ASSUME SweepInv, \A d \in Documents : PortsFit(d),
           NEW n \in Nat, NEW last \in BOOLEAN, Fill(n, last)
    PROVE  SweepInv'
<1> DEFINE b == Buffer(n)
<1>1. /\ given + n <= Len(doc) /\ (last => given + n = Len(doc))
      /\ given' = given + n /\ eof' = last /\ doc' = doc /\ sent' = sent
  BY DEF Fill
<1>2. IF Limit(b, last) > 0 THEN Flush(b, Limit(b, last))
      ELSE pending' = b /\ UNCHANGED <<prev, offset, out, events>>
  BY DEF Fill, Buffer, Joined, Piece
<1> HIDE DEF b
<1>3. CASE Limit(b, last) > 0
  BY <1>1, <1>2, <1>3, FlushKeeps DEF b
<1>4. CASE ~(Limit(b, last) > 0)
  <2>1. pending' = b /\ UNCHANGED <<prev, offset, out, events>>
    BY <1>2, <1>4
  <2>2. last => offset = Len(doc)
    <3> SUFFICES ASSUME last PROVE offset = Len(doc)
      OBVIOUS
    <3>1. /\ doc \in Text /\ given \in 0..Len(doc) /\ offset \in 0..given
          /\ pending = Piece(doc, offset + 1, given) /\ Len(doc) \in Nat
      BY DEF SweepInv, Text
    <3>2. Len(b) = (given + n) - offset
      <4>1. Stretch(b, doc, offset, given + n)
        BY <1>1, BufferIs DEF b
      <4> QED  BY <4>1, Zenon DEF Stretch
    <3>3. ~(Len(b) > 0)
      BY <1>4 DEF Limit
    <3> QED  BY <3>1, <3>2, <3>3, <1>1
  <2> QED  BY <2>1, <2>2, <1>1, ReadKeeps DEF b
<1> QED  BY <1>3, <1>4

\* A read that fails.
LEMMA FailKeeps ==
    ASSUME SweepInv, NEW n \in Nat, FillFails(n)
    PROVE  SweepInv'
<1>1. /\ given + n <= Len(doc) /\ given' = given + n /\ ~eof
      /\ pending' = Buffer(n)
      /\ UNCHANGED <<doc, prev, offset, out, sent, eof, events>>
  BY DEF FillFails, Buffer, Joined, Piece
<1>2. eof' = FALSE
  BY <1>1 DEF SweepInv
<1> QED  BY <1>1, <1>2, ReadKeeps

\* The caller's part: nothing is let out twice, or lost.
LEMMA DrainKeeps ==
    ASSUME SweepInv, Drain
    PROVE  SweepInv'
<1> DEFINE n == Min({MaxDrain, Len(out)})
<1>1. /\ sent' = Joined(sent, Piece(out, 1, n)) /\ out' = Piece(out, n + 1, Len(out))
      /\ UNCHANGED <<doc, given, pending, prev, offset, eof, events>>
  BY DEF Drain, Joined, Piece
<1>2. sent \in Text /\ out \in Text /\ Len(out) \in Nat
  BY DEF SweepInv, Text
<1>3. n \in 0..Len(out)
  BY <1>2, SweepAssumption, MinOfTwo
<1> HIDE DEF n
<1>4. /\ Piece(out, 1, n) \in Text /\ out' \in Text
      /\ Joined(Piece(out, 1, n), out') = out
  <2> DEFINE l == Len(out)
             m == n + 1
             k == 1
  <2>1. /\ k \in Nat \ {0} /\ m \in Nat \ {0} /\ n \in Int /\ n <= Len(out) /\ n \in (k - 1)..l
        /\ l \in Int /\ l <= Len(out)
    BY <1>2, <1>3
  <2>2. Piece(out, 1, l) = out
    BY <1>2, SubSeqFull DEF Piece, Text
  <2> HIDE DEF l, m, k
  <2>3. Piece(out, k, n) \in Text /\ Piece(out, m, l) \in Text
    BY <2>1, <1>2, PieceOf
  <2>4. Joined(Piece(out, k, n), Piece(out, n + 1, l)) = Piece(out, k, l)
    BY <2>1, <1>2, PieceOf
  <2> QED  BY <2>2, <2>3, <2>4, <1>1 DEF k, m, l
<1> DEFINE x == Piece(out, 1, n)
<1> HIDE DEF x
<1>5. x \in Text /\ sent' = Joined(sent, x) /\ out = Joined(x, out')
  BY <1>1, <1>4 DEF x
<1>6. sent' \in Text /\ Joined(sent', out') = Joined(sent, out)
  BY <1>2, <1>4, <1>5, JoinedIs
<1> QED  BY <1>1, <1>4, <1>6 DEF SweepInv

\* Every step of the sweep keeps the invariant.
LEMMA SweepKeeps ==
    ASSUME \A d \in Documents : PortsFit(d), SweepInv, [SweepNext]_sweepVars
    PROVE  SweepInv'
<1>1. \A n \in 0..MaxChunk : n \in Nat
  BY SweepAssumption
<1>2. ASSUME NEW n \in 0..MaxChunk, NEW last \in BOOLEAN, Fill(n, last) PROVE SweepInv'
  BY <1>1, <1>2, FillKeeps
<1>3. ASSUME NEW n \in 0..MaxChunk, FillFails(n) PROVE SweepInv'
  BY <1>1, <1>3, FailKeeps
<1>4. CASE Drain
  BY <1>4, DrainKeeps
<1>5. CASE UNCHANGED sweepVars
  BY <1>5 DEF SweepInv, sweepVars
<1> QED  BY <1>2, <1>3, <1>4, <1>5 DEF SweepNext, Finished

\* And what it says of the place the sweep has reached is what the properties ask.
LEMMA SweepInvShows ==
    ASSUME SweepInv
    PROVE  BoundaryInvisible /\ CountedOnce
<1>1. /\ doc \in Text /\ offset \in 0..Len(doc) /\ (eof => offset = Len(doc))
      /\ Whole(doc, offset).last <= offset
  BY DEF SweepInv, Settled, Text
<1>2. Emitted = Decided(doc, offset) /\ events = Whole(doc, offset).events
  BY DEF SweepInv, Emitted, Joined
<1>3. /\ RewriteText(doc).out = Decided(doc, Len(doc))
      /\ RewriteText(doc).events = Whole(doc, Len(doc)).events
  BY <1>1, RewriteTextIs
<1>4. BoundaryInvisible
  BY <1>1, <1>2, <1>3, OutGrows DEF BoundaryInvisible
<1>5. CountedOnce
  BY <1>1, <1>2, <1>3, EventsGrow DEF CountedOnce
<1> QED  BY <1>4, <1>5

\* At every moment what the sweep has let out, recorded and kept back is what a
\* pass over the whole document would have when it has passed `offset` bytes,
\* whatever reads, failures and drains brought it there.
THEOREM SweepInvariant ==
    ASSUME \A d \in Documents : PortsFit(d)
    PROVE  SweepSpec => []SweepInv
<1>1. SweepInit => SweepInv
  BY SweepStarts
<1>2. SweepInv /\ [SweepNext]_sweepVars => SweepInv'
  BY SweepKeeps
<1> QED  BY <1>1, <1>2, PTL DEF SweepSpec

\* What comes out of the sweep is a prefix of RewriteText of the whole document,
\* and all of it at the end, however the source's reads fell.
THEOREM BoundaryInvisibleHolds ==
    ASSUME \A d \in Documents : PortsFit(d)
    PROVE  SweepSpec => []BoundaryInvisible
<1>1. SweepInv => BoundaryInvisible
  BY SweepInvShows
<1> QED  BY <1>1, SweepInvariant, PTL

\* Each candidate is recorded once, at its place in the stream, in the order of
\* RewriteText, however the source's reads fell.
THEOREM CountedOnceHolds ==
    ASSUME \A d \in Documents : PortsFit(d)
    PROVE  SweepSpec => []CountedOnce
<1>1. SweepInv => CountedOnce
  BY SweepInvShows
<1> QED  BY <1>1, SweepInvariant, PTL

-----------------------------------------------------------------------------
\* What is rewritten: every reference that is spelled plainly.

\* The host is over where its last byte is followed by something else than a
\* removed byte, and that ends it.
LEMMA OverIs ==
    ASSUME NEW b \in Seq(Byte), NEW end \in Nat, At(b, end + 1) \notin Removed,
           \/ ~IsHostByte(At(b, end + 1))
           \/ At(b, end + 1) = "." /\ ~IsHostByte(At(b, end + 2))
    PROVE  HostTerminated(b, end)
<1> DEFINE r == RunAt(b, end + 1, Removed)
<1>1. IsRun(b, end + 1, Removed, r)
  BY RunIs, "end" \notin Removed, end + 1 \in Nat \ {0} DEF Removed
<1>2. r = 0
  <2>1. r \in Nat /\ \A m \in (end + 1)..(end + 1 + r - 1) : At(b, m) \in Removed
    BY <1>1 DEF IsRun
  <2> HIDE DEF r
  <2>2. ASSUME r > 0 PROVE FALSE
    <3>1. end + 1 \in (end + 1)..(end + 1 + r - 1)
      BY <2>1, <2>2
    <3> QED  BY <2>1, <3>1
  <2> QED  BY <2>1, <2>2
<1>3. Min({r, MaxRemoved}) = 0
  <2> HIDE DEF r
  <2> QED  BY <1>2, MinOfTwo, WindowAssumption
<1>4. end + 0 + 1 = end + 1 /\ end + 1 + 1 = end + 2
  OBVIOUS
<1>5. HostTerminated(b, end) <=> \/ ~IsHostByte(At(b, end + 1))
                                 \/ At(b, end + 1) = "." /\ ~IsHostByte(At(b, end + 2))
  BY <1>3, <1>4 DEF HostTerminated, DelimAt, r
<1> QED  BY <1>5

\* What ends an authority is no byte of a host, nor removed.
LEMMA OverByte ==
    ASSUME NEW b, NEW i, Over(b, i) \/ At(b, i) = ":"
    PROVE  /\ ~IsHostByte(At(b, i))
           /\ At(b, i) \notin Removed \cup Digit \cup {".", "p"}
<1>1. Range(Host) \cap Structural = {}
  BY HostBytes DEF Range
<1>2. At(b, i) \in Structural
  BY DEF Over, Structural
<1> QED  BY <1>1, <1>2 DEF Over, IsHostByte, Removed, Digit

\* Padding counts for nothing.
LEMMA PaddedIs ==
    ASSUME NEW digits \in Seq(Byte), NEW z \in Nat, Len(digits) = z + 1,
           \A k \in 1..z : digits[k] = "0", digits[z + 1] = "4"
    PROVE  DefaultPort(digits)
<1>1. IsRun(digits, 1, {"0"}, z)
  <2>1. \A k \in 1..(z + 1) : At(digits, k) = digits[k]
    BY AtIs
  <2>2. \A m \in 1..(1 + z - 1) : m \in 1..z /\ m \in 1..(z + 1)
    OBVIOUS
  <2>3. 1 + z = z + 1 /\ z + 1 \in 1..(z + 1)
    OBVIOUS
  <2> QED  BY <2>1, <2>2, <2>3 DEF IsRun
<1>2. IsRun(digits, 1, {"0"}, RunAt(digits, 1, {"0"}))
  BY RunIs, "end" \notin {"0"}, 1 \in Nat \ {0}
<1>3. RunAt(digits, 1, {"0"}) = z
  BY <1>1, <1>2, RunUnique, 1 \in Int
<1>4. SubSeq(digits, z + 1, Len(digits)) = <<"4">>
  <2> DEFINE s == SubSeq(digits, z + 1, z + 1)
  <2>1. s \in Seq(Byte) /\ Len(s) = 1 /\ s[1] = "4"
    OBVIOUS
  <2> HIDE DEF s
  <2>2. s = <<"4">>
    BY <2>1
  <2> QED  BY <2>2 DEF s
<1> QED  BY <1>3, <1>4 DEF DefaultPort

\* Of a candidate nothing after its first byte can begin another with a scheme.
LEMMA InsideIs ==
    ASSUME NEW b \in Seq(Byte), NEW i \in Nat \ {0}, Begins(b, i), NEW before,
           NEW k \in (i + 1)..Verdict(b, i, before).end
    PROVE  b[k] # "p"
<1> DEFINE h == HostEnd(b, i)
           e == NameEnd(b, i)
           p == PortLen(b, i)
<1>0. k \in 1..Len(b) /\ At(b, k) = b[k]
  <2>1. Verdict(b, i, before).end \in (i + 1)..Len(b)
    BY VerdictBounds
  <2>2. k \in 1..Len(b)
    BY <2>1
  <2> QED  BY <2>2, AtIs
<1>1. /\ h \in (i + 1)..Len(b) /\ e \in h..Len(b) /\ e <= h + 1 /\ p \in Nat
      /\ p > 0 => HasColon(b, i)
  BY BeginsIs, NameEndIs, PortLenIs
<1>2. \/ k <= e
      \/ k = e + 1 /\ HasColon(b, i)
      \/ k \in (e + 2)..(e + 1 + p) /\ HasColon(b, i)
  <2> DEFINE x == OriginEnd(b, i)
             v == Verdict(b, i, before)
  <2>1. x = e + (IF p > 0 THEN 1 + p ELSE 0)
    BY DEF OriginEnd
  <2>2. \/ v = [end |-> h, reason |-> "unanchored"]
        \/ v = [end |-> e + 1, reason |-> "not-a-url"] /\ HasColon(b, i)
        \/ \E why \in Reasons : v = [end |-> x, reason |-> why]
    BY VerdictIs, Zenon DEF BareColon, Reasons
  <2>5. k <= v.end
    OBVIOUS
  <2> HIDE DEF x, h, e, p, v
  <2>3. v.end = h \/ v.end = x \/ (v.end = e + 1 /\ HasColon(b, i))
    <3>1. CASE v = [end |-> h, reason |-> "unanchored"]
      <4>1. v.end = h
        BY <3>1
      <4> QED  BY <4>1
    <3>2. CASE v = [end |-> e + 1, reason |-> "not-a-url"] /\ HasColon(b, i)
      BY <3>2
    <3>3. ASSUME NEW why \in Reasons, v = [end |-> x, reason |-> why]
          PROVE  v.end = x
      BY <3>3
    <3> QED  BY <2>2, <3>1, <3>2, <3>3
  <2>4. h \in Nat /\ e \in Nat /\ h <= e
    BY <1>1
  <2> QED  BY <1>0, <1>1, <2>1, <2>3, <2>4, <2>5
<1>3. CASE k <= h
  <2>0. Len(Host) \in Nat \ {0} /\ \A j \in 1..Len(Host) : Host[j] # "p"
    BY HostBytes DEF Structural
  <2>1. CASE IsRelative(b, i)
    <3>1. RelativeAt(b, i) /\ h = i + 1 + Len(Host)
      BY <2>0, <2>1, BeginsIs DEF HostEnd
    <3>2. CASE k = i + 1  BY <3>1, <3>2 DEF RelativeAt
    <3>3. CASE k > i + 1
      <4>1. k - i - 1 \in 1..Len(Host) /\ i + 1 + (k - i - 1) = k
        BY <1>3, <2>0, <3>1, <3>3
      <4> QED  BY <2>0, <3>1, <4>1 DEF RelativeAt
    <3> QED  BY <3>2, <3>3
  <2>2. CASE ~IsRelative(b, i)
    <3>1. AbsoluteAt(b, i) /\ h = i + 2 + Len(Host)
      BY <2>0, <2>2, BeginsIs DEF HostEnd
    <3>2. CASE k \in {i + 1, i + 2}  BY <3>1, <3>2 DEF AbsoluteAt
    <3>3. CASE k > i + 2
      <4>1. k - i - 2 \in 1..Len(Host) /\ i + 2 + (k - i - 2) = k
        BY <1>3, <2>0, <3>1, <3>3
      <4> QED  BY <2>0, <3>1, <4>1 DEF AbsoluteAt
    <3> QED  BY <3>2, <3>3
  <2> QED  BY <2>1, <2>2
<1>4. CASE k > h /\ k <= e
  <2>1. k = h + 1 /\ e = h + 1
    <3> HIDE DEF h, e
    <3> QED  BY <1>1, <1>4
  <2>2. e # h
    <3> HIDE DEF h, e
    <3> QED  BY <1>1, <2>1
  <2>3. At(b, h + 1) = "."
    BY <2>2 DEF NameEnd
  <2> QED  BY <1>0, <2>1, <2>3
<1>5. CASE k = e + 1 /\ HasColon(b, i)
  BY <1>0, <1>5, PortLenIs
<1>6. CASE k \in (e + 2)..(e + 1 + p) /\ HasColon(b, i)
  <2>1. p = RunAt(b, e + 2, Digit)
    BY <1>6 DEF PortLen
  <2>2. e + 2 \in Nat \ {0} /\ "end" \notin Digit /\ "p" \notin Digit
    BY <1>1 DEF Digit
  <2> HIDE DEF e, p
  <2>3. IsRun(b, e + 2, Digit, p)
    BY <2>1, <2>2, RunIs
  <2>4. k \in (e + 2)..(e + 2 + p - 1)
    BY <1>1, <1>6
  <2>5. At(b, k) \in Digit
    BY <2>3, <2>4 DEF IsRun
  <2> QED  BY <1>0, <2>2, <2>5
<1> HIDE DEF h, e, p
<1>7. k \in Nat /\ h \in Nat /\ e \in Nat
  BY <1>0, <1>1
<1> QED  BY <1>2, <1>3, <1>4, <1>5, <1>6, <1>7

\* So no pass is past a scheme that it has not considered.
LEMMA Unshadowed ==
    ASSUME NEW d \in Text, NEW n \in 0..Len(d)
    PROVE  \A k \in (n + 1)..Whole(d, n).scanned : d[k] # "p"
<1> DEFINE Free(i) == \A k \in (i + 1)..Whole(d, i).scanned : d[k] # "p"
           T == {i \in 0..Len(d) : Free(i)}
<1>0. n \in Nat /\ Len(d) \in Nat /\ 0 \in 0..Len(d)
  BY DEF Text
<1>1. 0 \in T
  <2>1. Whole(d, 0).scanned = 0
    BY WholeIs DEF Unscanned
  <2> QED  BY <1>0, <2>1
<1>2. \A i \in 0..(Len(d) - 1) : i \in T => i + 1 \in T
  <2> SUFFICES ASSUME NEW i \in 0..(Len(d) - 1), Free(i)
               PROVE  Free(i + 1)
    <3>1. \A i \in 0..(Len(d) - 1) : i + 1 \in 0..Len(d)
      BY <1>0
    <3> HIDE DEF Free
    <3> QED  BY <3>1
  <2> DEFINE j == i + 1
             s == Whole(d, i)
             t == Whole(d, j)
             v == Verdict(d, j, Before(d, j, NoPrev))
  <2>1. j \in 1..Len(d) /\ j - 1 = i /\ j \in Nat \ {0}
    BY <1>0
  <2>2. t = Consider(d, j, NoPrev, s)
    <3> HIDE DEF j
    <3> QED  BY <2>1, WholeIs
  <2>3. s.scanned \in Nat
    <3>1. i \in 0..Len(d)
      BY <1>0
    <3> QED  BY <3>1, WholeIs DEF Known
  <2>4. CASE ~Begins(d, j) \/ j <= s.scanned
    <3>1. t = s
      BY <2>2, <2>4, PassedBy
    <3>2. \A k \in (j + 1)..s.scanned : k \in (i + 1)..s.scanned
      BY <2>3
    <3> HIDE DEF s, t
    <3> QED  BY <3>1, <3>2 DEF s, t
  <2>5. CASE Begins(d, j) /\ ~(j <= s.scanned)
    <3>0. Taken(d, j, s, v, t)
      BY <2>2, <2>5, TakenIs
    <3>1. t.scanned = v.end
      BY <3>0 DEF Taken
    <3>2. \A k \in (j + 1)..v.end : d[k] # "p"
      <4> HIDE DEF j
      <4> QED  BY <2>1, <2>5, InsideIs DEF Text
    <3> HIDE DEF t, v
    <3> QED  BY <3>1, <3>2 DEF t
  <2> QED  BY <2>4, <2>5
<1> HIDE DEF T
<1>3. \A i \in 0..Len(d) : i \in T
  BY <1>0, <1>1, <1>2, UpTo, 0 \in Nat, Len(d) \in Int
<1> QED  BY <1>3 DEF T

\* No port, or the default one, is taken for the default port, with the end of
\* the host after it.
LEMMA PortTaken ==
    ASSUME NEW b \in Seq(Byte), NEW i \in Nat \ {0}, Begins(b, i),
           PlainPort(b, NameEnd(b, i) + 1)
    PROVE  /\ ~BareColon(b, i)
           /\ HostTerminated(b, OriginEnd(b, i))
           /\ DefaultPort(PortOf(b, i))
<1> DEFINE e == NameEnd(b, i)
           p == PortLen(b, i)
           w == PortOf(b, i)
<1>0. e \in Nat /\ Len(b) \in Nat
  BY NameEndIs, BeginsIs
<1>1. /\ HasColon(b, i) <=> At(b, e + 1) = ":"
      /\ p = (IF HasColon(b, i) THEN RunAt(b, e + 2, Digit) ELSE 0)
      /\ w = SubSeq(b, e + 2, e + 1 + p)
      /\ OriginEnd(b, i) = e + (IF p > 0 THEN 1 + p ELSE 0)
      /\ BareColon(b, i) <=> HasColon(b, i) /\ p = 0 /\ ~HostTerminated(b, e + 1)
  BY DEF HasColon, PortLen, PortOf, OriginEnd, BareColon
<1>2. \/ Over(b, e + 1)
      \/ At(b, e + 1) = ":" /\ Over(b, e + 2)
      \/ /\ At(b, e + 1) = ":"
         /\ \E zeros \in 0..Len(b) : /\ \A k \in 1..zeros : At(b, e + 1 + k) = "0"
                                    /\ At(b, e + zeros + 2) = "4"
                                    /\ Over(b, e + zeros + 3)
  <2>1. e + 1 + 1 = e + 2 /\ \A z \in 0..Len(b) : e + 1 + z + 1 = e + z + 2 /\ e + 1 + z + 2 = e + z + 3
    BY <1>0
  <2> HIDE DEF e
  <2> QED  BY <2>1 DEF PlainPort, e
<1>3. RunAt(b, e + 2, Digit) \in Nat /\ IsRun(b, e + 2, Digit, RunAt(b, e + 2, Digit))
  <2>1. e + 2 \in Nat \ {0} /\ "end" \notin Digit
    BY <1>0 DEF Digit
  <2> HIDE DEF e
  <2>2. IsRun(b, e + 2, Digit, RunAt(b, e + 2, Digit))
    BY <2>1, RunIs
  <2> QED  BY <2>2 DEF IsRun
<1> HIDE DEF e, p, w
<1>4. ASSUME p = 0 PROVE DefaultPort(w)
  <2>1. w = <<>>
    BY <1>0, <1>1, <1>4, SubSeqEmpty
  <2> QED  BY <2>1 DEF DefaultPort
<1>5. CASE Over(b, e + 1)
  <2>1. ~IsHostByte(At(b, e + 1)) /\ At(b, e + 1) \notin Removed
    BY <1>5, OverByte
  <2>2. At(b, e + 1) # ":"
    BY <1>5 DEF Over
  <2>3. p = 0 /\ ~HasColon(b, i) /\ OriginEnd(b, i) = e
    BY <1>0, <1>1, <2>2
  <2>4. HostTerminated(b, e)
    BY <1>0, <2>1, OverIs
  <2> QED  BY <1>1, <1>4, <2>3, <2>4 DEF w
<1>6. CASE At(b, e + 1) = ":" /\ Over(b, e + 2)
  <2>1. /\ ~IsHostByte(At(b, e + 1)) /\ At(b, e + 1) \notin Removed
        /\ ~IsHostByte(At(b, e + 2)) /\ At(b, e + 2) \notin Removed \cup Digit
    BY <1>6, OverByte
  <2>2. RunAt(b, e + 2, Digit) = 0
    <3> DEFINE r == RunAt(b, e + 2, Digit)
    <3>1. ASSUME r > 0 PROVE FALSE
      <4>1. e + 2 \in (e + 2)..(e + 2 + r - 1)
        BY <1>0, <1>3, <3>1
      <4> QED  BY <1>3, <2>1, <4>1 DEF IsRun
    <3> QED  BY <1>3, <3>1
  <2>3. p = 0 /\ OriginEnd(b, i) = e
    BY <1>0, <1>1, <1>6, <2>2
  <2>4. HostTerminated(b, e)
    BY <1>0, <2>1, OverIs
  <2>5. HostTerminated(b, e + 1)
    <3>1. e + 1 \in Nat /\ e + 1 + 1 = e + 2
      BY <1>0
    <3> QED  BY <2>1, <3>1, OverIs
  <2> QED  BY <1>1, <1>4, <2>3, <2>4, <2>5 DEF w
<1>7. ASSUME At(b, e + 1) = ":", NEW z \in 0..Len(b), \A k \in 1..z : At(b, e + 1 + k) = "0",
             At(b, e + z + 2) = "4", Over(b, e + z + 3)
      PROVE  /\ ~BareColon(b, i) /\ HostTerminated(b, OriginEnd(b, i)) /\ DefaultPort(w)
  <2>0. z \in Nat
    BY <1>0
  <2>1. ~IsHostByte(At(b, e + z + 3)) /\ At(b, e + z + 3) \notin Removed \cup Digit
    BY <1>7, OverByte
  <2>2. \A k \in 1..(z + 1) : At(b, e + 1 + k) = IF k = z + 1 THEN "4" ELSE "0"
    <3> TAKE k \in 1..(z + 1)
    <3>1. CASE k = z + 1
      <4>1. e + 1 + k = e + z + 2
        BY <1>0, <2>0, <3>1
      <4> QED  BY <1>7, <3>1, <4>1
    <3>2. CASE k # z + 1
      <4>1. k \in 1..z
        BY <2>0, <3>2
      <4> QED  BY <1>7, <3>2, <4>1
    <3> QED  BY <3>1, <3>2
  <2>3. IsRun(b, e + 2, Digit, z + 1)
    <3>1. \A m \in (e + 2)..(e + 2 + (z + 1) - 1) : At(b, m) \in Digit
      <4> TAKE m \in (e + 2)..(e + 2 + (z + 1) - 1)
      <4>1. m - e - 1 \in 1..(z + 1) /\ e + 1 + (m - e - 1) = m
        BY <1>0, <2>0
      <4>2. At(b, m) \in {"0", "4"}
        BY <2>2, <4>1
      <4> QED  BY <4>2 DEF Digit
    <3>2. e + 2 + (z + 1) = e + z + 3 /\ z + 1 \in Nat
      BY <1>0, <2>0
    <3> QED  BY <2>1, <3>1, <3>2 DEF IsRun
  <2>4. p = z + 1
    <3>1. RunAt(b, e + 2, Digit) = z + 1
      BY <1>0, <1>3, <2>3, RunUnique, e + 2 \in Int
    <3> QED  BY <1>1, <1>7, <3>1
  <2>5. OriginEnd(b, i) = e + z + 2 /\ ~BareColon(b, i)
    BY <1>0, <1>1, <2>0, <2>4
  <2>6. HostTerminated(b, e + z + 2)
    <3>1. e + z + 2 \in Nat /\ e + z + 2 + 1 = e + z + 3
      BY <1>0, <2>0
    <3> QED  BY <2>1, <3>1, OverIs
  <2>7. \A k \in 1..(z + 1) : /\ e + 1 + k \in 1..Len(b)
                              /\ b[e + 1 + k] = IF k = z + 1 THEN "4" ELSE "0"
    <3> TAKE k \in 1..(z + 1)
    <3>0. At(b, e + 1 + k) = IF k = z + 1 THEN "4" ELSE "0"
      BY <2>2
    <3>1. e + 1 + k \in Int /\ At(b, e + 1 + k) # "end"
      BY <1>0, <2>0, <3>0
    <3>2. e + 1 + k \in 1..Len(b)
      BY <3>1, AtIs
    <3> QED  BY <2>2, <3>1, <3>2, AtIs
  <2>8. w \in Seq(Byte) /\ Len(w) = z + 1 /\ \A k \in 1..(z + 1) : w[k] = b[e + 1 + k]
    <3>1. \A k \in (e + 2)..(e + 1 + (z + 1)) : b[k] \in Byte
      <4> TAKE k \in (e + 2)..(e + 1 + (z + 1))
      <4>1. k - e - 1 \in 1..(z + 1) /\ e + 1 + (k - e - 1) = k
        BY <1>0, <2>0
      <4>2. k \in 1..Len(b)
        BY <2>7, <4>1
      <4> QED  BY <4>2
    <3>2. e + 2 \in Int /\ e + 1 + (z + 1) \in Int /\ (e + 1 + (z + 1)) - (e + 2) + 1 = z + 1
      BY <1>0, <2>0
    <3>3. w = SubSeq(b, e + 2, e + 1 + (z + 1))
      BY <1>1, <2>4
    <3>4. z + 1 \in Nat
      BY <2>0
    <3>5. w \in Seq(Byte) /\ Len(w) = z + 1 /\ \A k \in 1..(z + 1) : w[k] = b[e + 2 + k - 1]
      BY <3>1, <3>2, <3>3, <3>4, SubSeqProperties
    <3>6. \A k \in 1..(z + 1) : e + 2 + k - 1 = e + 1 + k
      BY <1>0
    <3> QED  BY <3>5, <3>6
  <2>9. DefaultPort(w)
    <3>1. \A k \in 1..z : k \in 1..(z + 1) /\ k # z + 1
      BY <2>0
    <3>2. z + 1 \in 1..(z + 1)
      BY <2>0
    <3>3. (\A k \in 1..z : w[k] = "0") /\ w[z + 1] = "4"
      BY <2>7, <2>8, <3>1, <3>2
    <3> QED  BY <2>0, <2>8, <3>3, PaddedIs
  <2> QED  BY <2>5, <2>6, <2>9
<1> QED  BY <1>2, <1>5, <1>6, <1>7 DEF w

\* A reference that is spelled plainly is a candidate, and is rewritten.
LEMMA PlainIs ==
    ASSUME NEW b \in Seq(Byte), NEW i \in Nat \ {0}, PlainReference(b, i), NEW before
    PROVE  b[i] = "p" /\ Begins(b, i) /\ Verdict(b, i, before).reason = "rewrote"
<1> DEFINE h == HostEnd(b, i)
           e == NameEnd(b, i)
<1>1. Spells(b, i, <<"p">> \o Separator \o Host) /\ Begins(b, i)
  BY DEF PlainReference, Begins
<1>2. b[i] = "p"
  <2> DEFINE word == <<"p">> \o Separator \o Host
  <2>1. word \in Seq(Byte) /\ Len(word) >= 1 /\ word[1] = "p"
    <3>1. "p" \in Byte /\ "/" \in Byte
      BY DEF Byte, Structural
    <3>2. <<"p">> \in Seq(Byte) /\ Separator \in Seq(Byte) /\ Host \in Seq(Byte) /\ Len(Host) \in Nat
      BY <3>1, HostBytes DEF Separator
    <3> QED  BY <3>2 DEF Separator
  <2> HIDE DEF word
  <2>2. Spells(b, i, word)
    BY <1>1 DEF word
  <2>3. b[i + 1 - 1] = word[1]
    <3>1. 1 \in 1..Len(word)
      BY <2>1
    <3> QED  BY <2>1, <2>2, <3>1, SpellsAt
  <2> QED  BY <2>1, <2>3
<1>3. ~Unanchored(b, i, before)
  BY <1>2 DEF Unanchored, IsRelative
<1>4. h \in Nat /\ Len(b) \in Nat
  BY <1>1, BeginsIs
<1>5. PlainPort(b, h + 1) \/ (At(b, h + 1) = "." /\ PlainPort(b, h + 2))
  BY DEF PlainReference
<1>6. e = IF At(b, h + 1) = "." /\ At(b, h + 2) \in {"/", ":", "?"} THEN h + 1 ELSE h
  BY DEF NameEnd, EndsHost
<1>7. \A j : PlainPort(b, j) => Over(b, j) \/ At(b, j) = ":"
  BY DEF PlainPort
<1>8. \/ PlainPort(b, e + 1)
      \/ /\ e = h /\ At(b, h + 1) = "." /\ At(b, h + 2) \in {" ", "end"}
  <2> HIDE DEF h, e
  <2>1. CASE PlainPort(b, h + 1)
    <3>1. At(b, h + 1) # "."
      BY <1>7, <2>1 DEF Over
    <3> QED  BY <1>6, <2>1, <3>1
  <2>2. CASE At(b, h + 1) = "." /\ PlainPort(b, h + 2)
    <3>1. At(b, h + 2) \in {"/", "?", " ", "end", ":"}
      BY <1>7, <2>2 DEF Over
    <3>2. CASE At(b, h + 2) \in {"/", ":", "?"}
      <4>1. e = h + 1 /\ e + 1 = h + 2
        BY <1>4, <1>6, <2>2, <3>2
      <4> QED  BY <2>2, <4>1
    <3>3. CASE At(b, h + 2) \in {" ", "end"}
      BY <1>6, <2>2, <3>3
    <3> QED  BY <3>1, <3>2, <3>3
  <2> QED  BY <1>5, <2>1, <2>2
<1>9. ~BareColon(b, i) /\ HostTerminated(b, OriginEnd(b, i)) /\ DefaultPort(PortOf(b, i))
  <2>1. CASE PlainPort(b, e + 1)
    BY <1>1, <2>1, PortTaken
  <2>2. CASE /\ e = h /\ At(b, h + 1) = "." /\ At(b, h + 2) \in {" ", "end"}
    <3>1. ~HasColon(b, i) /\ PortLen(b, i) = 0
      BY <2>2 DEF HasColon, PortLen
    <3>2. OriginEnd(b, i) = h /\ ~BareColon(b, i)
      <4>1. ~BareColon(b, i)
        BY <3>1 DEF BareColon
      <4>2. e = h
        BY <2>2, Zenon
      <4>3. OriginEnd(b, i) = e + (IF PortLen(b, i) > 0 THEN 1 + PortLen(b, i) ELSE 0)
        BY DEF OriginEnd
      <4>4. ~(PortLen(b, i) > 0)
        BY <3>1
      <4>5. OriginEnd(b, i) = h + 0
        BY <4>2, <4>3, <4>4
      <4>6. h + 0 = h
        BY <1>4
      <4> QED  BY <4>1, <4>5, <4>6
    <3>3. ~IsHostByte(At(b, h + 2))
      BY <2>2, OverByte DEF Over
    <3>4. At(b, h + 1) \notin Removed
      BY <2>2 DEF Removed
    <3> HIDE DEF h
    <3>5. HostTerminated(b, h)
      BY <1>4, <2>2, <3>3, <3>4, OverIs
    <3>6. PortOf(b, i) = <<>>
      <4>1. PortOf(b, i) = SubSeq(b, h + 2, h + 1 + 0)
        BY <2>2, <3>1 DEF PortOf
      <4>2. h + 1 + 0 < h + 2
        BY <1>4
      <4> QED  BY <1>4, <4>1, <4>2, SubSeqEmpty
    <3> QED  BY <3>2, <3>5, <3>6 DEF DefaultPort
  <2> QED  BY <1>8, <2>1, <2>2
<1>10. Verdict(b, i, before) = [end |-> OriginEnd(b, i), reason |-> "rewrote"]
  BY <1>3, <1>9, VerdictIs, Zenon
<1> QED  BY <1>1, <1>2, <1>10

\* A reference of d that is spelled plainly, and its rewriting in the record.
RewrittenAt(i) == [at |-> i - 1, what |-> "rewrote"]

\* Once the pass is beyond it, it has been recorded as rewritten.
LEMMA PlainRecorded ==
    ASSUME NEW d \in Text, NEW n \in 0..Len(d), NEW i \in 1..n, PlainReference(d, i)
    PROVE  RewrittenAt(i) \in Range(Whole(d, n).events)
<1> DEFINE R(j) == \E k \in 1..Len(Whole(d, j).events) : Whole(d, j).events[k] = RewrittenAt(i)
           T == {j \in Nat : R(j)}
<1>0. /\ n \in Nat /\ Len(d) \in Nat /\ i \in Nat \ {0} /\ i <= n /\ n <= Len(d)
      /\ d \in Seq(Byte)
  BY DEF Text
<1>1. \A j \in 0..Len(d) : Whole(d, j).events \in Seq(Event)
  BY WholeIs DEF Known
<1>2. i \in T
  <2> DEFINE s == Whole(d, i - 1)
             t == Whole(d, i)
             v == Verdict(d, i, Before(d, i, NoPrev))
  <2>1. d[i] = "p" /\ Begins(d, i) /\ v.reason = "rewrote"
    BY <1>0, PlainIs
  <2>2. i - 1 \in 0..Len(d) /\ i \in 1..Len(d)
    BY <1>0
  <2>3. s.scanned \in Nat
    BY <2>2, WholeIs DEF Known
  <2>4. ~(i <= s.scanned)
    <3>1. \A k \in (i - 1 + 1)..s.scanned : d[k] # "p"
      BY <2>2, Unshadowed
    <3>2. i - 1 + 1 = i
      BY <1>0
    <3> HIDE DEF s
    <3>3. i <= s.scanned => i \in (i - 1 + 1)..s.scanned
      BY <1>0, <2>3, <3>2
    <3> QED  BY <2>1, <3>1, <3>3
  <2>5. t = Consider(d, i, NoPrev, s)
    BY <2>2, WholeIs
  <2>6. Taken(d, i, s, v, t)
    BY <2>1, <2>4, <2>5, TakenIs
  <2>7. t.events = Append(s.events, RewrittenAt(i))
    BY <2>1, <2>6 DEF Taken, RewrittenAt
  <2>8. s.events \in Seq(Event) /\ Len(s.events) \in Nat
    <3>1. s.events \in Seq(Event)
      BY <1>1, <2>2
    <3> HIDE DEF s
    <3> QED  BY <3>1
  <2> HIDE DEF s, t
  <2>9. Len(t.events) = Len(s.events) + 1 /\ t.events[Len(s.events) + 1] = RewrittenAt(i)
    BY <2>7, <2>8
  <2>10. Len(s.events) + 1 \in 1..Len(t.events)
    BY <2>8, <2>9
  <2>11. \E k \in 1..Len(t.events) : t.events[k] = RewrittenAt(i)
    BY <2>9, <2>10
  <2> QED  BY <1>0, <2>11 DEF t
<1>3. \A j \in i..(n - 1) : j \in T => j + 1 \in T
  <2> SUFFICES ASSUME NEW j \in i..(n - 1), R(j)
               PROVE  R(j + 1)
    <3> HIDE DEF R
    <3> QED  BY <1>0
  <2> DEFINE m == j + 1
             s == Whole(d, j)
             t == Whole(d, m)
             v == Verdict(d, m, Before(d, m, NoPrev))
  <2>1. j \in 0..Len(d) /\ m \in 1..Len(d) /\ m - 1 = j
    BY <1>0
  <2>2. t = Consider(d, m, NoPrev, s)
    <3> HIDE DEF m
    <3> QED  BY <2>1, WholeIs
  <2>3. PICK k \in 1..Len(s.events) : s.events[k] = RewrittenAt(i)
    OBVIOUS
  <2>4. CASE ~Begins(d, m) \/ m <= s.scanned
    <3>1. t = s
      BY <2>2, <2>4, PassedBy
    <3> HIDE DEF s, t
    <3>2. \E q \in 1..Len(t.events) : t.events[q] = RewrittenAt(i)
      BY <2>3, <3>1
    <3> QED  BY <3>2 DEF t
  <2>5. CASE Begins(d, m) /\ ~(m <= s.scanned)
    <3>1. Taken(d, m, s, v, t)
      BY <2>2, <2>5, TakenIs
    <3>2. t.events = Append(s.events, [at |-> m - 1, what |-> v.reason])
      BY <3>1 DEF Taken
    <3>3. s.events \in Seq(Event)
      BY <1>1, <2>1
    <3> HIDE DEF s, t, v
    <3>4. Len(t.events) = Len(s.events) + 1 /\ t.events[k] = s.events[k] /\ k \in 1..Len(t.events)
      BY <2>3, <3>2, <3>3
    <3>5. \E q \in 1..Len(t.events) : t.events[q] = RewrittenAt(i)
      BY <2>3, <3>4
    <3> QED  BY <3>5 DEF t
  <2> QED  BY <2>4, <2>5
<1> HIDE DEF T
<1>4. n \in T
  <2>1. \A j \in i..n : j \in T
    BY <1>0, <1>2, <1>3, UpTo
  <2> QED  BY <1>0, <2>1
<1>5. \E k \in 1..Len(Whole(d, n).events) : Whole(d, n).events[k] = RewrittenAt(i)
  BY <1>4 DEF T
<1>6. DOMAIN Whole(d, n).events = 1..Len(Whole(d, n).events)
  BY <1>1
<1> QED  BY <1>5, <1>6 DEF Range

\* No plain reference goes past the sweep: of those that begin before the bytes
\* it keeps back each is recorded as rewritten, and at the end it keeps none.
PlainRewritten ==
    /\ \A i \in 1..offset : PlainReference(doc, i) => RewrittenAt(i) \in Range(events)
    /\ eof => offset = Len(doc)

\* Every reference a browser resolves to the canonical origin, and that is
\* spelled with nothing to remove from it, is rewritten, however the source's
\* reads fell and whatever the references around it.
THEOREM PlainRewrittenHolds ==
    ASSUME \A d \in Documents : PortsFit(d)
    PROVE  SweepSpec => []PlainRewritten
<1>1. SweepInv => PlainRewritten
  <2> SUFFICES ASSUME SweepInv PROVE PlainRewritten
    OBVIOUS
  <2>1. /\ doc \in Text /\ offset \in 0..Len(doc) /\ events = Whole(doc, offset).events
        /\ eof => offset = Len(doc)
    BY DEF SweepInv, Text
  <2>2. \A i \in 1..offset : PlainReference(doc, i) => RewrittenAt(i) \in Range(events)
    BY <2>1, PlainRecorded
  <2> QED  BY <2>1, <2>2 DEF PlainRewritten
<1> QED  BY <1>1, SweepInvariant, PTL
=============================================================================
