------------------------------ MODULE Exchange ------------------------------
(***************************************************************************)
(* One request through Proxy.Handler (internal/proxy/proxy.go): looked up, *)
(* mapped back, forwarded; any number of 1xx hints and then the answer or  *)
(* a failure; and what the browser gets of it.  Every combination of flags *)
(* is an initial state.                                                    *)
(***************************************************************************)
EXTENDS Pipeline, Naturals

CONSTANTS
  Proxies,   \* configurations
  Asked,     \* requests a browser makes
  Answered(_), \* the responses an upstream may give to a request
  Hints,     \* header texts of a 1xx response
  MaxHints   \* bound on the 1xx responses of one exchange

ASSUME InputsAssumption ==
  /\ Proxies \subseteq Configs
  /\ Asked \subseteq Requests
  /\ \A q \in Asked : Answered(q) \subseteq Responses
  /\ Hints \subseteq SUBSET Mentions
  /\ MaxHints \in Nat

VARIABLES
  cfg,     \* the flags
  req,     \* the browser's request
  fwd,     \* what the upstream was asked, or None
  hints,   \* 1xx header texts the browser was sent
  nhints,  \* how many
  ans,     \* the upstream's response, or None
  resp,    \* the response written to the browser, or None
  log,     \* the skips and warnings of this exchange
  phase

vars == <<cfg, req, fwd, hints, nhints, ans, resp, log, phase>>

Init ==
  /\ cfg \in Proxies
  /\ req \in Asked
  /\ fwd = None
  /\ hints = {}
  /\ nhints = 0
  /\ ans = None
  /\ resp = None
  /\ log = {}
  /\ phase = "asked"

\* SiteForHost does not know the host.
Misdirected ==
  /\ phase = "asked"
  /\ req.url.space # cfg.variant
  /\ resp' = Plain("421")
  /\ phase' = "writing"
  /\ UNCHANGED <<cfg, req, fwd, hints, nhints, ans, log>>

Forward ==
  /\ phase = "asked"
  /\ req.url.space = cfg.variant
  /\ fwd' = Forwarded(cfg, req)
  /\ log' = RequestLog(cfg, req)
  /\ phase' = "forwarded"
  /\ UNCHANGED <<cfg, req, hints, nhints, ans, resp>>

\* A 1xx goes out through hintRewriter, never with its Location rewritten.
Hint(text) ==
  /\ phase = "forwarded"
  /\ nhints < MaxHints
  /\ hints' = hints \cup
       {IF cfg.dryRun THEN text ELSE Retarget(text, CanonicalSet, cfg.variant, Grammar)}
  /\ nhints' = nhints + 1
  /\ UNCHANGED <<cfg, req, fwd, ans, resp, log, phase>>

\* The connection to the upstream fails, or the request body does.
UpstreamFails ==
  /\ phase = "forwarded"
  /\ resp' = Plain("502")
  /\ phase' = "writing"
  /\ UNCHANGED <<cfg, req, fwd, hints, nhints, ans, log>>

\* A response without a body is one to HEAD or one whose status forbids it.
Answers(q, r) ==
  /\ ~q.cut
  /\ r.empty <=> q.method = "HEAD" \/ r.status \in {"204", "304"}

Answer(r) ==
  /\ phase = "forwarded"
  /\ Answers(fwd, r)
  /\ ans' = r
  /\ resp' = ModifyResponse(cfg, req, r).resp
  /\ log' = log \cup ModifyResponse(cfg, req, r).log
  /\ phase' = "writing"
  /\ UNCHANGED <<cfg, req, fwd, hints, nhints>>

\* httputil copies the body; one that breaks off aborts the connection, which
\* the browser can tell from a response that ended.
Copied ==
  /\ phase = "writing"
  /\ phase' = IF resp.cut THEN "aborted" ELSE "done"
  /\ UNCHANGED <<cfg, req, fwd, hints, nhints, ans, resp, log>>

Next ==
  \/ Misdirected \/ Forward \/ UpstreamFails \/ Copied
  \/ \E t \in Hints : Hint(t)
  \/ \E r \in Answered(req) : Answer(r)

Spec == Init /\ [][Next]_vars

-----------------------------------------------------------------------------
Passive == cfg.dryRun \/ Identity(cfg)

\* What this proxy's browser must not be sent, and its upstream must not.
Leaks(text)  == \E m \in text : m.space \in CanonicalSet \ {cfg.variant}
Writes(text) == \E m \in text : m.space = cfg.variant /\ cfg.variant # Canon

\* A production origin reaches the browser in a body only where the exchange
\* says so: a skip or warning with a reason, a media type that is never
\* rewritten, a pass that was switched off.
NoSilentLeak ==
  resp # None /\ ~Passive /\ Leaks(resp.text) =>
    \/ log \cap {"size-cap", "not-decodable", "base64", "attachment",
                 "event-stream", "range"} # {}
    \/ resp.ct = "css"
    \/ resp.ct = "html" /\ \E m \in ans.text : m.place = "hidden"
    \/ cfg.noSweep /\ \E m \in ans.text : m.place = "stray"

\* The same for what is written down: the variant's hostname reaches the shared
\* database only with a record, in a body no pass reads, or in a file.
NoSilentWrite ==
  fwd # None /\ ~cfg.dryRun /\ ~fwd.cut /\ Writes(fwd.body) =>
    \/ log \cap {"size-cap", "not-decodable", "base64"} # {}
    \/ fwd.kind \in {"other", "none"} \/ fwd.method # "POST"
    \/ fwd.kind = "multipart" /\ \E m \in req.body : m.place = "stray"
    \/ cfg.noSweep /\ \E m \in req.body : m.place = "stray"

\* The one header that may name a canonical origin is the Location of a
\* self-redirect to a safe request; everything else in that same response is
\* still rewritten, and so is every 1xx before it.
OnlyCarveOut ==
  ~Passive =>
    /\ resp # None =>
         /\ resp.location # None /\ resp.location.space \in CanonicalSet \ {cfg.variant}
              => "self-redirect" \in log /\ req.method \in Safe /\ ~cfg.strict
         /\ ~resp.domain
         /\ \A m \in resp.link : m.place \in Grammar
                                   => m.space \notin CanonicalSet \ {cfg.variant}
    /\ \A t \in hints : \A m \in t : m.place \in Grammar
                                       => m.space \notin CanonicalSet \ {cfg.variant}

\* What the headers say of a body is said of the one they are sent with: its
\* Content-Length is absent or its own, and no validator names another text,
\* or the next conditional request would be answered 304 for a body that was
\* never sent.
HonestHeaders ==
  ans # None =>
    /\ ans.length \in {None, Body(ans)} => resp.length \in {None, Body(resp)}
    /\ ans.etag \in {None, Body(ans)} => resp.etag = None \/ resp.etag.text = resp.text

\* An identity map changes no byte of anything, and --dry-run none either
\* unless --strict-origins replaces the response.
Transparent ==
  Passive =>
    /\ resp # None /\ ans # None /\ ~ans.cut /\ ~(cfg.strict /\ SelfRedirect(cfg, req, ans))
         => resp = ans
    /\ fwd # None => fwd.body = req.body /\ fwd.line = req.line
    /\ hints \subseteq Hints

\* An upstream that broke off is never presented as a response that ended
\* well, unless --compress had to read it whole.
FailureSurfaced ==
  ans # None /\ ans.cut /\ ~cfg.compress /\ phase = "done" =>
    resp = Plain("502") \/ (cfg.strict /\ SelfRedirect(cfg, req, ans))

-----------------------------------------------------------------------------
(* What a comment says, and the code does not do. *)

\* internal/proxy/proxy.go, the error handler: an upstream failure is surfaced,
\* not swallowed.  compressBody swallows one.
UpstreamFailureSurfaced ==
  ans # None /\ ans.cut /\ phase = "done" =>
    resp = Plain("502") \/ (cfg.strict /\ SelfRedirect(cfg, req, ans))

\* internal/proxy/transport.go: a HEAD reports the length a GET would send.
\* The upstream's own HEAD does, so its length says what its GET would send.
HeadReportsGet ==
  /\ ans # None
  /\ fwd.method = "HEAD"
  /\ ans.status = "200"
  /\ ans.encoding = "identity"
  /\ ans.length # None
  /\ resp.length # None
  => LET get == [ans EXCEPT !.empty = FALSE, !.text = ans.length.text,
                            !.coding = ans.length.coding]
     IN  resp.length = Body(ModifyResponse(cfg, [req EXCEPT !.method = "GET"], get).resp)
=============================================================================
