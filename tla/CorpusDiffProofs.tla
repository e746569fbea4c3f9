-------------------------- MODULE CorpusDiffProofs --------------------------
(***************************************************************************)
(* That a verdict of `hostshift diff` can be believed, for any site, any   *)
(* size of it, any number of edits and failed fetches during a run, and a  *)
(* proxy with any flags: green is sound, and a healthy deployment is never *)
(* called red.  Both rest on one fact, that the copy of the proxy's        *)
(* dispatch which diff.go keeps is the proxy's dispatch.                   *)
(*                                                                         *)
(* And that its crawl starves neither pages nor assets: at every step what *)
(* was seen has been fetched, or waits once in the queue of its kind.      *)
(***************************************************************************)
EXTENDS CorpusDiff, PipelineProofs, FiniteSetTheorems, SequenceTheorems, WellFoundedInduction

\* The proxy that is compared is a worktree's: it maps the canonical origins to
\* a variant that is none of them.
WorktreeProxies == \A d \in Deployments : d.cfg.variant \in Others

-----------------------------------------------------------------------------
(* A pass to a space that it does not map from. *)

LEMMA RetargetFixes ==
    ASSUME NEW text \in SUBSET Mentions, NEW from, NEW to, to \notin from, NEW reach
    PROVE  /\ \A m \in Retarget(text, from, to, reach) : ~(m.space \in from /\ m.place \in reach)
           /\ Retarget(text, from, to, reach) = text <=>
                \A m \in text : ~(m.space \in from /\ m.place \in reach)
<1>1. \A m \in Retarget(text, from, to, reach) : ~(m.space \in from /\ m.place \in reach)
  <2> SUFFICES ASSUME NEW m \in Retarget(text, from, to, reach)
               PROVE  ~(m.space \in from /\ m.place \in reach)
    OBVIOUS
  <2> QED
    BY RetargetMention
<1>2. ASSUME \A m \in text : ~(m.space \in from /\ m.place \in reach)
      PROVE  Retarget(text, from, to, reach) = text
  BY <1>2 DEF Retarget
<1> QED
  BY <1>1, <1>2

\* Which places the scan of a body reaches.
Reach(r) == IF r.ct \notin Rewritable THEN {} ELSE IF Unparsed(r) THEN Bytes ELSE Flat

LEMMA ScanIsAPass ==
    ASSUME NEW text \in SUBSET Mentions, NEW r \in ResponseRecords, NEW from, NEW to \in Spaces
    PROVE  ApplyLikeTheProxy(text, r, from, to) = Retarget(text, from, to, Reach(r))
<1>1. r.ct \in Types /\ r.json \in {"ok", "bad", "no"}
  BY DEF ResponseRecords
<1>2. Retarget(Retarget(text, from, to, Grammar), from, to, Bytes) = Retarget(text, from, to, Flat)
  BY SweptText
<1>3. Retarget(text, from, to, {}) = text
  BY DEF Retarget
<1>4. CASE r.ct = "html"
  BY <1>2, <1>4 DEF ApplyLikeTheProxy, Reach, Rewritable, Unparsed
<1>5. CASE r.ct = "json" \/ (r.ct = "text" /\ r.json # "no")
  BY <1>1, <1>2, <1>5 DEF ApplyLikeTheProxy, Reach, Rewritable, Unparsed
<1>6. CASE r.ct = "text" /\ r.json = "no"
  BY <1>6 DEF ApplyLikeTheProxy, Reach, Rewritable, Unparsed
<1>7. CASE r.ct \notin Rewritable
  BY <1>3, <1>7 DEF ApplyLikeTheProxy, Reach, Rewritable
<1> QED
  BY <1>1, <1>4, <1>5, <1>6, <1>7 DEF Rewritable

-----------------------------------------------------------------------------
(* What a live proxy makes of a whole answer, exactly. *)

\* What it leaves of an answer besides its headers and its text.
Shaped(x, r) ==
  /\ x.status = r.status /\ x.ct = r.ct /\ x.json = r.json /\ x.attachment = r.attachment
  /\ x.coding = r.coding /\ x.cut = r.cut

LEMMA FinishUncoded ==
    ASSUME NEW c \in Configs, NEW q \in Requests, ~q.gzip, NEW r \in ResponseRecords,
           NEW changed \in BOOLEAN
    PROVE  LET x == Finish(c, q, r, changed)
           IN  /\ Shaped(x, r) /\ x.text = r.text /\ x.location = r.location
<1> DEFINE s == [r EXCEPT !.length = None, !.etag = None]
<1>1. Finish(c, q, r, changed) \in {r, s}
  BY DEF Finish, Compress
<1>2. Shaped(s, r) /\ s.text = r.text /\ s.location = r.location
  BY DEF ResponseRecords, Shaped
<1> HIDE DEF s
<1> QED
  BY <1>1, <1>2 DEF Shaped

\* The arm a body goes through is the one that diff.go takes it through.
LEMMA ArmIsAPass ==
    ASSUME NEW c \in Configs, Live(c), ~Identity(c), NEW q \in Requests, ~q.gzip,
           NEW r \in ResponseRecords, ~r.big, ~r.cut, NEW changed \in BOOLEAN
    PROVE  LET y == Arm(c, q, r, changed)
           IN  /\ Shaped(y.resp, r) /\ y.resp.location = r.location
               /\ y.resp.text = IF r.attachment THEN r.text
                                ELSE Retarget(r.text, CanonicalSet, c.variant, Reach(r))
<1> DEFINE new == Retarget(r.text, CanonicalSet, c.variant, Reach(r))
           y == Arm(c, q, r, changed)
<1>0. /\ r.text \in SUBSET Mentions /\ c.variant \in Spaces /\ r.ct \in Types
      /\ r.json \in {"ok", "bad", "no"} /\ r.attachment \in BOOLEAN
  BY DEF ResponseRecords, Configs
<1>1. new = ApplyLikeTheProxy(r.text, r, CanonicalSet, c.variant) /\ new \in SUBSET Mentions
  BY <1>0, ScanIsAPass, RetargetTexts
<1>2. ASSUME NEW log, y = Result(r, log), r.attachment \/ new = r.text
      PROVE  /\ Shaped(y.resp, r) /\ y.resp.location = r.location
             /\ y.resp.text = IF r.attachment THEN r.text ELSE new
  BY <1>2 DEF Result, Shaped
<1>3. ASSUME NEW log, y = Result(Finish(c, q, [r EXCEPT !.text = new], changed), log),
             ~r.attachment
      PROVE  /\ Shaped(y.resp, r) /\ y.resp.location = r.location
             /\ y.resp.text = IF r.attachment THEN r.text ELSE new
  <2> DEFINE s == [r EXCEPT !.text = new]
  <2>1. s \in ResponseRecords /\ s.text = new /\ s.location = r.location /\ Shaped(s, r)
    BY <1>1 DEF ResponseRecords, Shaped
  <2>2. y.resp = Finish(c, q, s, changed)
    BY <1>3 DEF Result
  <2> HIDE DEF s, new, y
  <2> QED
    BY <1>3, <2>1, <2>2, FinishUncoded DEF Shaped
<1>4. ASSUME NEW log, ~r.attachment, y = Buffered(c, q, r, changed, new, log)
      PROVE  /\ Shaped(y.resp, r) /\ y.resp.location = r.location
             /\ y.resp.text = IF r.attachment THEN r.text ELSE new
  <2>1. \/ new = r.text /\ \E l : y = Result(r, l)
        \/ \E l : y = Result(Finish(c, q, [r EXCEPT !.text = new], changed), l)
    BY <1>4 DEF Buffered, Live
  <2> HIDE DEF y, new
  <2> QED
    BY <1>2, <1>3, <1>4, <2>1
<1>5. CASE r.attachment
  <2>1. y = Result(r, {"attachment"})
    BY <1>5 DEF Arm
  <2> QED
    BY <1>2, <1>5, <2>1
<1>6. CASE ~r.attachment /\ r.ct = "html"
  <2>1. RewriteHTML(c, r.text) = new
    BY <1>0, <1>6, LiveTexts DEF Reach, Rewritable, Unparsed
  <2>2. y = Result(Finish(c, q, [r EXCEPT !.text = new], changed), {})
    BY <1>6, <2>1 DEF Arm, Live
  <2> QED
    BY <1>3, <1>6, <2>2
<1>7. CASE ~r.attachment /\ (r.ct = "json" \/ (r.ct = "text" /\ r.json # "no"))
  <2>1. RewriteJSON(c, r.text, r.json = "ok", CanonicalSet, c.variant) = new
    BY <1>1, <1>7 DEF RewriteJSON, ApplyLikeTheProxy, Live
  <2>2. \E log : y = Buffered(c, q, r, changed, new, log)
    BY <1>7, <2>1 DEF Arm, BufferedJSON
  <2> QED
    BY <1>4, <1>7, <2>2
<1>8. CASE ~r.attachment /\ r.ct = "text" /\ r.json = "no"
  <2>1. new = Retarget(r.text, CanonicalSet, c.variant, Flat)
    BY <1>8 DEF Reach, Rewritable, Unparsed
  <2>2. y = Buffered(c, q, r, changed, new, {})
    BY <1>8, <2>1 DEF Arm
  <2> QED
    BY <1>4, <1>8, <2>2
<1>9. CASE ~r.attachment /\ r.ct \notin Rewritable
  <2>1. \E log : y = Result(r, log)
    BY <1>0, <1>9 DEF Arm, Types, Rewritable
  <2>2. new = r.text
    BY <1>1, <1>9 DEF ApplyLikeTheProxy, Rewritable
  <2> QED
    BY <1>2, <2>1, <2>2
<1> QED
  BY <1>0, <1>5, <1>6, <1>7, <1>8, <1>9 DEF Types, Rewritable

\* An answer that the proxy may read and has no reason to suppress.
Readable(c, q, r) ==
  /\ r.encoding = "identity" /\ ~r.big /\ ~r.cut /\ r.status # "206"
  /\ ~Blanked(c, q, r)

\* What a live proxy sends of an answer that it may read (modifyResponse, its
\* dispatch by content type and its passes) is what diff.go expects of it
\* (applyLikeTheProxy), for every text; nothing else of the answer is changed
\* but its headers.
THEOREM DispatchesAgree ==
    ASSUME NEW c \in Configs, Live(c), ~Identity(c), NEW q \in Requests, ~q.gzip,
           NEW r \in Responses, Readable(c, q, r)
    PROVE  LET x == ModifyResponse(c, q, r)
           IN  /\ Shaped(x.resp, r)
               /\ x.resp.text = IF r.attachment THEN r.text
                                ELSE ApplyLikeTheProxy(r.text, r, CanonicalSet, c.variant)
               /\ x.resp.location = IF SelfRedirect(c, q, r) \/ r.location = None THEN r.location
                                    ELSE ToVariant(c, r.location)
<1> DEFINE self == SelfRedirect(c, q, r)
           loc == IF self \/ r.location = None THEN r.location ELSE ToVariant(c, r.location)
           o == RewriteOriginHeaders(c, r, self)
           h == DropCookieDomain(c, o)
           v == AddVary(c, h)
           changed == h # r
           y == Arm(c, q, v, changed)
           x == ModifyResponse(c, q, r)
<1>1. r \in ResponseRecords /\ c.variant \in Spaces /\ r.text \in SUBSET Mentions
  BY DEF Responses, ResponseRecords, Configs
<1>2. h \in Responses /\ SameBody(h, r)
  BY HeadersPrepare DEF Prepares
<1>3. h.location = loc
  BY <1>1 DEF RewriteOriginHeaders, DropCookieDomain, Live, ResponseRecords
<1>4. v \in Responses /\ SameBody(v, r) /\ v.location = loc
  <2> HIDE DEF h, loc
  <2>1. v \in Responses /\ SameBody(v, h) /\ SameHead(v, h)
    BY <1>2, AddVaryPrepares DEF Prepares
  <2> QED
    BY <1>2, <1>3, <2>1 DEF SameBody, SameHead
<1>5. x.resp = y.resp
  <2>1. h.status # "206" /\ v.encoding = "identity"
    BY <1>2, <1>4 DEF SameBody, Readable
  <2>2. FinishBody(c, q, h, changed) = y
    BY <2>1 DEF FinishBody, Live, Decodable, Decoded
  <2>3. x = [FinishBody(c, q, h, changed)
               EXCEPT !.log = @ \cup IF self THEN {"self-redirect"} ELSE {}]
    BY DEF ModifyResponse, Readable, Blanked
  <2>4. \E resp, log, failed : y = [resp |-> resp, log |-> log, failed |-> failed]
    <3> HIDE DEF v, changed
    <3>1. v.ct \in Types /\ v.attachment \in BOOLEAN /\ v.json \in {"ok", "bad", "no"}
      BY <1>4 DEF Responses, ResponseRecords
    <3> DEFINE Outcome(z) == z = Failure \/ \E d, l : z = Result(d, l)
    <3>2. \A d, l : Outcome(Result(d, l))
      OBVIOUS
    <3>3. Outcome(Failure)
      OBVIOUS
    <3> HIDE DEF Outcome
    <3>4. \A text, told : Outcome(Buffered(c, q, v, changed, text, told))
      BY <3>2, <3>3 DEF Buffered
    <3>5. Outcome(y)
      BY <3>1, <3>2, <3>4 DEF Arm, BufferedJSON, Types
    <3> HIDE DEF y
    <3> QED
      BY <3>5 DEF Outcome, Failure, Result
  <2> HIDE DEF y, h, changed, x, self
  <2> QED
    BY <2>2, <2>3, <2>4
<1>6. v \in ResponseRecords /\ ~v.big /\ ~v.cut /\ changed \in BOOLEAN
  BY <1>4 DEF SameBody, Readable, Responses
<1> HIDE DEF v, changed, loc
<1>7. /\ Shaped(y.resp, v) /\ y.resp.location = v.location
      /\ y.resp.text = IF v.attachment THEN v.text
                       ELSE Retarget(v.text, CanonicalSet, c.variant, Reach(v))
  BY <1>6, ArmIsAPass
<1>8. /\ v.text = r.text /\ v.attachment = r.attachment /\ Reach(v) = Reach(r)
      /\ Shaped(v, r)
  BY <1>4 DEF SameBody, Shaped, Reach, Unparsed
<1>9. Retarget(r.text, CanonicalSet, c.variant, Reach(r)) =
        ApplyLikeTheProxy(r.text, r, CanonicalSet, c.variant)
  BY <1>1, ScanIsAPass
<1> HIDE DEF y, x
<1>10. Shaped(x.resp, r)
  BY <1>5, <1>7, <1>8 DEF Shaped
<1> QED
  BY <1>4, <1>5, <1>7, <1>8, <1>9, <1>10 DEF loc, x

-----------------------------------------------------------------------------
(* What a scan says of an answer. *)

\* Nothing found is nothing there that a pass could read.
LEMMA ScanFinds ==
    ASSUME NEW r \in ResponseRecords, NEW from, NEW to \in Spaces, to \notin from,
           ~OriginsIn(r, from, to)
    PROVE  ~Exposed(r, from)
<1> SUFFICES ASSUME r.coding = "identity", NEW m \in r.text, m.space \in from,
                    \/ m.place = "hidden"
                    \/ ~r.attachment /\ r.ct \in Rewritable /\ (Unparsed(r) => m.place # "escaped")
             PROVE  FALSE
  BY DEF Exposed
<1>1. Scanned(r) = r.text /\ r.text \in SUBSET Mentions
  BY DEF Scanned, ResponseRecords
<1>2. m.place # "hidden"
  BY <1>1 DEF OriginsIn, Hides
<1>3. m.place \in Reach(r)
  <2>1. m.place \in Places
    BY <1>1 DEF Mentions
  <2> QED
    BY <1>2, <2>1 DEF Reach, Places, Bytes, Flat
<1>4. ApplyLikeTheProxy(r.text, r, from, to) = r.text
  BY <1>1, <1>2 DEF OriginsIn, isTier2, Rewritable
<1> QED
  BY <1>1, <1>3, <1>4, ScanIsAPass, RetargetFixes

\* And where nothing is in reach and nothing hidden, nothing is found.
LEMMA ScanIsQuiet ==
    ASSUME NEW r \in ResponseRecords, NEW from, NEW to \in Spaces, to \notin from,
           \A m \in r.text : m.space \in from => m.place # "hidden",
           r.attachment \/ \A m \in r.text : ~(m.space \in from /\ m.place \in Reach(r))
    PROVE  ~OriginsIn(r, from, to)
<1>1. Scanned(r) \subseteq r.text /\ r.text \in SUBSET Mentions
  BY DEF Scanned, ResponseRecords
<1>2. ~Hides(Scanned(r), from)
  BY <1>1 DEF Hides
<1>3. ~r.attachment => ApplyLikeTheProxy(Scanned(r), r, from, to) = Scanned(r)
  <2> SUFFICES ASSUME ~r.attachment
               PROVE  ApplyLikeTheProxy(Scanned(r), r, from, to) = Scanned(r)
    OBVIOUS
  <2>1. Scanned(r) \in SUBSET Mentions
    BY <1>1
  <2>2. \A m \in Scanned(r) : ~(m.space \in from /\ m.place \in Reach(r))
    BY <1>1
  <2>3. Retarget(Scanned(r), from, to, Reach(r)) = Scanned(r)
    BY <2>1, <2>2, RetargetFixes
  <2> QED
    BY <2>1, <2>3, ScanIsAPass
<1> QED
  BY <1>2, <1>3 DEF OriginsIn

-----------------------------------------------------------------------------
(* What a run knows of the site. *)

Fetched(o, p, g) ==
  /\ g.canon \in Answers
  /\ g.behind \in Answers
  /\ g.fault \in Faults
  /\ g.variant = ThroughProxy(o, p, Failing(g.behind, g.fault))

\* Of its pages as they were at the start, a site keeps which of them break off.
Site ==
  /\ dep \in Deployments
  /\ app \in [Paths -> Answers]
  /\ \A p \in Paths : app[p].r.cut = dep.app[p].r.cut
  /\ canon # None => canon.path \in Paths /\ canon.answer \in Answers

\* The rows are the comparisons of what was fetched.
Rows ==
  /\ DOMAIN results = DOMAIN got /\ DOMAIN got \subseteq Paths
  /\ \A p \in DOMAIN got :
       /\ Fetched(dep, p, got[p])
       /\ results[p] = Compare(dep, p, got[p].canon, got[p].variant)

\* And the verdict is about all of them.
Reported ==
  IF phase = "reported"
  THEN verdict = Verdict({results[p] : p \in DOMAIN results}) /\ Compared = Len(out)
  ELSE verdict = "none"

Inv == Site /\ Rows /\ Reported

LEMMA Deployed ==
    ASSUME NEW d \in Deployments
    PROVE  d.app \in [Paths -> Answers] /\ d.cfg \in Configs /\ d.inPath \in BOOLEAN
BY DeploymentsAssumption DEF DeploymentsAssumption

LEMMA EditKeepsSite ==
    ASSUME Site, NEW p \in Paths, NEW a \in dep.edits, Edit(p, a)
    PROVE  app' \in [Paths -> Answers] /\ \A o \in Paths : app'[o].r.cut = app[o].r.cut
<1> DEFINE r == [a.r EXCEPT !.cut = app[p].r.cut]
           b == [a EXCEPT !.r = r]
<1>1. a \in Answers /\ app[p] \in Answers
  BY DeploymentsAssumption DEF Site, DeploymentsAssumption
<1>2. a.r \in Responses /\ app[p].r.cut \in BOOLEAN
  BY <1>1 DEF Answers, Responses, ResponseRecords
<1>3. r \in Responses /\ r.cut = app[p].r.cut
  BY <1>2 DEF Responses, ResponseRecords
<1>4. app' = [app EXCEPT ![p] = b]
  BY DEF Edit, Site
<1> HIDE DEF r
<1>5. b \in Answers /\ b.r = r
  BY <1>1, <1>3 DEF Answers
<1> HIDE DEF b
<1> QED
  BY <1>3, <1>4, <1>5 DEF Site

LEMMA InvInit == Init => Inv
<1> SUFFICES ASSUME Init PROVE Inv
  OBVIOUS
<1>1. dep \in Deployments /\ app = dep.app /\ canon = None
  BY DEF Init
<1>2. app \in [Paths -> Answers]
  BY <1>1, Deployed
<1>4. Rows
  BY DEF Init, Rows
<1>5. Reported
  BY DEF Init, Reported
<1> QED
  BY <1>1, <1>2, <1>4, <1>5 DEF Inv, Site

LEMMA InvNext == Inv /\ [Next]_vars => Inv'
<1> SUFFICES ASSUME Inv, [Next]_vars PROVE Inv'
  OBVIOUS
<1>1. ASSUME UNCHANGED <<dep, results, got>> PROVE Rows'
  BY <1>1 DEF Inv, Rows
<1>2. ASSUME UNCHANGED <<phase, results, verdict, out>> PROVE Reported'
  BY <1>2 DEF Inv, Reported, Compared
<1>3. ASSUME NEW p \in Paths, NEW a \in dep.edits, Edit(p, a) PROVE Inv'
  <2>1. UNCHANGED <<dep, phase, results, got, verdict, out, canon>>
    BY <1>3 DEF Edit
  <2>2. Site'
    BY <1>3, <2>1, EditKeepsSite DEF Inv, Site
  <2> QED
    BY <1>1, <1>2, <2>1, <2>2 DEF Inv
<1>4. ASSUME CrawlPage \/ CrawlAsset \/ CrawlEnds PROVE Inv'
  <2>1. /\ UNCHANGED <<dep, app, canon, results, got, verdict>>
        /\ phase = "crawling" /\ phase' \in {"crawling", "comparing"}
    BY <1>4 DEF CrawlPage, CrawlAsset, CrawlEnds, Follow
  <2>2. Site' /\ Reported'
    BY <2>1 DEF Inv, Site, Reported
  <2> QED
    BY <1>1, <2>1, <2>2 DEF Inv
<1>5. ASSUME NEW p \in Paths, FetchCanonical(p) PROVE Inv'
  <2>1. Site'
    BY <1>5 DEF FetchCanonical, Inv, Site
  <2>2. UNCHANGED <<dep, phase, results, got, verdict, out>>
    BY <1>5 DEF FetchCanonical
  <2> QED
    BY <1>1, <1>2, <2>1, <2>2 DEF Inv
<1>6. ASSUME NEW f \in Faults, FetchVariant(f) PROVE Inv'
  <2> DEFINE p == canon.path
             v == ThroughProxy(dep, p, Failing(app[p], f))
             g == [canon |-> canon.answer, behind |-> app[p], variant |-> v, fault |-> f]
             row == Compare(dep, p, canon.answer, v)
  <2>1. /\ UNCHANGED <<dep, app, phase, verdict, out>>
        /\ phase = "comparing" /\ canon # None /\ canon' = None
        /\ results' = [q \in DOMAIN results \cup {p} |-> IF q = p THEN row ELSE results[q]]
        /\ got' = [q \in DOMAIN got \cup {p} |-> IF q = p THEN g ELSE got[q]]
    BY <1>6 DEF FetchVariant
  <2>2. p \in Paths /\ Fetched(dep, p, g)
    BY <2>1 DEF Inv, Site, Fetched
  <2>3. g.canon = canon.answer /\ g.variant = v
    OBVIOUS
  <2> HIDE DEF g, v, p
  <2>4. Rows'
    BY <2>1, <2>2, <2>3 DEF Inv, Rows
  <2>5. Site' /\ Reported'
    BY <2>1 DEF Inv, Site, Reported
  <2> QED
    BY <2>4, <2>5 DEF Inv
<1>7. ASSUME Report PROVE Inv'
  <2>1. UNCHANGED <<dep, app, canon, results, got, out>>
    BY <1>7 DEF Report
  <2>2. Site'
    BY <2>1 DEF Inv, Site
  <2>3. Reported'
    BY <1>7, <2>1 DEF Report, Reported, Compared
  <2> QED
    BY <1>1, <2>1, <2>2, <2>3 DEF Inv
<1>8. CASE UNCHANGED vars
  <2>1. Site'
    BY <1>8 DEF vars, Inv, Site
  <2> QED
    BY <1>1, <1>2, <1>8, <2>1 DEF vars, Inv
<1> QED
  BY <1>3, <1>4, <1>5, <1>6, <1>7, <1>8 DEF Next

LEMMA InvHolds == Spec => []Inv
BY InvInit, InvNext, PTL DEF Spec

-----------------------------------------------------------------------------
(* Green. *)

LEMMA AskedIsRequest ==
    ASSUME NEW o \in Deployments, NEW p \in Paths
    PROVE  /\ Asked(o, p) \in Requests /\ ~Asked(o, p).gzip /\ Asked(o, p).method = "GET"
           /\ Asked(o, p).url = [space |-> o.cfg.variant, path |-> p]
<1>1. o.cfg.variant \in Spaces
  BY Deployed DEF Configs
<1>2. [space |-> o.cfg.variant, path |-> p] \in URLs
  BY <1>1 DEF URLs
<1> QED
  BY <1>2 DEF Asked, Requests, Methods, Kinds

\* What comes back is a response with a size.
LEMMA VariantTyped ==
    ASSUME NEW o \in Deployments, NEW p \in Paths, NEW g, Fetched(o, p, g)
    PROVE  g.variant.r \in ResponseRecords /\ g.variant.bytes \in Nat /\ g.variant.lines \in Nat
<1> DEFINE a == Failing(g.behind, g.fault)
<1>1. Plain("502") \in Responses /\ Plain("404") \in ResponseRecords
      /\ Plain("502") \in ResponseRecords
  BY DEF Plain, Responses, ResponseRecords, Types, Bodies, Codings, Statuses
<1>2. a \in Answers
  <2>1. g.behind \in Answers /\ g.behind.r \in Responses
    BY DEF Fetched, Answers
  <2>2. [g.behind.r EXCEPT !.cut = TRUE] \in Responses
    BY <2>1 DEF Responses, ResponseRecords
  <2> DEFINE cut == [g.behind.r EXCEPT !.cut = TRUE]
             l == g.behind.lines \div 2
             b == g.behind.bytes \div 2
  <2>3. l \in Nat /\ b \in Nat
    BY <2>1 DEF Answers
  <2>4. \/ a = g.behind
        \/ a = [g.behind EXCEPT !.r = Plain("502")]
        \/ a = [g.behind EXCEPT !.r = cut]
        \/ a = [g.behind EXCEPT !.lines = l, !.bytes = b]
    BY <2>1 DEF Failing, Fetched, Faults, Answers
  <2> HIDE DEF a, cut, l, b
  <2> QED
    BY <1>1, <2>1, <2>2, <2>3, <2>4 DEF Answers, cut
<1> HIDE DEF a
<1>3. ModifyResponse(o.cfg, Asked(o, p), a.r).resp \in ResponseRecords
  <2>1. a.r \in Responses /\ o.cfg \in Configs
    BY <1>2, Deployed DEF Answers
  <2> QED
    BY <1>1, <2>1, AskedIsRequest, ModifyResponseOutcome
<1>4. g.variant = IF o.inPath THEN [a EXCEPT !.r = ModifyResponse(o.cfg, Asked(o, p), @).resp] ELSE a
  BY DEF Fetched, ThroughProxy, a
<1> QED
  BY <1>2, <1>3, <1>4 DEF Answers, Responses

\* What a row that is not red says of the two answers.
LEMMA GreenRow ==
    ASSUME NEW o \in Deployments, o.cfg.variant \in Others, NEW p \in Paths, NEW g,
           Fetched(o, p, g), ~Red(Compare(o, p, g.canon, g.variant))
    PROVE  LET c == g.canon
               v == g.variant
           IN  /\ ~Exposed(v.r, CanonicalSet)
               /\ ~Exposed(c.r, {o.cfg.variant})
               /\ v.r.status \in Redirects /\ v.r.location # None
                  /\ v.r.location.space \in CanonicalSet
                    => SelfRedirect(o.cfg, Asked(o, p), v.r) /\ ~o.strict
               /\ ~c.r.cut /\ ~v.r.cut /\ c.r.status = v.r.status
               /\ 4 * v.bytes >= 3 * c.bytes
<1> DEFINE c == g.canon
           v == g.variant
           row == Compare(o, p, c, v)
<1>1. /\ o.cfg \in Configs /\ o.cfg.variant \in Spaces /\ o.cfg.variant \notin CanonicalSet
      /\ Canon \in Spaces /\ Canon \notin {o.cfg.variant}
  BY Deployed, SpacesAssumption DEF Configs, SpacesAssumption, Spaces, CanonicalSet
<1>2. /\ c.r \in ResponseRecords /\ c.bytes \in Nat
      /\ v.r \in ResponseRecords /\ v.bytes \in Nat
  BY VariantTyped DEF Fetched, Answers, Responses
<1> HIDE DEF c, v
<1>3. ~Mismatch(o, p, c, v)
  BY DEF Compare, Red, Failed, c, v
<1>4. /\ ~OriginsIn(v.r, CanonicalSet, o.cfg.variant)
      /\ ~OriginsIn(c.r, {o.cfg.variant}, Canon)
      /\ ~(Apart(<<c.bytes, v.bytes>>) * 4 > c.bytes)
  BY <1>3 DEF Compare, Red, AnotherDocument, c, v
<1>5. ~Exposed(v.r, CanonicalSet) /\ ~Exposed(c.r, {o.cfg.variant})
  BY <1>1, <1>2, <1>4, ScanFinds
<1>6. 4 * v.bytes >= 3 * c.bytes
  BY <1>2, <1>4 DEF Apart
<1>7. ASSUME v.r.status \in Redirects, v.r.location # None, v.r.location.space \in CanonicalSet
      PROVE  SelfRedirect(o.cfg, Asked(o, p), v.r) /\ ~o.strict
  <2>1. v.r.location # (IF c.r.location = None THEN None ELSE ToVariant(o.cfg, c.r.location))
    <3>1. c.r.location # None => c.r.location \in URLs
      BY <1>2 DEF ResponseRecords
    <3>2. c.r.location # None => ToVariant(o.cfg, c.r.location).space \notin CanonicalSet
      BY <1>1, <3>1, ToVariantMaps
    <3> QED
      BY <1>7, <3>2
  <2>2. UnchangedSelfRedirect(o, p, c.r, v.r)
    BY <1>3, <1>7, <2>1 DEF Mismatch
  <2> QED
    BY <1>7, <2>2, AskedIsRequest DEF UnchangedSelfRedirect, RedirectsToItself, SelfRedirect, Safe
<1>8. ~c.r.cut /\ ~v.r.cut /\ c.r.status = v.r.status
  BY <1>3 DEF Mismatch
<1> QED
  BY <1>5, <1>6, <1>7, <1>8 DEF c, v

\* A green verdict is true of everything that was fetched for it, whatever was
\* edited and whatever failed in between: WriteReport's verdict over compare's
\* rows and countLeaks' scans.
THEOREM GreenIsSound == ASSUME WorktreeProxies PROVE Spec => []SoundGreen
<1>1. Inv => SoundGreen
  <2> SUFFICES ASSUME Inv, Green PROVE SoundGreen
    BY DEF SoundGreen
  <2> DEFINE all == {results[p] : p \in DOMAIN results}
  <2>1. all # {} /\ \A x \in all : ~Red(x)
    BY DEF Inv, Reported, Verdict, Green
  <2>2. DOMAIN got # {} /\ \A p \in DOMAIN got : ~Red(Compare(dep, p, got[p].canon, got[p].variant))
    BY <2>1 DEF Inv, Rows
  <2>3. ASSUME NEW p \in DOMAIN got
        PROVE  /\ dep \in Deployments /\ dep.cfg.variant \in Others /\ p \in Paths
               /\ Fetched(dep, p, got[p])
    BY DEF Inv, Rows, Site, WorktreeProxies
  <2> QED
    BY <2>2, <2>3, GreenRow DEF SoundGreen, Ours
<1> QED
  BY <1>1, InvHolds, PTL

-----------------------------------------------------------------------------
(* Red. *)

\* What Healthy asks of one path.
Sound(o, p, g) ==
  LET a == g.behind.r
  IN  /\ g.fault = "none" /\ ~a.cut /\ ~g.canon.r.cut /\ ~a.big
      /\ Kept(g.canon, g.behind)
      /\ a.encoding = "identity" /\ a.status # "206"
      /\ g.behind.bytes > 0 \/ a.location # None
      /\ ~Hides(a.text, CanonicalSet)
      /\ \A m \in g.canon.r.text : m.space # o.cfg.variant
      /\ ~(o.cfg.strict /\ SelfRedirect(o.cfg, Asked(o, p), a))

LEMMA HealthyRow ==
    ASSUME NEW o \in Deployments, o.cfg.variant \in Others, NEW p \in Paths, NEW g,
           o.inPath, Live(o.cfg), o.strict => o.cfg.strict,
           Fetched(o, p, g), Sound(o, p, g)
    PROVE  ~Red(Compare(o, p, g.canon, g.variant))
<1> DEFINE q == Asked(o, p)
           a == g.behind.r
           c == g.canon
           v == g.variant
<1>1. /\ o.cfg \in Configs /\ o.cfg.variant \in Spaces /\ o.cfg.variant \notin CanonicalSet
      /\ Canon \in Spaces /\ Canon \notin {o.cfg.variant} /\ ~Identity(o.cfg)
  BY Deployed, SpacesAssumption DEF Configs, SpacesAssumption, Spaces, CanonicalSet, Identity
<1>2. /\ a \in Responses /\ a \in ResponseRecords /\ c.r \in ResponseRecords
      /\ v.r \in ResponseRecords
      /\ c.bytes \in Nat /\ c.lines \in Nat
  BY VariantTyped DEF Fetched, Answers, Responses
<1>3. /\ ~c.r.cut /\ c.r.status = a.status /\ c.r.location = a.location
      /\ g.behind.lines \in Nat /\ g.behind.bytes \in Nat
      /\ g.behind.lines \in c.lines - 8 .. c.lines + 8
      /\ 4 * g.behind.lines \in 3 * c.lines .. 5 * c.lines
      /\ 4 * g.behind.bytes \in 3 * c.bytes .. 5 * c.bytes
  BY DEF Sound, Kept, Fetched, Answers
<1>4. /\ v.r = ModifyResponse(o.cfg, q, a).resp
      /\ v.bytes = g.behind.bytes /\ v.lines = g.behind.lines
  <2>1. v = [g.behind EXCEPT !.r = ModifyResponse(o.cfg, q, a).resp]
    BY DEF Fetched, Sound, Failing, ThroughProxy
  <2>2. g.behind \in Answers
    BY DEF Fetched
  <2> QED
    BY <2>1, <2>2 DEF Answers
<1>5. Readable(o.cfg, q, a)
  BY DEF Sound, Readable, Blanked
<1>6. /\ Shaped(v.r, a)
      /\ v.r.text = IF a.attachment THEN a.text
                    ELSE ApplyLikeTheProxy(a.text, a, CanonicalSet, o.cfg.variant)
      /\ v.r.location = IF SelfRedirect(o.cfg, q, a) \/ a.location = None THEN a.location
                        ELSE ToVariant(o.cfg, a.location)
  <2>1. q \in Requests /\ ~q.gzip
    BY <1>1, AskedIsRequest
  <2> HIDE DEF q, a, v
  <2>2. LET x == ModifyResponse(o.cfg, q, a)
        IN  /\ Shaped(x.resp, a)
            /\ x.resp.text = IF a.attachment THEN a.text
                             ELSE ApplyLikeTheProxy(a.text, a, CanonicalSet, o.cfg.variant)
            /\ x.resp.location = IF SelfRedirect(o.cfg, q, a) \/ a.location = None
                                 THEN a.location ELSE ToVariant(o.cfg, a.location)
    BY <1>1, <1>2, <1>5, <2>1, DispatchesAgree
  <2> QED
    BY <1>4, <2>2
<1>7. ~a.cut /\ (v.bytes > 0 \/ a.location # None)
      /\ (SelfRedirect(o.cfg, q, a) => ~o.strict)
  BY <1>4 DEF Sound
<1>8. \A m \in c.r.text : m.space # o.cfg.variant
  BY DEF Sound
<1>9. \A m \in a.text : m.space \in CanonicalSet => m.place # "hidden"
  BY DEF Sound, Hides
<1> HIDE DEF a, c, v
<1>10. ~Mismatch(o, p, c, v)
  <2>1. ~c.r.cut /\ ~v.r.cut /\ c.r.status = v.r.status
    BY <1>3, <1>6, <1>7 DEF Shaped
  <2>2. ASSUME SelfRedirect(o.cfg, q, a)
        PROVE  UnchangedSelfRedirect(o, p, c.r, v.r)
    BY <1>3, <1>6, <1>7, <2>2, AskedIsRequest
       DEF SelfRedirect, UnchangedSelfRedirect, RedirectsToItself
  <2>3. ~(c.bytes = 0 /\ v.bytes = 0 /\ c.r.location = None)
    BY <1>2, <1>3, <1>7
  <2> QED
    BY <1>3, <1>6, <2>1, <2>2, <2>3 DEF Mismatch
<1>11. ~OriginsIn(v.r, CanonicalSet, o.cfg.variant)
  <2>1. a.text \in SUBSET Mentions /\ Reach(v.r) = Reach(a) /\ v.r.attachment = a.attachment
    BY <1>2, <1>6 DEF ResponseRecords, Shaped, Reach, Unparsed
  <2>2. v.r.text = IF a.attachment THEN a.text
                   ELSE Retarget(a.text, CanonicalSet, o.cfg.variant, Reach(a))
    BY <1>1, <1>2, <1>6, <2>1, ScanIsAPass
  <2>3. \A m \in v.r.text : m.space \in CanonicalSet => m.place # "hidden"
    BY <1>1, <1>9, <2>1, <2>2, RetargetMention
  <2>4. a.attachment \/ \A m \in v.r.text : ~(m.space \in CanonicalSet /\ m.place \in Reach(v.r))
    BY <1>1, <2>1, <2>2, RetargetFixes
  <2> QED
    BY <1>1, <1>2, <2>1, <2>3, <2>4, ScanIsQuiet
<1>12. ~OriginsIn(c.r, {o.cfg.variant}, Canon)
  BY <1>1, <1>2, <1>8, ScanIsQuiet
<1> DEFINE row == Compare(o, p, c, v)
<1>13. /\ ~row.err /\ ~row.leaks /\ ~row.writeBacks
       /\ row.lines = <<c.lines, v.lines>> /\ row.bytes = <<c.bytes, v.bytes>>
  BY <1>10, <1>11, <1>12 DEF Compare
<1> HIDE DEF row
<1>14. ~AnotherDocument(row)
  <2>1. ~(Apart(row.lines) > 8) /\ ~(Apart(row.lines) * 4 > row.lines[1])
    BY <1>2, <1>3, <1>4, <1>13 DEF Apart
  <2>2. ~(Apart(row.bytes) * 4 > row.bytes[1])
    BY <1>2, <1>3, <1>4, <1>13 DEF Apart
  <2> QED
    BY <2>1, <2>2 DEF AnotherDocument, hostDependentLines
<1> QED
  BY <1>13, <1>14 DEF Red, row, c, v

\* WriteReport does not call a deployment red that has nothing wrong in it, whatever
\* its pages become while they are not being compared, and as long as between the two
\* fetches of one page status and Location stay and the size keeps within the bounds
\* of Kept: a verdict that cried wolf would stop being read.
THEOREM HealthIsGreen == ASSUME WorktreeProxies PROVE Spec => []HealthyIsGreen
<1>1. Inv => HealthyIsGreen
  <2> SUFFICES ASSUME Inv, verdict = "red", Healthy, Len(out) # 0
               PROVE  FALSE
    BY DEF HealthyIsGreen
  <2> DEFINE all == {results[p] : p \in DOMAIN results}
  <2>1. Verdict(all) = "red" /\ Compared = Len(out)
    BY DEF Inv, Reported
  <2>2. all # {}
    BY <2>1, FS_EmptySet DEF Compared
  <2>3. PICK p \in DOMAIN got : Red(Compare(dep, p, got[p].canon, got[p].variant))
    BY <2>1, <2>2 DEF Verdict, Inv, Rows
  <2>4. /\ dep \in Deployments /\ dep.cfg.variant \in Others /\ p \in Paths
        /\ Fetched(dep, p, got[p])
    BY DEF Inv, Rows, Site, WorktreeProxies
  <2>5. /\ dep.inPath /\ Live(dep.cfg) /\ (dep.strict => dep.cfg.strict)
        /\ Sound(dep, p, got[p])
    BY DEF Healthy, Live, Sound
  <2> QED
    BY <2>3, <2>4, <2>5, HealthyRow
<1> QED
  BY <1>1, InvHolds, PTL

-----------------------------------------------------------------------------
(* Lists of paths. *)

\* Induction over the naturals, for the members of a set.
LEMMA Inductive ==
    ASSUME NEW T, 0 \in T, \A i \in Nat : i \in T => i + 1 \in T
    PROVE  \A i \in Nat : i \in T
<1> DEFINE U == {i \in Nat : i \notin T}
<1>1. ASSUME U # {} PROVE FALSE
  <2>1. PICK k \in U : \A j \in U : <<j, k>> \notin OpToRel(<, Nat)
    BY <1>1, WFMin, NatLessThanWellFounded, Zenon
  <2>2. \A j \in U : ~(j < k)
    BY <2>1, Zenon DEF OpToRel
  <2>3. k \in Nat /\ k \notin T /\ k # 0
    BY <2>1
  <2>4. k - 1 \in Nat /\ k - 1 < k
    BY <2>3
  <2>5. k - 1 \in T
    BY <2>2, <2>4
  <2>6. (k - 1) + 1 \in T
    BY <2>4, <2>5
  <2> QED
    BY <2>3, <2>6
<1> QED
  BY <1>1

\* A list that names nothing twice, and what it names.
Enumerates(s, T) == s \in Seq(T) /\ IsInjective(s) /\ ToSet(s) = T

\* The empty list enumerates nothing, and nothing else does.
LEMMA NoList ==
    ASSUME NEW T
    PROVE  Enumerates(<<>>, {}) /\ (Enumerates(<<>>, T) => T = {})
<1>1. <<>> \in Seq({}) /\ DOMAIN <<>> = {}
  OBVIOUS
<1> QED
  BY <1>1 DEF Enumerates, ToSet, IsInjective

\* One more at the end.
LEMMA ListAppend ==
    ASSUME NEW T, NEW s, Enumerates(s, T), NEW x, x \notin T
    PROVE  Enumerates(Append(s, x), T \cup {x}) /\ Len(Append(s, x)) = Len(s) + 1
<1> DEFINE t == Append(s, x)
<1>1. s \in Seq(T \cup {x}) /\ Len(s) \in Nat
  BY DEF Enumerates
<1>2. /\ t \in Seq(T \cup {x}) /\ Len(t) = Len(s) + 1
      /\ \A i \in 1..Len(s) : t[i] = s[i]
      /\ t[Len(s) + 1] = x
  BY <1>1, AppendProperties
<1>3. \A i \in 1..Len(s) : s[i] \in T
  BY DEF Enumerates
<1>4. DOMAIN t = 1..(Len(s) + 1) /\ DOMAIN s = 1..Len(s)
  BY <1>1, <1>2
<1> HIDE DEF t
<1>5. IsInjective(t)
  BY <1>1, <1>2, <1>3, <1>4 DEF Enumerates, IsInjective
<1>6. ToSet(t) = T \cup {x}
  <2>1. \A i \in DOMAIN t : t[i] \in T \cup {x}
    BY <1>1, <1>2, <1>3, <1>4
  <2>2. ASSUME NEW y \in T PROVE \E i \in DOMAIN t : t[i] = y
    <3>1. PICK i \in DOMAIN s : s[i] = y
      BY <2>2 DEF Enumerates, ToSet
    <3> QED
      BY <3>1, <1>1, <1>2, <1>4
  <2>3. Len(s) + 1 \in DOMAIN t
    BY <1>1, <1>4
  <2> QED
    BY <2>1, <2>2, <2>3, <1>2 DEF ToSet
<1> QED
  BY <1>2, <1>5, <1>6 DEF Enumerates, t

\* One list after another.
LEMMA ListJoin ==
    ASSUME NEW S, NEW T, NEW s, NEW t, Enumerates(s, S), Enumerates(t, T), S \cap T = {}
    PROVE  Enumerates(s \o t, S \cup T)
<1> DEFINE u == s \o t
<1>1. s \in Seq(S \cup T) /\ t \in Seq(S \cup T) /\ Len(s) \in Nat /\ Len(t) \in Nat
  BY DEF Enumerates
<1>2. /\ u \in Seq(S \cup T) /\ Len(u) = Len(s) + Len(t)
      /\ \A i \in 1..Len(u) : u[i] = IF i <= Len(s) THEN s[i] ELSE t[i - Len(s)]
  BY <1>1, ConcatProperties
<1>3. DOMAIN s = 1..Len(s) /\ DOMAIN t = 1..Len(t) /\ DOMAIN u = 1..(Len(s) + Len(t))
  BY <1>1, <1>2
<1>4. (\A i \in 1..Len(s) : s[i] \in S) /\ (\A i \in 1..Len(t) : t[i] \in T)
  BY DEF Enumerates
<1> HIDE DEF u
<1>5. \A i \in DOMAIN u : \/ i \in 1..Len(s) /\ u[i] = s[i] /\ u[i] \in S
                          \/ i - Len(s) \in 1..Len(t) /\ u[i] = t[i - Len(s)] /\ u[i] \in T
  BY <1>1, <1>2, <1>3, <1>4
<1>6. IsInjective(u)
  <2> SUFFICES ASSUME NEW i \in DOMAIN u, NEW j \in DOMAIN u, u[i] = u[j] PROVE i = j
    BY DEF IsInjective
  <2>1. CASE u[i] \in S
    <3>1. i \in 1..Len(s) /\ j \in 1..Len(s) /\ s[i] = s[j]
      BY <2>1, <1>5
    <3> QED
      BY <3>1, <1>3 DEF Enumerates, IsInjective
  <2>2. CASE u[i] \notin S
    <3>1. /\ i - Len(s) \in 1..Len(t) /\ j - Len(s) \in 1..Len(t)
          /\ t[i - Len(s)] = t[j - Len(s)]
      BY <2>2, <1>5
    <3>2. i - Len(s) = j - Len(s)
      BY <3>1, <1>3 DEF Enumerates, IsInjective
    <3> QED
      BY <3>2, <1>1, <1>3
  <2> QED
    BY <2>1, <2>2
<1>7. ToSet(u) = S \cup T
  <2>1. \A i \in DOMAIN u : u[i] \in S \cup T
    BY <1>5
  <2>2. ASSUME NEW y \in S PROVE \E i \in DOMAIN u : u[i] = y
    <3>1. PICK i \in DOMAIN s : s[i] = y
      BY <2>2 DEF Enumerates, ToSet
    <3> QED
      BY <3>1, <1>1, <1>2, <1>3
  <2>3. ASSUME NEW y \in T PROVE \E i \in DOMAIN u : u[i] = y
    <3>1. PICK i \in DOMAIN t : t[i] = y
      BY <2>3 DEF Enumerates, ToSet
    <3>2. i + Len(s) \in DOMAIN u /\ ~(i + Len(s) <= Len(s)) /\ (i + Len(s)) - Len(s) = i
      BY <3>1, <1>1, <1>3
    <3> QED
      BY <3>1, <3>2, <1>2, <1>3
  <2> QED
    BY <2>1, <2>2, <2>3 DEF ToSet
<1> QED
  BY <1>2, <1>6, <1>7 DEF Enumerates, u

\* One less at the front.
LEMMA ListTail ==
    ASSUME NEW T, NEW s, Enumerates(s, T), s # <<>>
    PROVE  Head(s) \in T /\ Enumerates(Tail(s), T \ {Head(s)})
<1> DEFINE t == Tail(s)
<1>1. s \in Seq(T) /\ Len(s) \in Nat \ {0} /\ DOMAIN s = 1..Len(s)
  BY DEF Enumerates
<1>2. /\ Head(s) = s[1] /\ s[1] \in T
      /\ t \in Seq(T) /\ Len(t) = Len(s) - 1 /\ \A i \in 1..Len(t) : t[i] = s[i + 1]
  BY <1>1, HeadTailProperties
<1>3. DOMAIN t = 1..(Len(s) - 1)
  BY <1>1, <1>2
<1> HIDE DEF t
<1>4. \A i \in DOMAIN t : i + 1 \in DOMAIN s /\ i + 1 # 1 /\ t[i] = s[i + 1]
  BY <1>1, <1>2, <1>3
<1>5. \A i, j \in DOMAIN s : s[i] = s[j] => i = j
  BY DEF Enumerates, IsInjective
<1>6. IsInjective(t)
  <2> SUFFICES ASSUME NEW i \in DOMAIN t, NEW j \in DOMAIN t, t[i] = t[j] PROVE i = j
    BY DEF IsInjective
  <2>1. i + 1 = j + 1
    BY <1>4, <1>5
  <2> QED
    BY <2>1, <1>1, <1>3
<1>7. ToSet(t) = T \ {s[1]}
  <2>1. \A i \in DOMAIN t : t[i] \in T \ {s[1]}
    <3> TAKE i \in DOMAIN t
    <3>1. i + 1 \in DOMAIN s /\ 1 \in DOMAIN s /\ i + 1 # 1 /\ t[i] = s[i + 1]
      BY <1>1, <1>4
    <3> QED
      BY <3>1, <1>1, <1>5
  <2>2. ASSUME NEW y \in T \ {s[1]} PROVE \E i \in DOMAIN t : t[i] = y
    <3>1. PICK i \in DOMAIN s : s[i] = y
      BY <2>2 DEF Enumerates, ToSet
    <3>2. i - 1 \in DOMAIN t /\ (i - 1) + 1 = i
      BY <2>2, <3>1, <1>1, <1>3
    <3> QED
      BY <3>1, <3>2, <1>4
  <2> QED
    BY <2>1, <2>2 DEF ToSet
<1>8. t \in Seq(T \ {s[1]})
  <2>1. t = [i \in 1..Len(t) |-> t[i]] /\ \A i \in 1..Len(t) : t[i] \in T \ {s[1]}
    BY <1>2, <1>7 DEF ToSet
  <2> QED
    BY <2>1, <1>2, IsASeq
<1> QED
  BY <1>2, <1>6, <1>7, <1>8 DEF Enumerates, t

\* A list is as long as what it names is large.
LEMMA ListSize ==
    ASSUME NEW T, NEW s, Enumerates(s, T)
    PROVE  Cardinality(T) = Len(s)
<1>1. s \in [1..Len(s) -> T] /\ Len(s) \in Nat
  BY DEF Enumerates
<1>2. \A i, j \in 1..Len(s) : s[i] = s[j] => i = j
  BY <1>1 DEF Enumerates, IsInjective
<1>3. \A y \in T : \E i \in 1..Len(s) : s[i] = y
  BY <1>1 DEF Enumerates, ToSet
<1>4. s \in Bijection(1..Len(s), T)
  BY <1>1, <1>2, <1>3 DEF Bijection, Injection, Surjection, IsInjective
<1>5. ExistsBijection(1..Len(s), T)
  BY <1>4 DEF ExistsBijection
<1> QED
  BY <1>1, <1>5, FS_CountingElements


\* One more member of a list has been looked at.
Taking(list, wanted, i, taken) ==
  IF list[i] \in wanted \ ToSet(taken) THEN Append(taken, list[i]) ELSE taken

\* f is what Firsts knows of a list, as far as its n-th member.
Picks(f, list, wanted, n) ==
  f = [i \in 0..n |-> IF i = 0 THEN <<>> ELSE Taking(list, wanted, i, f[i - 1])]

\* Every list can be gone through, as far as one likes.
LEMMA PicksExists ==
    ASSUME NEW list, NEW wanted
    PROVE  \A n \in Nat : \E f : Picks(f, list, wanted, n)
<1> DEFINE Has(n) == \E f : Picks(f, list, wanted, n)
           T == {n \in Nat : Has(n)}
<1>1. Has(0)
  <2> DEFINE f == [i \in 0..0 |-> <<>>]
  <2>1. \A i \in 0..0 : i = 0
    OBVIOUS
  <2>2. f = [i \in 0..0 |-> IF i = 0 THEN <<>> ELSE Taking(list, wanted, i, f[i - 1])]
    BY <2>1
  <2> QED
    BY <2>2 DEF Picks
<1>2. ASSUME NEW n \in Nat, Has(n) PROVE Has(n + 1)
  <2>1. PICK f : Picks(f, list, wanted, n)
    BY <1>2
  <2> DEFINE g == [i \in 0..(n + 1) |-> IF i = n + 1 THEN Taking(list, wanted, i, f[n]) ELSE f[i]]
  <2>2. /\ \A i \in 0..n : g[i] = f[i]
        /\ g[n + 1] = Taking(list, wanted, n + 1, f[n])
        /\ g = [i \in 0..(n + 1) |-> g[i]]
    OBVIOUS
  <2>3. \A i \in 0..n : f[i] = IF i = 0 THEN <<>> ELSE Taking(list, wanted, i, f[i - 1])
    BY <2>1 DEF Picks
  <2> HIDE DEF g
  <2>4. \A i \in 0..(n + 1) : g[i] = IF i = 0 THEN <<>> ELSE Taking(list, wanted, i, g[i - 1])
    <3> TAKE i \in 0..(n + 1)
    <3>1. CASE i = 0
      <4>1. i \in 0..n
        BY <3>1
      <4> QED
        BY <3>1, <4>1, <2>2, <2>3
    <3>2. CASE i \in 1..n
      <4>1. i \in 0..n /\ i - 1 \in 0..n /\ i # 0
        BY <3>2
      <4> QED
        BY <4>1, <2>2, <2>3
    <3>3. CASE i = n + 1
      <4>1. i - 1 = n /\ n \in 0..n /\ i # 0
        BY <3>3
      <4> QED
        BY <3>3, <4>1, <2>2
    <3> QED
      BY <3>1, <3>2, <3>3
  <2>5. Picks(g, list, wanted, n + 1)
    BY <2>2, <2>4 DEF Picks
  <2> QED
    BY <2>5
<1> HIDE DEF Has
<1>3. 0 \in T /\ \A n \in Nat : n \in T => n + 1 \in T
  BY <1>1, <1>2
<1> HIDE DEF T
<1>4. \A n \in Nat : n \in T
  BY <1>3, Inductive
<1> QED
  BY <1>4 DEF Has, T

\* And that is what Firsts does, to the end.
LEMMA FirstsIs ==
    ASSUME NEW list, Len(list) \in Nat, NEW wanted
    PROVE  \E f : Picks(f, list, wanted, Len(list)) /\ Firsts(list, wanted) = f[Len(list)]
<1> DEFINE P(f) == f = [i \in 0..Len(list) |->
                          IF i = 0 THEN <<>>
                          ELSE LET taken == f[i - 1]
                               IN  IF list[i] \in wanted \ ToSet(taken)
                                   THEN Append(taken, list[i]) ELSE taken]
           c == CHOOSE f : P(f)
<1>1. \A f : Picks(f, list, wanted, Len(list)) <=> P(f)
  BY DEF Picks, Taking
<1>2. Firsts(list, wanted) = c[Len(list)]
  BY DEF Firsts
<1>3. \E f : P(f)
  BY <1>1, PicksExists
<1> HIDE DEF P
<1>4. P(c)
  BY <1>3, Zenon
<1> QED
  BY <1>1, <1>2, <1>4

\* Firsts names those members of a list that are wanted, each of them once.
LEMMA FirstsAre ==
    ASSUME NEW list, Len(list) \in Nat, NEW wanted
    PROVE  Enumerates(Firsts(list, wanted), {list[i] : i \in 1..Len(list)} \cap wanted)
<1> DEFINE Found(n) == {list[i] : i \in 1..n} \cap wanted
           n == Len(list)
<1>1. PICK f : Picks(f, list, wanted, n) /\ Firsts(list, wanted) = f[n]
  BY FirstsIs
<1>2. \A i \in 0..n : f[i] = IF i = 0 THEN <<>> ELSE Taking(list, wanted, i, f[i - 1])
  BY <1>1 DEF Picks
<1> DEFINE T == {k \in Nat : k <= n => Enumerates(f[k], Found(k))}
<1>3. 0 \in T
  <2>1. f[0] = <<>> /\ Found(0) = {}
    BY <1>2
  <2> HIDE DEF Found
  <2> QED
    BY <2>1, NoList
<1>4. ASSUME NEW k \in Nat, k \in T PROVE k + 1 \in T
  <2> SUFFICES ASSUME k + 1 <= n PROVE Enumerates(f[k + 1], Found(k + 1))
    OBVIOUS
  <2>1. Enumerates(f[k], Found(k))
    BY <1>4
  <2>2. f[k + 1] = Taking(list, wanted, k + 1, f[k])
    <3>1. k + 1 \in 0..n /\ k + 1 # 0 /\ (k + 1) - 1 = k
      OBVIOUS
    <3> QED
      BY <3>1, <1>2
  <2>3. Found(k + 1) = Found(k) \cup ({list[k + 1]} \cap wanted)
    OBVIOUS
  <2>4. ToSet(f[k]) = Found(k)
    BY <2>1 DEF Enumerates
  <2> HIDE DEF Found, T
  <2>5. CASE list[k + 1] \in wanted \ Found(k)
    <3>1. f[k + 1] = Append(f[k], list[k + 1])
      BY <2>2, <2>4, <2>5 DEF Taking
    <3>2. Found(k + 1) = Found(k) \cup {list[k + 1]}
      BY <2>3, <2>5
    <3> QED
      BY <3>1, <3>2, <2>1, <2>5, ListAppend
  <2>6. CASE list[k + 1] \notin wanted \ Found(k)
    <3>1. f[k + 1] = f[k]
      BY <2>2, <2>4, <2>6 DEF Taking
    <3>2. Found(k + 1) = Found(k)
      BY <2>3, <2>6
    <3> QED
      BY <3>1, <3>2, <2>1
  <2> QED
    BY <2>5, <2>6
<1> HIDE DEF T
<1>5. n \in T
  BY <1>3, <1>4, Inductive
<1> QED
  BY <1>1, <1>5 DEF T

\* What enqueue takes of the links of a page: its paths of the site that were
\* not known.
LEMMA FreshAre ==
    ASSUME NEW links \in Seq(URLs), NEW known
    PROVE  /\ Enumerates(Fresh(links, known), LinksOf(links) \ known)
           /\ LinksOf(links) \subseteq Paths
<1> DEFINE list == [i \in DOMAIN links |-> SameSite(links[i])]
<1>1. DOMAIN links = 1..Len(links) /\ Len(links) \in Nat
  OBVIOUS
<1>2. Len(list) = Len(links) /\ \A i \in 1..Len(links) : list[i] = SameSite(links[i])
  BY <1>1
<1>3. \A i \in 1..Len(links) : SameSite(links[i]) \in Paths \cup {None}
  <2> TAKE i \in 1..Len(links)
  <2>1. links[i] \in URLs
    BY <1>1, ElementOfSeq
  <2>2. links[i].path \in Paths
    BY <2>1 DEF URLs
  <2> QED
    BY <2>2 DEF SameSite
<1>4. Fresh(links, known) = Firsts(list, Paths \ known)
  BY DEF Fresh
<1> HIDE DEF list
<1>5. {list[i] : i \in 1..Len(list)} \cap (Paths \ known) = LinksOf(links) \ known
  BY <1>1, <1>2, <1>3, NamesAssumption DEF LinksOf, NamesAssumption
<1>6. LinksOf(links) \subseteq Paths
  BY <1>1, <1>3 DEF LinksOf
<1> QED
  BY <1>1, <1>2, <1>4, <1>5, <1>6, FirstsAre

-----------------------------------------------------------------------------
(* What a crawl knows of the site. *)

\* What was fetched and the two queues are apart, and what was seen is in one of
\* them: so no path is fetched twice, and none that was linked is forgotten.
\* Each queue holds what its kind of link named; only the path the crawl began at
\* was named by none.
Crawled ==
  /\ Enumerates(out, ToSet(out)) /\ Enumerates(queue, ToSet(queue))
  /\ Enumerates(subQueue, ToSet(subQueue))
  /\ ToSet(out) \cap ToSet(queue) = {}
  /\ ToSet(out) \cap ToSet(subQueue) = {}
  /\ ToSet(queue) \cap ToSet(subQueue) = {}
  /\ seen = ToSet(out) \cup ToSet(queue) \cup ToSet(subQueue)
  /\ seen \subseteq Paths
  /\ pages \in Nat /\ assets \in Nat /\ Len(out) = pages + assets
  /\ ToSet(queue) \subseteq Linked("docs") \cup {Home}
  /\ ToSet(subQueue) \subseteq Linked("subs")
  /\ Linked("docs") \cup Linked("subs") \subseteq seen
  /\ Home \in ToSet(out) \/ out = <<>>

CrawlInv == IF phase = "crawling" THEN Crawled ELSE NeitherStarved

\* A crawl begins with one path queued; a list that was given is no crawl.
LEMMA CrawlInit == ASSUME Init PROVE CrawlInv
<1>1. CASE phase = "crawling"
  <2>1. out = <<>> /\ queue = <<Home>> /\ subQueue = <<>> /\ seen = {Home} /\ pages = 0 /\ assets = 0
    <3>1. dep.paths = <<>>
      BY <1>1 DEF Init
    <3>2. Given(dep) = <<>>
      <4>1. dep.n \in Int /\ Len(<<>>) = 0
        BY DeploymentsAssumption DEF Init, DeploymentsAssumption
      <4> QED
        BY <3>1, <4>1 DEF Given
    <3> QED
      BY <3>2 DEF Init
  <2>2. Enumerates(<<>>, {}) /\ ToSet(<<>>) = {} /\ Len(<<>>) = 0
    BY NoList DEF Enumerates
  <2>3. Enumerates(<<Home>>, {Home}) /\ ToSet(<<Home>>) = {Home}
    <3>1. Append(<<>>, Home) = <<Home>> /\ {} \cup {Home} = {Home}
      OBVIOUS
    <3>2. Enumerates(Append(<<>>, Home), {} \cup {Home})
      BY <2>2, ListAppend
    <3> QED
      BY <3>1, <3>2 DEF Enumerates
  <2>4. Linked("docs") = {} /\ Linked("subs") = {}
    BY <2>1, <2>2 DEF Linked
  <2>5. Home \in Paths
    BY NamesAssumption DEF NamesAssumption
  <2>6. /\ ToSet(out) = {} /\ ToSet(queue) = {Home} /\ ToSet(subQueue) = {}
        /\ Enumerates(out, {}) /\ Enumerates(queue, {Home}) /\ Enumerates(subQueue, {})
        /\ Len(out) = 0
    BY <2>1, <2>2, <2>3
  <2>7. seen = {Home} /\ pages = 0 /\ assets = 0 /\ out = <<>>
    BY <2>1
  <2>8. Crawled
    <3>1. /\ Enumerates(out, ToSet(out)) /\ Enumerates(queue, ToSet(queue))
          /\ Enumerates(subQueue, ToSet(subQueue))
      BY <2>6
    <3>2. /\ ToSet(out) \cap ToSet(queue) = {} /\ ToSet(out) \cap ToSet(subQueue) = {}
          /\ ToSet(queue) \cap ToSet(subQueue) = {}
          /\ seen = ToSet(out) \cup ToSet(queue) \cup ToSet(subQueue) /\ seen \subseteq Paths
      BY <2>5, <2>6, <2>7
    <3>3. pages \in Nat /\ assets \in Nat /\ Len(out) = pages + assets
      BY <2>6, <2>7
    <3>4. /\ ToSet(queue) \subseteq Linked("docs") \cup {Home}
          /\ ToSet(subQueue) \subseteq Linked("subs")
          /\ Linked("docs") \cup Linked("subs") \subseteq seen
      BY <2>4, <2>6
    <3> QED
      BY <2>7, <3>1, <3>2, <3>3, <3>4 DEF Crawled
  <2> QED
    BY <1>1, <2>8 DEF CrawlInv
<1>2. CASE phase # "crawling"
  BY <1>2 DEF Init, CrawlInv, NeitherStarved
<1> QED
  BY <1>1, <1>2

\* What is linked from one page more.
LEMMA LinkedGrows ==
    ASSUME NEW kind, NEW p, UNCHANGED dep, ToSet(out)' = ToSet(out) \cup {p}
    PROVE  Linked(kind)' = Linked(kind) \cup (IF dep.app[p].r.cut THEN {}
                                              ELSE LinksOf(dep.site[p][kind]))
<1> DEFINE Whole(T) == {q \in T : ~dep.app[q].r.cut}
           L(q) == LinksOf(dep.site[q][kind])
<1>1. Linked(kind) = UNION {L(q) : q \in Whole(ToSet(out))}
  BY DEF Linked
<1>2. Linked(kind)' = UNION {L(q) : q \in Whole(ToSet(out) \cup {p})}
  BY DEF Linked, LinksOf, SameSite
<1>3. Whole(ToSet(out) \cup {p}) = Whole(ToSet(out)) \cup (IF dep.app[p].r.cut THEN {} ELSE {p})
  OBVIOUS
<1> DEFINE W == Whole(ToSet(out))
<1> HIDE DEF L, Whole
<1>4. UNION {L(q) : q \in W \cup {p}} = (UNION {L(q) : q \in W}) \cup L(p)
  <2> HIDE DEF W
  <2>1. \A x : (\E q \in W \cup {p} : x \in L(q)) <=> (\E q \in W : x \in L(q)) \/ x \in L(p)
    BY Zenon
  <2> DEFINE A == UNION {L(q) : q \in W \cup {p}}
             B == UNION {L(q) : q \in W}
  <2>2. \A x : x \in A <=> \E q \in W \cup {p} : x \in L(q)
    OBVIOUS
  <2>3. \A x : x \in B <=> \E q \in W : x \in L(q)
    OBVIOUS
  <2> HIDE DEF A, B
  <2>4. \A x : x \in A <=> x \in B \/ x \in L(p)
    BY <2>1, <2>2, <2>3, Zenon
  <2>5. A = B \cup L(p)
    BY <2>4
  <2> QED
    BY <2>5 DEF A, B
<1>5. CASE dep.app[p].r.cut
  BY <1>1, <1>2, <1>3, <1>5
<1>6. CASE ~dep.app[p].r.cut
  BY <1>1, <1>2, <1>3, <1>4, <1>6 DEF L
<1> QED
  BY <1>5, <1>6

\* A fetch of a path that was in one of the queues, of which q and s are left.
LEMMA FollowKeeps ==
    ASSUME Site, Crawled, NEW p \in Paths, p \notin ToSet(out),
           NEW q, NEW s, Enumerates(q, ToSet(q)), Enumerates(s, ToSet(s)),
           ToSet(queue) \cup ToSet(subQueue) = ToSet(q) \cup ToSet(s) \cup {p},
           p \notin ToSet(q), p \notin ToSet(s),
           ToSet(q) \subseteq ToSet(queue), ToSet(s) \subseteq ToSet(subQueue),
           p = Home \/ Home \in ToSet(out),
           pages' \in Nat, assets' \in Nat, pages' + assets' = pages + assets + 1,
           Follow(p, q, s)
    PROVE  Crawled'
<1> DEFINE cut == app[p].r.cut
           D == IF cut THEN {} ELSE LinksOf(dep.site[p].docs)
           S == IF cut THEN {} ELSE LinksOf(dep.site[p].subs)
           docs == IF cut THEN <<>> ELSE Fresh(dep.site[p].docs, seen)
           subs == IF cut THEN <<>> ELSE Fresh(dep.site[p].subs, seen \cup ToSet(docs))
<1>1. /\ out' = Append(out, p) /\ queue' = q \o docs /\ subQueue' = s \o subs
      /\ seen' = seen \cup ToSet(docs) \cup ToSet(subs)
      /\ UNCHANGED dep
  BY DEF Follow
<1>2. dep.site[p].docs \in Seq(URLs) /\ dep.site[p].subs \in Seq(URLs)
  BY DeploymentsAssumption DEF Site, DeploymentsAssumption, Links
<1>3. cut = dep.app[p].r.cut
  BY DEF Site
<1>4. Enumerates(docs, D \ seen) /\ D \subseteq Paths
  BY <1>2, FreshAre, NoList
<1>5. Enumerates(subs, S \ (seen \cup ToSet(docs))) /\ S \subseteq Paths
  BY <1>2, FreshAre, NoList
<1>6. ToSet(docs) = D \ seen /\ ToSet(subs) = S \ (seen \cup D)
  <2> HIDE DEF docs, subs
  <2>1. ToSet(docs) = D \ seen
    BY <1>4 DEF Enumerates
  <2>2. ToSet(subs) = S \ (seen \cup ToSet(docs))
    BY <1>5 DEF Enumerates
  <2> QED
    BY <2>1, <2>2
<1>7. /\ Linked("docs")' = Linked("docs") \cup D
      /\ Linked("subs")' = Linked("subs") \cup S
  <2>1. ToSet(out)' = ToSet(out) \cup {p}
    <3>1. Enumerates(Append(out, p), ToSet(out) \cup {p})
      BY ListAppend DEF Crawled
    <3> QED
      BY <3>1, <1>1 DEF Enumerates
  <2> QED
    BY <1>1, <1>3, <2>1, LinkedGrows
<1> HIDE DEF docs, subs, D, S, cut
<1>8. /\ Enumerates(out', ToSet(out) \cup {p}) /\ Len(out') = Len(out) + 1
      /\ ToSet(out') = ToSet(out) \cup {p}
  <2>1. Enumerates(Append(out, p), ToSet(out) \cup {p}) /\ Len(Append(out, p)) = Len(out) + 1
    BY ListAppend DEF Crawled
  <2> QED
    BY <2>1, <1>1 DEF Enumerates
<1>9. Enumerates(queue', ToSet(q) \cup (D \ seen)) /\ ToSet(queue') = ToSet(q) \cup (D \ seen)
  <2>1. ToSet(q) \cap (D \ seen) = {}
    BY DEF Crawled
  <2>2. Enumerates(q \o docs, ToSet(q) \cup (D \ seen))
    BY <1>4, <2>1, ListJoin
  <2> QED
    BY <2>2, <1>1 DEF Enumerates
<1>10. /\ Enumerates(subQueue', ToSet(s) \cup (S \ (seen \cup D)))
       /\ ToSet(subQueue') = ToSet(s) \cup (S \ (seen \cup D))
  <2>1. ToSet(s) \cap (S \ (seen \cup D)) = {}
    BY DEF Crawled
  <2>2. Enumerates(subs, S \ (seen \cup D))
    BY <1>5, <1>6
  <2>3. Enumerates(s \o subs, ToSet(s) \cup (S \ (seen \cup D)))
    BY <2>1, <2>2, ListJoin
  <2> QED
    BY <2>3, <1>1 DEF Enumerates
<1>11. seen' = seen \cup D \cup S
  BY <1>1, <1>6
<1>12. /\ ToSet(out') \cap ToSet(queue') = {} /\ ToSet(out') \cap ToSet(subQueue') = {}
       /\ ToSet(queue') \cap ToSet(subQueue') = {}
       /\ seen' = ToSet(out') \cup ToSet(queue') \cup ToSet(subQueue')
  BY <1>8, <1>9, <1>10, <1>11 DEF Crawled
<1>13. /\ ToSet(queue') \subseteq Linked("docs")' \cup {Home}
       /\ ToSet(subQueue') \subseteq Linked("subs")'
       /\ Linked("docs")' \cup Linked("subs")' \subseteq seen'
       /\ seen' \subseteq Paths
  BY <1>4, <1>5, <1>7, <1>9, <1>10, <1>11 DEF Crawled
<1>14. Home \in ToSet(out')
  BY <1>8
<1>15. Len(out') = pages' + assets'
  BY <1>8 DEF Crawled
<1> QED
  BY <1>8, <1>9, <1>10, <1>12, <1>13, <1>14, <1>15 DEF Crawled

\* A crawl that ends starved neither kind.
LEMMA EndKeeps == ASSUME Crawled, CrawlEnds PROVE NeitherStarved'
<1> DEFINE T == ToSet(out)
           sorted == Firsts(Names, T)
<1>1. /\ out' = sorted /\ UNCHANGED <<dep, pages, assets>>
      /\ ~MorePages /\ ~MoreAssets
  BY DEF CrawlEnds, crawl
<1>2. T \subseteq Paths
  BY DEF Crawled
<1>3. Enumerates(sorted, T) /\ ToSet(sorted) = T
  <2>1. Len(Names) \in Nat /\ {Names[i] : i \in 1..Len(Names)} = Paths
    BY NamesAssumption DEF NamesAssumption, ToSet
  <2>2. Enumerates(sorted, {Names[i] : i \in 1..Len(Names)} \cap T)
    BY <2>1, FirstsAre
  <2>3. {Names[i] : i \in 1..Len(Names)} \cap T = T
    BY <2>1, <1>2
  <2> HIDE DEF sorted
  <2> QED
    BY <2>2, <2>3 DEF Enumerates
<1> HIDE DEF sorted
<1>4. Len(sorted) = pages + assets /\ Len(sorted) = Cardinality(ToSet(sorted))
  <2>1. Cardinality(T) = Len(out) /\ Cardinality(T) = Len(sorted)
    BY <1>3, ListSize DEF Crawled
  <2> QED
    BY <2>1, <1>3 DEF Crawled
<1>5. Linked("docs")' = Linked("docs") /\ Linked("subs")' = Linked("subs")
  BY <1>1, <1>3 DEF Linked, LinksOf, SameSite
<1>6. ASSUME NEW p \in Linked("docs") \ Linked("subs") PROVE p \in T \/ ~Within(dep.n, pages)
  <2>1. p \in T \/ p \in ToSet(queue)
    BY <1>6 DEF Crawled
  <2>2. p \in ToSet(queue) => queue # <<>>
    BY NoList DEF Crawled, Enumerates
  <2> QED
    BY <1>1, <2>1, <2>2 DEF MorePages
<1>7. ASSUME NEW p \in Linked("subs") \ Linked("docs") PROVE p \in T \/ ~Within(dep.n, assets)
  <2>1. p \in T \/ p \in ToSet(subQueue) \/ p = Home
    BY <1>7 DEF Crawled
  <2>2. p \in ToSet(subQueue) => subQueue # <<>>
    BY NoList DEF Crawled, Enumerates
  <2>3. p = Home => p \in T
    <3>1. out = <<>> => Linked("subs") = {}
      <4>1. out = <<>> => ToSet(out) = {}
        BY NoList DEF Crawled
      <4> QED
        BY <4>1 DEF Linked
    <3> QED
      BY <3>1, <1>7 DEF Crawled
  <2> QED
    BY <1>1, <2>1, <2>2, <2>3 DEF MoreAssets
<1>8. Within(dep.n, pages)' = Within(dep.n, pages) /\ Within(dep.n, assets)' = Within(dep.n, assets)
  BY <1>1 DEF Within
<1> QED
  BY <1>1, <1>3, <1>4, <1>5, <1>6, <1>7, <1>8 DEF NeitherStarved

\* No step of a run disturbs what the crawl knows.
LEMMA CrawlNext == ASSUME Site, CrawlInv, [Next]_vars PROVE CrawlInv'
<1>1. ASSUME UNCHANGED <<dep, crawl, out>>, phase = "crawling" => phase' = "crawling",
             phase # "crawling" => phase' # "crawling"
      PROVE  CrawlInv'
  <2>1. Linked("docs")' = Linked("docs") /\ Linked("subs")' = Linked("subs")
    BY <1>1 DEF Linked, LinksOf, SameSite
  <2>2. CASE phase = "crawling"
    BY <1>1, <2>1, <2>2 DEF CrawlInv, Crawled, crawl
  <2>3. CASE phase # "crawling"
    BY <1>1, <2>1, <2>3 DEF CrawlInv, NeitherStarved, Within, crawl
  <2> QED
    BY <2>2, <2>3
<1>2. CASE CrawlPage
  <2>1. Crawled /\ phase' = "crawling"
    BY <1>2 DEF CrawlPage, Follow, CrawlInv
  <2> DEFINE p == Head(queue)
             q == Tail(queue)
  <2>2. p \in ToSet(queue) /\ Enumerates(q, ToSet(queue) \ {p}) /\ ToSet(q) = ToSet(queue) \ {p}
    <3>1. p \in ToSet(queue) /\ Enumerates(q, ToSet(queue) \ {p})
      BY <1>2, <2>1, ListTail DEF CrawlPage, MorePages, Crawled
    <3> QED
      BY <3>1 DEF Enumerates
  <2>3. Follow(p, q, subQueue) /\ pages' = pages + 1 /\ assets' = assets
    BY <1>2 DEF CrawlPage
  <2> HIDE DEF p, q
  <2>4. p = Home \/ Home \in ToSet(out)
    <3>1. out = <<>> => p = Home
      <4>1. out = <<>> => Linked("docs") = {}
        <5>1. out = <<>> => ToSet(out) = {}
          BY <2>1, NoList DEF Crawled
        <5> QED
          BY <5>1 DEF Linked
      <4> QED
        BY <2>1, <2>2, <4>1 DEF Crawled
    <3> QED
      BY <2>1, <3>1 DEF Crawled
  <2>5. /\ p \in Paths /\ p \notin ToSet(out) /\ p \notin ToSet(subQueue)
        /\ Enumerates(subQueue, ToSet(subQueue)) /\ pages \in Nat /\ assets \in Nat
    BY <2>1, <2>2 DEF Crawled
  <2>6. Crawled'
    BY <2>1, <2>2, <2>3, <2>4, <2>5, FollowKeeps
  <2> QED
    BY <2>1, <2>6 DEF CrawlInv
<1>3. CASE CrawlAsset
  <2>1. Crawled /\ phase' = "crawling"
    BY <1>3 DEF CrawlAsset, Follow, CrawlInv
  <2> DEFINE p == Head(subQueue)
             s == Tail(subQueue)
  <2>2. p \in ToSet(subQueue) /\ Enumerates(s, ToSet(subQueue) \ {p}) /\ ToSet(s) = ToSet(subQueue) \ {p}
    <3>1. p \in ToSet(subQueue) /\ Enumerates(s, ToSet(subQueue) \ {p})
      BY <1>3, <2>1, ListTail DEF CrawlAsset, MoreAssets, Crawled
    <3> QED
      BY <3>1 DEF Enumerates
  <2>3. Follow(p, queue, s) /\ pages' = pages /\ assets' = assets + 1
    BY <1>3 DEF CrawlAsset
  <2> HIDE DEF p, s
  <2>4. Home \in ToSet(out)
    <3>1. out = <<>> => Linked("subs") = {}
      <4>1. out = <<>> => ToSet(out) = {}
        BY <2>1, NoList DEF Crawled
      <4> QED
        BY <4>1 DEF Linked
    <3> QED
      BY <2>1, <2>2, <3>1 DEF Crawled
  <2>5. /\ p \in Paths /\ p \notin ToSet(out) /\ p \notin ToSet(queue)
        /\ Enumerates(queue, ToSet(queue)) /\ pages \in Nat /\ assets \in Nat
    BY <2>1, <2>2 DEF Crawled
  <2>6. Crawled'
    BY <2>1, <2>2, <2>3, <2>4, <2>5, FollowKeeps
  <2> QED
    BY <2>1, <2>6 DEF CrawlInv
<1>4. CASE CrawlEnds
  <2>1. Crawled /\ phase' = "comparing"
    BY <1>4 DEF CrawlEnds, CrawlInv
  <2> QED
    BY <1>4, <2>1, EndKeeps DEF CrawlInv
<1>5. ASSUME NEW p \in Paths, NEW a \in dep.edits, Edit(p, a) PROVE CrawlInv'
  BY <1>1, <1>5 DEF Edit
<1>6. ASSUME NEW p \in Paths, FetchCanonical(p) PROVE CrawlInv'
  BY <1>1, <1>6 DEF FetchCanonical
<1>7. ASSUME NEW f \in Faults, FetchVariant(f) PROVE CrawlInv'
  BY <1>1, <1>7 DEF FetchVariant
<1>8. CASE Report
  BY <1>1, <1>8 DEF Report
<1>9. CASE UNCHANGED vars
  BY <1>1, <1>9 DEF vars
<1> QED
  BY <1>2, <1>3, <1>4, <1>5, <1>6, <1>7, <1>8, <1>9 DEF Next

\* For any site, budget and answers that break off: no path is fetched twice, every
\* fetch is counted against one of the two budgets of crawl, and what was linked and
\* not fetched is behind a budget that is spent, the one of its own kind.
THEOREM NeitherIsStarved == Spec => []NeitherStarved
<1>1. Init => CrawlInv
  BY CrawlInit
<1>2. Inv /\ CrawlInv /\ [Next]_vars => CrawlInv'
  BY CrawlNext DEF Inv
<1>3. CrawlInv => NeitherStarved
  BY DEF CrawlInv, NeitherStarved
<1> QED
  BY <1>1, <1>2, <1>3, InvHolds, PTL DEF Spec
=============================================================================
