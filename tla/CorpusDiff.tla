----------------------------- MODULE CorpusDiff -----------------------------
(***************************************************************************)
(* `hostshift diff` as a whole (internal/corpus/diff.go): it crawls the   *)
(* canonical site, fetches every URL from there and through the proxy,     *)
(* runs the canonical bytes through its own copy of the proxy's dispatch   *)
(* and gives a verdict.  The proxy, where it is in the path, is Pipeline's *)
(* ModifyResponse; the site goes on being edited meanwhile, and a fetch    *)
(* through the proxy may fail, break off or come back short.               *)
(*                                                                         *)
(* An answer is a response of Pipeline with its size in lines and bytes.   *)
(* The detectors of serialized data are in Serialized.  The literal scan   *)
(* and the byte equality are left in the rows: no verdict depends on them. *)
(***************************************************************************)
EXTENDS Pipeline, Integers, Sequences, SequencesExt

CONSTANTS
  Home,        \* the path the crawl begins at
  Deployments, \* what the command is pointed at, and with which options
  Names,       \* all paths, as sort.Strings would have them
  MaxMishaps   \* bound on the edits and failures during one run

ASSUME NamesAssumption ==
  /\ Names \in Seq(Paths) /\ IsInjective(Names) /\ ToSet(Names) = Paths
  /\ Home \in Paths /\ None \notin Paths

Answers == [r : Responses, lines : Nat, bytes : Nat]
Links   == [docs : Seq(URLs), subs : Seq(URLs)]   \* in document order

\* A list of paths that is given names none twice.
ASSUME DeploymentsAssumption ==
  /\ \A d \in Deployments :
       /\ d.site \in [Paths -> Links] /\ d.app \in [Paths -> Answers]
       /\ d.paths \in Seq(Paths) /\ IsInjective(d.paths) /\ d.n \in Int
       /\ d.inPath \in BOOLEAN /\ d.cfg \in Configs /\ d.strict \in BOOLEAN
       /\ d.edits \subseteq Answers   \* what a page may come to be

VARIABLES
  dep,      \* the deployment and the options
  app,      \* what the application answers, by path
  mishaps,  \* edits and failures so far
  phase,    \* "crawling", "comparing" or "reported"
  queue, subQueue, seen, pages, assets,   \* of crawl
  out,      \* the paths to compare
  canon,    \* the answer compare has from the canonical side, with its path, or None
  results,  \* of the paths compared so far
  got,      \* history: the answers they were computed from
  verdict

crawl == <<queue, subQueue, seen, pages, assets>>
vars == <<dep, app, mishaps, phase, crawl, out, canon, results, got, verdict>>

\* Run: `-n` bounds a list that was given; a crawl is bounded where it is made.
Given(d) ==
  IF d.n > 0 /\ Len(d.paths) > d.n THEN SubSeq(d.paths, 1, d.n) ELSE d.paths

Init ==
  /\ dep \in Deployments
  /\ app = dep.app
  /\ mishaps = 0
  /\ phase = IF dep.paths = <<>> THEN "crawling" ELSE "comparing"
  /\ queue = <<Home>>
  /\ subQueue = <<>>
  /\ seen = {Home}
  /\ pages = 0
  /\ assets = 0
  /\ out = Given(dep)
  /\ canon = None
  /\ results = << >>
  /\ got = << >>
  /\ verdict = "none"

\* The site changes under a run: a page becomes another one, of another size, type
\* or status.  What breaks off goes on breaking off, whatever it says.
Edit(p, a) ==
  /\ phase # "reported"
  /\ mishaps < MaxMishaps
  /\ mishaps' = mishaps + 1
  /\ app' = [app EXCEPT ![p] = [a EXCEPT !.r.cut = app[p].r.cut]]
  /\ UNCHANGED <<dep, phase, crawl, out, canon, results, got, verdict>>

-----------------------------------------------------------------------------
(* crawl *)

Within(n, spent) == n = 0 \/ spent < n

\* The members of a list that are wanted, the first of each, in order.
Firsts(list, wanted) ==
  LET upTo[i \in 0..Len(list)] ==
        IF i = 0 THEN <<>>
        ELSE LET taken == upTo[i - 1]
             IN  IF list[i] \in wanted \ ToSet(taken) THEN Append(taken, list[i]) ELSE taken
  IN  upTo[Len(list)]

\* A link of the site itself, as a path.
SameSite(u) == IF u.space \in CanonicalSet THEN u.path ELSE None

\* The links of one page that enqueue takes.
Fresh(links, known) == Firsts([i \in DOMAIN links |-> SameSite(links[i])], Paths \ known)

\* Fetch p from the canonical side and enqueue what it links, whatever it is.
\* A body that breaks off is skipped.
Follow(p, pageQueue, assetQueue) ==
  LET docs == IF app[p].r.cut THEN <<>> ELSE Fresh(dep.site[p].docs, seen)
      subs == IF app[p].r.cut THEN <<>> ELSE Fresh(dep.site[p].subs, seen \cup ToSet(docs))
  IN  /\ out' = Append(out, p)
      /\ queue' = pageQueue \o docs
      /\ subQueue' = assetQueue \o subs
      /\ seen' = seen \cup ToSet(docs) \cup ToSet(subs)
      /\ UNCHANGED <<dep, app, mishaps, phase, canon, results, got, verdict>>

MorePages == queue # <<>> /\ Within(dep.n, pages)
MoreAssets == subQueue # <<>> /\ Within(dep.n, assets)

\* Bug: one budget for both, and whatever is there is spent on pages first.
CrawlPageSharing ==
  /\ phase = "crawling"
  /\ queue # <<>> /\ Within(dep.n, pages + assets)
  /\ pages' = pages + 1
  /\ assets' = assets + 1
  /\ Follow(Head(queue), Tail(queue), subQueue)

CrawlPage ==
  /\ phase = "crawling"
  /\ MorePages
  /\ pages' = pages + 1
  /\ UNCHANGED assets
  /\ Follow(Head(queue), Tail(queue), subQueue)

CrawlAsset ==
  /\ phase = "crawling"
  /\ ~MorePages
  /\ MoreAssets
  /\ assets' = assets + 1
  /\ UNCHANGED pages
  /\ Follow(Head(subQueue), queue, Tail(subQueue))

CrawlEnds ==
  /\ phase = "crawling"
  /\ ~MorePages
  /\ ~MoreAssets
  /\ phase' = "comparing"
  /\ out' = Firsts(Names, ToSet(out))   \* sort.Strings
  /\ UNCHANGED <<dep, app, mishaps, crawl, canon, results, got, verdict>>

-----------------------------------------------------------------------------
(* compare *)

Rewritable == {"html", "json", "text"}
isTier2(r) == r.ct = "css"

\* What a scan of the body can see: it does not undo a coding.
Scanned(r) == IF r.coding = "identity" THEN r.text ELSE {}

\* applyLikeTheProxy: the arm by content type, the sweep always on.
ApplyLikeTheProxy(text, r, from, to) ==
  CASE r.ct = "html" -> Retarget(Retarget(text, from, to, Grammar), from, to, Bytes)
    [] r.ct = "json" \/ (r.ct = "text" /\ r.json # "no") ->
         Retarget(IF r.json = "ok" THEN Retarget(text, from, to, Grammar) ELSE text,
                  from, to, Bytes)
    [] r.ct = "text" /\ r.json = "no" -> Retarget(text, from, to, Flat)
    [] OTHER -> text

\* countLeaks, and HiddenInBase64 beside it, which asks for no content type.
OriginsIn(r, from, to) ==
  \/ /\ ~r.attachment /\ ~isTier2(r)
     /\ ApplyLikeTheProxy(Scanned(r), r, from, to) # Scanned(r)
  \/ Hides(Scanned(r), from)

InTier2(r) ==
  ~r.attachment /\ isTier2(r) /\ \E m \in Scanned(r) : m.space \in CanonicalSet /\ m.place \in Flat

\* Bug: whatever Location came back as it went is taken for the carve-out.
UnchangedLocation(o, p, c, v) ==
  /\ ~o.strict
  /\ c.location # None
  /\ v.location = c.location

\* The proxy's self-redirect test, asked from outside.
RedirectsToItself(o, location, p) == location = [space |-> o.cfg.variant, path |-> p]

UnchangedSelfRedirect(o, p, c, v) ==
  /\ ~o.strict
  /\ c.location # None
  /\ v.location = c.location
  /\ RedirectsToItself(o, ToVariant(o.cfg, c.location), p)

Mismatch(o, p, c, v) ==
  \/ c.r.cut \/ v.r.cut                         \* a fetch that failed
  \/ c.r.status # v.r.status
  \/ /\ c.r.location # None \/ v.r.location # None
     /\ v.r.location # (IF c.r.location = None THEN None ELSE ToVariant(o.cfg, c.r.location))
     /\ ~UnchangedSelfRedirect(o, p, c.r, v.r)
  \/ c.bytes = 0 /\ v.bytes = 0 /\ c.r.location = None

Failed == [err |-> TRUE, ct |-> "none", leaks |-> FALSE, tier2 |-> FALSE, writeBacks |-> FALSE,
           equal |-> FALSE, lines |-> <<0, 0>>, bytes |-> <<0, 0>>]

Same(o, c, v) ==
  ApplyLikeTheProxy(Scanned(c.r), v.r, CanonicalSet, o.cfg.variant) = Scanned(v.r)

Compare(o, p, c, v) ==
  IF Mismatch(o, p, c, v) THEN Failed
  ELSE [err |-> FALSE, ct |-> v.r.ct,
        leaks |-> OriginsIn(v.r, CanonicalSet, o.cfg.variant),
        tier2 |-> InTier2(v.r),
        writeBacks |-> OriginsIn(c.r, {o.cfg.variant}, Canon),
        equal |-> Same(o, c, v),
        lines |-> <<c.lines, v.lines>>, bytes |-> <<c.bytes, v.bytes>>]

Compared == Cardinality(DOMAIN results)

FetchCanonical(p) ==
  /\ phase = "comparing"
  /\ canon = None
  /\ Compared < Len(out)
  /\ p = out[Compared + 1]
  /\ canon' = [path |-> p, answer |-> app[p]]
  /\ UNCHANGED <<dep, app, mishaps, phase, crawl, out, results, got, verdict>>

\* What the application was asked for, and what the browser would be sent.
Asked(o, p) ==
  [method |-> "GET", url |-> [space |-> o.cfg.variant, path |-> p], kind |-> "none",
   body |-> {}, line |-> {}, big |-> FALSE, cut |-> FALSE, range |-> FALSE,
   gzip |-> FALSE, match |-> None]
ThroughProxy(o, p, a) ==
  IF o.inPath THEN [a EXCEPT !.r = ModifyResponse(o.cfg, Asked(o, p), @).resp] ELSE a

\* How the fetch through the proxy may go wrong: the upstream is down, breaks
\* off, or ends early without saying so.
Faults == {"none", "down", "breaks", "short"}
Failing(a, fault) ==
  CASE fault = "none"   -> a
    [] fault = "down"   -> [a EXCEPT !.r = Plain("502")]
    [] fault = "breaks" -> [a EXCEPT !.r.cut = TRUE]
    [] fault = "short"  -> [a EXCEPT !.lines = @ \div 2, !.bytes = @ \div 2]

FetchVariant(fault) ==
  /\ phase = "comparing"
  /\ canon # None
  /\ fault = "none" \/ mishaps < MaxMishaps
  /\ mishaps' = IF fault = "none" THEN mishaps ELSE mishaps + 1
  /\ LET p == canon.path
         v == ThroughProxy(dep, p, Failing(app[p], fault))
     IN  /\ results' = [q \in DOMAIN results \cup {p} |->
                          IF q = p THEN Compare(dep, p, canon.answer, v) ELSE results[q]]
         /\ got' = [q \in DOMAIN got \cup {p} |->
                      IF q = p THEN [canon |-> canon.answer, behind |-> app[p],
                                     variant |-> v, fault |-> fault]
                      ELSE got[q]]
  /\ canon' = None
  /\ UNCHANGED <<dep, app, phase, crawl, out, verdict>>

-----------------------------------------------------------------------------
(* WriteReport *)

hostDependentLines == 8
Apart(a) == IF a[1] > a[2] THEN a[1] - a[2] ELSE a[2] - a[1]

\* Too much is missing for a Host-dependent line or a longer hostname.
AnotherDocument(x) ==
  \/ Apart(x.lines) > hostDependentLines \/ Apart(x.lines) * 4 > x.lines[1]
  \/ Apart(x.bytes) * 4 > x.bytes[1]

\* Bug: two bodies that differ are two documents.
RedIfDifferent(x) == x.err \/ x.leaks \/ x.writeBacks \/ AnotherDocument(x) \/ ~x.equal

Red(x) == x.err \/ x.leaks \/ x.writeBacks \/ AnotherDocument(x)

Verdict(all) ==
  IF all = {} \/ \E x \in all : Red(x) THEN "red"
  ELSE IF \A x \in all : x.ct = "css" THEN "nothing scanned"
  ELSE IF \E x \in all : x.tier2 THEN "green in tier 1" ELSE "green"

Report ==
  /\ phase = "comparing"
  /\ canon = None
  /\ Compared = Len(out)
  /\ verdict' = Verdict({results[p] : p \in DOMAIN results})
  /\ phase' = "reported"
  /\ UNCHANGED <<dep, app, mishaps, crawl, out, canon, results, got>>

Next ==
  \/ \E p \in Paths, a \in dep.edits : Edit(p, a)
  \/ CrawlPage \/ CrawlAsset \/ CrawlEnds
  \/ \E p \in Paths : FetchCanonical(p)
  \/ \E f \in Faults : FetchVariant(f)
  \/ Report

Spec == Init /\ [][Next]_vars

-----------------------------------------------------------------------------
Green == verdict \in {"green", "green in tier 1"}
Ours  == {dep.cfg.variant}

\* A document whose grammar no pass can read.
Unparsed(r) ==
  \/ r.ct = "json" /\ r.json # "ok"
  \/ r.ct = "text" /\ r.json = "bad"

\* What a browser or the public was sent in a body that the proxy is to rewrite
\* and that a pass can read.
Exposed(r, spaces) ==
  /\ r.coding = "identity"
  /\ \E m \in r.text : m.space \in spaces /\
       \/ m.place = "hidden"
       \/ ~r.attachment /\ r.ct \in Rewritable /\ (Unparsed(r) => m.place # "escaped")

\* A green verdict is about something, and true of it: of all that was fetched,
\* edits in between included, no body shows the browser a canonical origin or
\* the public a variant one, no redirect leads there but one the proxy's own guard
\* would leave, and nothing was half of what it should be.
SoundGreen ==
  Green =>
    /\ DOMAIN got # {}
    /\ \A p \in DOMAIN got :
         LET c == got[p].canon
             v == got[p].variant
         IN  /\ ~Exposed(v.r, CanonicalSet)
             /\ ~Exposed(c.r, Ours)
             /\ v.r.status \in Redirects /\ v.r.location # None
                /\ v.r.location.space \in CanonicalSet
                  => SelfRedirect(dep.cfg, Asked(dep, p), v.r) /\ ~dep.strict
             /\ ~c.r.cut /\ ~v.r.cut /\ c.r.status = v.r.status
             /\ 4 * v.bytes >= 3 * c.bytes

\* What may become of a page between its own two fetches: its text, and of its
\* size up to eight lines and a quarter, which hostDependentLines and the comments
\* of WriteReport put up with.  Nothing in a report tells a larger change from a page
\* that was served half.
Kept(c, b) ==
  /\ b.r.status = c.r.status /\ b.r.location = c.r.location
  /\ b.lines \in c.lines - 8 .. c.lines + 8
  /\ 4 * b.lines \in 3 * c.lines .. 5 * c.lines
  /\ 4 * b.bytes \in 3 * c.bytes .. 5 * c.bytes

\* A deployment with nothing wrong in it, compared while no page changed too much
\* under its comparison.  At any other time a page may change as it likes.
Healthy ==
  /\ dep.inPath /\ ~dep.cfg.dryRun /\ ~dep.cfg.noSweep
  /\ dep.strict => dep.cfg.strict
  /\ \A p \in DOMAIN got :
       LET g == got[p]
           a == g.behind.r
       IN  /\ g.fault = "none" /\ ~a.cut /\ ~g.canon.r.cut /\ ~a.big
           /\ Kept(g.canon, g.behind)
           /\ a.encoding = "identity" /\ a.status # "206"
           /\ g.behind.bytes > 0 \/ a.location # None
           /\ ~Hides(a.text, CanonicalSet)
           /\ \A m \in g.canon.r.text : m.space # dep.cfg.variant
           /\ ~(dep.cfg.strict /\ SelfRedirect(dep.cfg, Asked(dep, p), a))

\* WriteReport never calls a healthy deployment red: not for a dynamic text, a
\* rewritten redirect, one left alone on purpose, a stylesheet, an attachment, a
\* line more or less, nor for edits that no comparison straddles.
HealthyIsGreen == verdict = "red" => ~Healthy \/ Len(out) = 0

\* What is linked from the pages that were fetched whole.
LinksOf(links) == {SameSite(links[i]) : i \in DOMAIN links} \ {None}
Linked(kind) ==
  UNION {LinksOf(dep.site[p][kind]) : p \in {q \in ToSet(out) : ~dep.app[q].r.cut}}

\* Neither kind of link starves the other: a crawl ends with each page and each
\* asset that was linked fetched once, or with the budget of its kind spent.
NeitherStarved ==
  phase # "crawling" /\ dep.paths = <<>> =>
    /\ Len(out) = Cardinality(ToSet(out)) /\ Len(out) = pages + assets
    /\ \A p \in Linked("docs") \ Linked("subs") : p \in ToSet(out) \/ ~Within(dep.n, pages)
    /\ \A p \in Linked("subs") \ Linked("docs") : p \in ToSet(out) \/ ~Within(dep.n, assets)

-----------------------------------------------------------------------------
(* What a comment says, and the code does not do. *)

\* diff.go, crawl: "Pages up to `-n`, then subresources on top of it".  A page
\* that some <link> names first is queued as a subresource, and stays one.
PagesUpToN ==
  phase # "crawling" /\ dep.paths = <<>> =>
    \A p \in Linked("docs") : p \in ToSet(out) \/ ~Within(dep.n, pages)

\* diff.go, countLeaks: an attachment "is not counted at all".
AttachmentNotCounted ==
  phase = "reported" =>
    \A p \in DOMAIN got : got[p].variant.r.attachment =>
      ~results[p].leaks /\ ~results[p].writeBacks
=============================================================================
