# A verification of hostshift in TLA+

hostshift lets several worktrees of one site run side by side on one copy of the
production database. A proxy in front of each worktree rewrites the canonical
(production) origins in what the checkout answers into that worktree's *variant*
origins, and rewrites the variant back to the canonical in what the browser sends, so
the database never learns that a worktree exists. This directory models that program,
model-checks it with TLC and proves part of it with TLAPS.

## 1. The system

| Component | Source | State it keeps | Operations | Hard because |
|---|---|---|---|---|
| HTTP exchange | `internal/proxy/proxy.go`, `transport.go`, `earlyhints.go` | one `state` per request; the response in flight | route, map the request back, rewrite headers, cookies and body, decode, compress, skip and record | a dozen early returns in an order that matters; failure in the middle; flags that switch passes off |
| Response writer | `proxy.go`, `coalescer` | `mu`, `t`, `pending`, `stopped` | Write, WriteHeader, Flush, the timer, stop, Hijack | a timer goroutine that `Stop` does not wait for |
| Deployment | `cmd/hostshift`, the README | the database, browsers, their caches and one in front | read, edit, save, revalidate, restart with other flags | what one worktree stores another one reads, much later |
| Host map | `internal/origin/hostmap.go`, `origin.go` | sites, two matchers | NewMap, Validate, SiteForHost | many canonicals to one variant, ports, schemes |
| Matcher | `internal/origin/matcher.go`, `scan.go` | none | Rewrite, RewriteText, RewritePrefix | anchoring on both sides of a match |
| Straggler sweep | `internal/rewrite/sweep.go` | `pending`, `prev`, `offset`, `out` | Read | a match across a read boundary |
| HTML rewriter | `internal/rewrite/html.go`, `attrspan.go`, `entity.go` | tokenizer state, foreign-content stack | Read | namespaces, raw text, entities |
| JSON rewriter | `internal/rewrite/json.go` | none | RewriteJSON | all or nothing on a parse error |
| URL spellings | `internal/rewrite/urlobf.go` | none | the Leaks family | every grammar that can spell a host |
| PHP-serialized repair | `internal/rewrite/serialized.go` | none | RepairSerialized, RepairSerializedFields, BrokenSerialized, UnreadSerialized | lengths that must follow the bytes, in nine spellings, out in one and back in another |
| Base64 report | `internal/rewrite/base64.go` | none | HiddenInBase64 | what cannot be rewritten must be said |
| Multipart | `internal/proxy/multipart.go` | none | rewriteMultipart | file parts must stay as they are |
| Census | `internal/rewrite/stats.go` | `mu`, counters, events, the hook | Record, Structured, SweepSkipped, Snapshot, WriteReport, OnEvent | called from every request at once, a hook outside the lock |
| Configuration | `internal/config`, `internal/ddev` | none | load, layer, derive | precedence |
| Corpus diff | `internal/corpus/diff.go` | the crawl's queues and budgets, the results | Run, crawl, compare, WriteReport | a verdict over two sites fetched at different times; carve-outs that may forgive a leak |
| Command line, DDEV add-on | `cmd/hostshift`, `ddev/` | processes, containers, databases | proxy, rewrite, check, diff; worktree up and down | sharing and dropping a database |

A request goes browser -> `Handler` -> `SiteForHost` -> `rewriteRequestBody` ->
`rewriteRequest` -> upstream; its answer upstream -> `hintRewriter` (1xx, on the
transport's goroutine) and `modifyResponse` -> `finishBody` -> HTML, JSON or text
rewriter -> sweep -> `coalescer` -> browser. The header pass, the cookie pass and every
body arm share the matchers of the host map and the counters of the census.

What makes each component correct:

* exchange: a canonical origin reaches the browser, or a variant the upstream, only
  with a record or where the code declares it does not look; headers describe the body
  they go with; a failure is seen as one; identity and `--dry-run` change nothing;
* response writer: one goroutine in the real writer, none after the handler returned,
  no swallowed flush forgotten;
* deployment: the database stays canonical, a browser stays in its own space and is
  never sent round in circles, saving what was read restores it;
* host map and matcher: one answer per origin, a fixed point, there and back again;
* sweep: the same output wherever the reads fall;
* HTML rewriter: it decodes a script or a style where the browser does, as long as it knows
  which vocabularies are open;
* serialized repair: all lengths or none, and a row that was right comes back right;
* census: a report is of one moment, the trace and the hook are told whole calls, counting
  does not wait for a log that blocks, and a signal ends the process when the log does not;
* corpus diff: green is true and a healthy deployment is green.

## 2. The modules

| Module | What it is |
|---|---|
| `DeferredFlush` | What a writer that puts flushes off promises; abstract. |
| `FlushCoalescer` | `coalescer`, one action per lock acquisition and per real write or flush; refines `DeferredFlush`. |
| `FlushCoalescerProofs` | The inductive invariant and the theorems about it. |
| `Pipeline` | One request and one response through `internal/proxy`, as operators. |
| `PipelineProofs` | What each of those operators does to a text and to the headers, stage by stage. |
| `Exchange` | One exchange as a state machine over `Pipeline`. |
| `ExchangeProofs` | Its inductive invariant and theorems, and those of `Sweep`, the body that streams through an exchange. |
| `Worktrees` | Several proxies running `Pipeline`, one database, browsers and caches. |
| `WorktreesProofs` | What the worktrees cannot do to each other: the inductive invariant and theorems. |
| `HostMap` | Which lists of sites are accepted, which pair rewrites a mention, where a request is routed. |
| `HostMapProofs` | Its inductive invariant and theorems. |
| `Scan` | The byte matcher on one host and one encoding: where a match begins and ends, what a pass over a prefix does. |
| `Sweep` | The streaming reader over `Scan`. |
| `SerializedText` | The bytes of a serialized value as tokens, PHP's `serialize`, and the encoders and decoders around it. |
| `Serialized` | The repair and the two detectors, around the life of one row: served, edited, saved. |
| `TreeBuilder` | The browser's stack of open elements, external, for the classes of tags that matter. |
| `ForeignContent` | The HTML rewriter's tracker of `svg` and `math`, read side by side with `TreeBuilder`. |
| `ForeignContentProofs` | That the tracker's mark never points outside its stack; on valid documents, when it agrees with the browser. |
| `Stats` | The census: one action per thing done under the lock, one per call of the hook. |
| `Serving` | The proxy's process around `Stats`: requests, SIGTERM, the final report, the exit. |
| `StatsProofs` | The inductive invariant of the census and its theorems. |
| `CorpusDiff` | `hostshift diff`: crawl, compare, verdict, with `Pipeline` as the proxy it tests. |
| `CorpusDiffProofs` | That the diff's dispatch is the proxy's, and that a verdict can be believed. |
| `MC*` | Constants for TLC. |

An operator whose comment begins "Bug:" is a wrong variant of the operator after it;
no specification uses it. Each property is known to fail when one of them takes its
place.

### FlushCoalescer

`mu`, `pending`, `stopped` are the fields of the struct; `armed` is whether `c.t` is
running. A method is the step that calls it, the step that gets `mu` and, if it touches
the real `ResponseWriter`, the step that leaves it: the states in between are those in
which another goroutine may meet it. A fired timer is a goroutine (`wantDelayed`) that
waits for `mu`; `t.Stop()` clears `armed` and leaves such a goroutine alone, as Go's
does. What is assumed of `httputil.ReverseProxy` is in three guards: hooks write only
while the handler is serving, `ServeHTTP` returns only when no hook is inside
(`roundTripMutex`), and a hijack happens before anything was written. `Late` callers,
which keep the writer and flush it after the return, do not exist in `httputil` today;
`Flush` has a branch for them and so has the model.

Fairness: a running timer fires, a goroutine inside the writer leaves it (weak
fairness); a goroutine waiting for `mu` gets it although others take it in between
(strong fairness: Go's mutex goes to the longest waiter after one millisecond). No
caller has to call anything.

### Pipeline and Exchange

A text is the set of origins mentioned in it. A mention has a space (canonical, alias,
some worktree's variant) and a place that decides which passes reach it: `plain` all,
`escaped` those that know the grammar, `stray` the byte sweep alone, `hidden` none
(base64). `Retarget` is what every rewriter does to a text, and differs only in its
reach. A `Content-Length` or a validator is the body it was made for, so "honest" can
be said of it. `Responses` are what a transport hands over: the records whose body is in the
coding their header names, and empty where there is none; `ResponseRecords` also holds what
the proxy may make of one. The operators follow `modifyResponse` and `finishBody` branch by branch
and in their order. `Exchange` has one action per thing that happens to an exchange:
misdirected, forwarded, a 1xx hint, the failure of the upstream, the answer, the end of
the copy.

### Worktrees

Each worktree has a proxy (`Pipeline` under its own flags), a checkout and a browser
with a cache. A cache keyed on the path and obeying `Vary` stands in front of all. A
save sends back the page that is shown, with or without an edit; the application stores
it as it is. `source` travels with a page and says what the database held when it was
read, so a round trip can be judged long after. Browsers, caches and the application
are not in this repository: they are what RFC 9110 and 9111 and the code's own comments
assume.

Fairness: a request that is under way is passed on. Nobody has to browse or save.

### HostMap

An origin is a scheme, a host and a port, as `Parse` leaves it; a mention is how content
writes one, its form a scheme or `//`. `Forward` and `Reverse` are the two matchers
`NewMap` builds, as sets of pairs that carry their place in the order they are tried;
`Validate`, `DistinctVariantHosts` and `NoVariantIsCanonical` are its errors, in the
source's terms. The state machine is the life of one mention under a configured list:
refused, or stored in the database, served (the structured pass), swept (the same matcher
over what that pass produced), followed by a browser to `SiteForHost`, saved back through
the reverse matcher, and stored again. Encodings and left anchors are `Scan`'s business.

### Scan and Sweep

A byte is one of the classes the decision tells apart (scheme, slash, a digit of the
default port, another digit, a zero, a removed byte, a host byte, `:`, `.`, `?`, a
space). There is one canonical host on its default port and one encoding, and the
surface is the sweep's, where the end of the buffer is not the end of a value. `Consider`
follows `Matcher.rewrite`: the anchors on both sides, the port and its zeros, the root
dot, the run of tab, LF and CR that a URL parser takes out. The source's iterator
(`scan.go`) finds a separator, then the host behind it and the scheme before it, and offers
the scheme's form first; that is the order of the starting positions, and `Pass` goes through
these. `Sweep` has the fields of the struct and one action per thing the source may do: `Fill` (a read
and the flush it leads to, the end of the stream arriving with the bytes or after them),
`FillFails`, and `Drain`, which hands out what is ready.

`MaxMatchLen` is the source's sum with its constants scaled down: `Slack` stands for the
fixed allowance for a port and a terminator and `MaxRemoved` for `maxRemovedRun`. In the
source a port may be padded with more zeros than that allowance, and the padding is not
bounded where it is read (`matcher.go:163`, `origin.go:217`). `PortsFit` says that a document
has no such port; those of the run have none (`PortsFitAssumption`).

### SerializedText and Serialized

A text is a sequence of tokens: a token is a byte, a character reference or a
percent-encoded byte, and has a width in bytes, so that lengths are those of the source. `h`
is the canonical origin, `g` the same host over http, a byte shorter, and `v` followed by `:`
the variant, which is longer than either, and longer again when the colon is percent-encoded.
Both schemes go out as the variant, and what comes back is `h`. The repair follows the source function by function: the
nine spellings in the order they are tried, the readings of a declared length
(`AdvanceReadings`, `SpanEnd`), the parse with its depth (`RepairAt`), values nested in a
string's data, the peeling of a form field and of doubly encoded text, the test whether a value
fills its field (`occupiesItsField`), and the two detectors the corpus diff uses.

The state machine around it is what a repair is for. A row is served on a page under some
layers of escaping, edited by someone who decodes the page, posted back under other layers,
rewritten on its way in and stored. `stale` records the one thing that spoils a round trip for
good (`serialized.go:2338`): an http mention that an editor took off a page on which the
lengths were left alone. The encoders are WordPress's and PHP's and external.
Because the source recurses over data these modules declare RECURSIVE operators and are
left to TLC. Left out: the scalars `R`, `r`, `b` and `d`, which parse like `i`; the numeric
spellings of a quote in HTML; the cap of 2048 readings, which no value here comes near.

### TreeBuilder and ForeignContent

In `svg` and `math` a browser decodes the references inside a `script` or a `style`;
elsewhere it does not. `HTML.Read` has no tree. It keeps `foreignNS`, the open `svg` and
`math` elements, and `foreignObjectAt`, the depth at which an integration point went back to
the rules of HTML. `w` is these fields, and the operators are the steps of `Read` in their
order. `open` is the browser's stack of elements by the rules of the HTML standard, which
the source quotes and its tests take from `html.Parse`. One tag at a time both read the
same document; a property compares what they would do with a script that stood here.

`Astray` says whether tags may be out of place; where they may, only `MarkWithinStack` is
claimed. Otherwise `InPlace` and `Closes` admit what a validator does and more: a name that
means something in `svg` or in `math` is used there, an end tag closes what is innermost (an
`svg` or `math` also what was left open in it). Vocabularies and integration points nest in
each other to any depth, HTML and void elements stand in a text point, and break-outs anywhere.

One mark cannot follow all of that, and on valid documents the rewriter does withhold
(`NestedPoint`, section 5). `track`, a history variable read off the document and never off the
rewriter, says how much that can still know, and each property says up to where it holds:

* `clear`: no integration point was opened inside another point, or inside a vocabulary that
  stands in another one, and no `mglyph` was met. The rewriter decodes where the browser
  does and, but for the text of a title, nowhere else.
* `blurred`: one was, or an `mglyph` made the rewriter give its mark up. It may decode too much
  and still never withholds. With the last point and mixed vocabulary closed it is clear again.
* `lost`: while blurred it met a start tag that breaks out, which in a point closes nothing for
  the browser and cuts the rewriter's stack, or a title inside a title of `svg`. It may withhold,
  until all of `svg` and `math` is closed; then it is clear again, and has nothing left over.
* `gone`: a `<title/>` in `svg`, an empty element to the browser, has the tokenizer wait for an
  end tag that does not come; or, lost, an end tag closed an integration point or vocabulary
  that had none of its own. Nothing is claimed for the rest of the page, and the run stops
  there (`CONSTRAINT Followed`).

### Stats and Serving

`mu` is the mutex, `doing[r]` where the response `r` is in `Record`: waiting for `mu`,
counting its batch event by event, giving `mu` back, then calling the hook event by event
with `mu` free. The hook may ask the counters something (`Ask`, the comment in the source says
why it is outside the lock). `Snapshot` and `WriteReport` take `mu` and go through the maps one after the other. `counted` is history: the
set of events that have been counted. An event carries its response and its place, so "once",
"in order" and "all of a call" can be said.

`Serving` is `cmdProxy`: a signal is logged and starts `Shutdown` on a goroutine nobody
waits for, `ListenAndServe` returns at once, the main goroutine writes the report and the
process is gone, with whatever was in flight. The hooks, the handler's "draining" and the
sections of the report go to one stderr, and `stderr` is who is in a write to it. A write
ends or does not: a full pipe that nobody reads blocks whoever is writing and, behind the
logger's mutex and the file's, everyone who wants to write next. The hook holds no lock of the
census then; `WriteReport` holds `mu` throughout.

Fairness: a response in `Record` gets `mu` although others take it in between and goes on
when it has it, main goes on from one write to the next, and main and the handler get their
turn at stderr (strong, as for the coalescer). That a write ends is assumed of nobody.
`CountingGoesOn` needs no more, until the report is being printed. `SignalEnds` has the
condition in its statement, `WritesEnd`: with a stderr that is never read the process does not
end on a signal, and `SignalEndsUnread` says what that costs (`BlockedLog`, section 5).

### CorpusDiff

The crawl has the source's two queues, one set of seen paths and two budgets; `compare`
fetches the canonical side and then, in a later step, the variant's, so that the site may be
edited in between. The variant's answer is `Pipeline`'s `ModifyResponse` of what the
application says then, or, in a deployment where the proxy is not in the path, that answer
itself. A fetch may find the upstream down, break off, or come back short. `Mismatch`,
`OriginsIn`, `InTier2`, `Same` and `Red` are the tests of `compare` and `WriteReport`.
`ApplyLikeTheProxy` is the diff's own copy of the proxy's dispatch, written out apart from
`Pipeline`'s as it is in the source. The detectors of serialized data are judged in
`Serialized`; the parsing of links, `--resolve` and the literal scan are left out.

What a verdict is measured against is stated without the diff's own tests. Green must be true
for whoever reads what was fetched (`Exposed`): a body the browser can read shows no canonical
origin, but in a document no grammar can parse and there only where a byte sweep cannot
see; and a `Location` counts when the status is a redirect's, for a browser follows no other
(`unchangedSelfRedirect` does not look at the status). `Healthy` is what a site must be for red
to be wrong: the proxy is in the path and live, nothing failed, and its answers are whole and
readable, which leaves out a `206` and a body whose header names a coding it is not in: the proxy
passes both on as they are, and the diff reads what it can of them. And no comparison straddles
a change that is too large (`Kept`): an `Edit` may turn a page into any other, of another size,
type, status or `Location`; before and after the comparison of that page it may do so freely,
but between its two fetches the status and the `Location` must stay and the size must keep
within eight lines and a quarter. A larger change there does make the report red on a healthy
site; it knows that "a live site differs between two fetches" (`diff.go:297`), and has
nothing to tell such a page from one the proxy served half.

Left out besides: an origin that the engine itself declines is not seen by a leak scan that
runs the engine (`diff.go:360`), which is what the literal scan is for; it only adds a note.

## 3. The runs

| Run | Question | Bounds |
|---|---|---|
| `FlushCoalescer` | Who is in the writer, who owes a flush, is the promise kept? | one handler, hook and late flusher, two timer goroutines (one more than can be under way), three writes |
| `Exchange` | For every request, answer and combination of flags, identity included: what leaks, what do headers claim, is a failure seen? | texts of at most one mention, every place and space; every media type, encoding, status class; one hint |
| `Worktrees` | Does the database stay canonical and a browser in its space, whatever is read, saved, cached and restarted? | two worktrees, one JSON page, two saves, each possibly over the cap, with or without an edit |
| `Uploads` | Do redirects end and caches keep worktrees apart? | two worktrees, one HTML page which one of them lacks, one save |
| `HostMap` | Which maps are accepted, and under those is a mention one site's, rewritten once, followed and saved home? | two sites over four hosts, both schemes, a declared port and none, an alias, equal names; mentions with each default port written out |
| `Sweep` | Is the output the same wherever the reads fall, is each match counted once and in its place, and is what is rewritten what a browser would resolve to the canonical origin? | one reference in five left contexts with twenty-four tails, alone, before filler or before a second one; reads of one to three bytes, the end or a failure anywhere |
| `Serialized` | Is a value repaired whole or not at all, in every spelling and nesting; does a row survive views and saves; do the detectors agree? | twenty-eight rows: each container, hosts of either scheme at the start and end of data, data that looks like the grammar, values nested up to one deeper than `maxSerializedDepth` (3 here, 32 in the source), wrong lengths inside; nineteen pages, five ways to post; saves without bound |
| `ForeignContent` | Does the rewriter decode where the browser does, and nowhere else? | every valid document, one name per class of element, points and vocabularies in each other, up to six elements open |
| `Census` | Is a report of one moment, is the trace of whole calls, is the hook told all; does counting go on while a hook's write blocks, and does a signal end the process when writes end? | two responses of two events in calls of one or two, one surface, room for three events, a hook that asks; a signal at any time |
| `CorpusDiff` | Is green true, is a healthy deployment green, do pages and assets leave each other their budget? | five paths, every small set of links between three pages and a stylesheet; every shape of content and every redirect; the proxy in the path and not, with each flag; `-n` negative, 0 (unbounded), 1 and 2, or a given list; one edit or failure in a run, the edit to another text, to sizes on both sides of each bound, another status or a redirect |
| `GluedValue`, `Drain` | expected violations, section 5 | |

Configurations that are not in this table (`CompressCut`, `HeadLength`, `StrictCache`,
`RestartLive`, `SweepPorts`, `HostPorts`, `StrayTag`, `NestedPoint`, `BlockedLog`, `CrawlDisplaced`,
`DiffAttachment`) each
show one disagreement of section 5; TLC finds each of them violated with
`tlc -config <name>.cfg <module>`.

Why these are enough. Every operator of `Pipeline` treats mentions independently of
each other, so a text of one mention shows all it can do to a text; two mentions only
matter where a text is compared with another as a whole, which the two-mention store of
`Worktrees` does. Two worktrees are the one that wrote and the one that reads; a third
would be another reader. A host map's errors each relate two pairs, so two sites, one of them with
an alias, show every one; more sites add more such couples, and the proof below needs no
bound. A match is decided within `MaxMatchLen` bytes of where it begins, so a document of
one reference with a window of filler behind it reaches every position of a read relative
to a match; the second reference shows the left context carried over. Two saves give one that stores and
one that overwrites it with what was read before.

For the newer ones: the repair looks at a value through its tokens, so one row per shape (a
container, a nesting, a piece of data that resembles the grammar) in every pair of spellings
covers what a longer string would repeat; the depth limit is reached by the row with three
nested strings in a fourth and passed by a string in four arrays. The rules of foreign content look at the top of a stack and at
the nearest element of a name: six open elements hold a vocabulary, an integration point, a
second vocabulary with a point in it, and one element to break out of each. In the census two
responses suffice for every interleaving of one counting with one waiting or in its hook, and
what is proved needs no bound. In the corpus diff a verdict is a disjunction over paths, so
one path carries the content and two others only have to be there.

## 4. What is proved

`FlushCoalescerProofs` proves, for any number of callers, hooks, late flushers and
timer goroutines and any number of writes, from the assumptions that these sets are
disjoint (`ThreadsAssumption`): every invariant and the action property of the run
`FlushCoalescer`, that at most one timer is alive (`OneTimer`) and that a stopped writer is not
touched (`Untouched`), and that each step of the coalescer is a step of `DeferredFlush` or a
stutter (`Refinement`, the safety half of `KeepsPromise`). The invariants are not
inductive. The strengthening `Inv` adds who holds `mu` (exactly the goroutine inside the
writer), which goroutines may be where once `stopped` is set, that a timer and its
goroutine are never both alive and that either means a flush is owed, and that after a
hijack nothing is under way. One lemma per action shows it is kept.

`PipelineProofs` holds no theorem of its own. Its lemmas say of each operator, for every set of
spaces, every flag, request and response, what it leaves in a text (`RetargetMention`,
`HTMLLeaves`, `JSONLeaves`, `ArmHandles`), what it does to lengths and validators
(`FinishKeeps`, `CompressKeeps`), and then of the whole: `ModifyResponseOutcome` for a response,
`RequestBodyLeaves` for what goes upstream, `RoundTrip` for a page that is sent out and comes
back. The three modules on top of it cite these and do not expand `Pipeline` again. They assume
`SpacesAssumption` (the spaces are distinct) and `NoneAssumption`.

`ExchangeProofs` proves every property of the run `Exchange`, for any texts (the run has one
mention in each), any number of hints and any inputs. `Inv` is the history of the exchange: at
every phase it is one of begun, waiting, refused, unanswered or replied, and the variables are
the functions of `Pipeline` applied to what was asked and answered. Each property is then a
statement about those functions. `HonestHeaders` is stronger than what was first checked: the
attempt to prove it showed that its excuse for responses that are relayed as they are was not
needed.

The same module proves `BoundaryInvisible` and `CountedOnce` of the sweep, for every canonical host,
window (`WindowAssumption`) and set of documents, if their ports fit (`PortsFit`): however a
source's reads, failures and end fall, what comes out is a prefix of the document rewritten in one
piece, and what is reported is a prefix of its report. The hypothesis is the slack that
`MaxMatchLen` has for a port; what happens beyond it is the hazard listed at `matcher.go:163`. The
inductive invariant `SweepInv` says that the sweep is always where one pass
over the whole document is after `offset` places: `Whole(doc, offset)` has the events, `Decided`
the output, and `Settled` the one thing that is not visible from outside, that nothing considered
before `offset` reaches beyond it except an unanchored match, in which no other match begins. A
flush keeps it in three steps:

* a verdict is local (`VerdictAgree`): it reads at most `MaxMatchLen` bytes from where the candidate
  begins, and one byte before it; so a buffer that has these decides as the document does. Here
  `PortsFit` is used, and the bound on `RunAt(..., Removed)`;
* a round over the buffer runs beside the pass over the document (`Beside`, `BesideStep`,
  `Alongside`): place by place the same events, shifted, and the same output after the same prefix;
* what the round may consume beyond its limit is the rest of a match (`PassKnown`), and no candidate
  begins inside a match (`NoneInside`); so the next round begins where the pass would (`Round`).

That events and output only grow with `offset` (`EventsGrow`, `OutGrows`) makes them prefixes of
the whole.

From the same invariant follows what the sweep is for, `PlainRewrittenHolds`: of the references
that begin before `offset` each one that is spelled plainly has been recorded as rewritten, also
when the source fails, and at the end of the stream `offset` is all of it. `PlainReference` is the
scheme, the separator, the host, perhaps a root dot, perhaps a colon alone or with the default
port under any padding, and then the end of the authority; without removed bytes these are all
the references a browser reads in the documents of the run (`PlainIsAll`, which TLC evaluates).
Two facts carry it: the verdict on such a reference is "rewrote" (`PlainIs`), and no earlier match
can shadow it, as nothing a match consumes spells a scheme (`InsideIs`, `Unshadowed`).

The proofs are inductions over the places of a buffer, made with the least counterexample
(`LeastOf`, `UpTo`) as no induction theorem of the library can be instantiated.

`WorktreesProofs` proves, for any number of worktrees, pages, editors, saves and restarts:

* the types (`TypeCorrect`), which are not inductive. A `304` makes a browser show what it has,
  so it must have it: `Revalidates` says that a conditional request, or a `304` on its way, is
  only ever for a page in that browser's cache, and that the shared cache holds no `304`;
* `CacheKeepsApart`, if no proxy runs with `--dry-run` or `--strict-origins` (`NoDryRun`,
  `NoStrict`): those add no `Vary: Host`, and `StrictCache` shows what then happens. The
  invariant is that what is in the shared cache varies (`Varies`);
* `DatabaseCanonical`, `OwnSpace` and `SaveRestores`, if every proxy that is ever started is live
  (`LiveProxies`: neither `--dry-run` nor `--no-sweep`; `RestartLive` shows why), no worktree's
  hostname was in the database to begin with (`CanonicalStore`), and an editor adds no other
  worktree's hostname to a page (`OwnEdits`, which the code cannot know of: one proxy knows one
  variant). `Right` follows a text around the loop. `StoreRight`: a worktree's hostname in the database
  has a record. `ShownRight` and `SharedRight`: a page that is shown or cached is what its
  proxy makes of its `source` and the source was right. `FlightRight`: so is a page on its way,
  and what is on its way back to be saved is a page that was shown, with the editor's addition.
  Only with all of them does "what `modifyResponse` did, `rewriteRequestBody` undoes"
  (`RoundTrip`) reach from a save back to a read long before it.

The constants of the runs `Worktrees` and `Uploads` satisfy these hypotheses.

`CorpusDiffProofs` proves, for any site, any edits and failures and any flags, that green is
sound, and that a deployment is not called red if it is healthy and no edit between the two
fetches of a page was larger than the report allows for (`Kept`; `GreenIsSound`,
`HealthIsGreen`), if the proxy that is compared is a worktree's (`WorktreeProxies`: its variant is not the canonical
host). Both rest on `DispatchesAgree`: on every response that the proxy's rewriters get to read,
`applyLikeTheProxy` computes what `modifyResponse` sends, to the last mention. The source keeps
these two dispatches apart by hand, and a comment asks that they be kept equal. `Inv` says that
the results are the comparisons of what was fetched, whatever was edited since, that edits leave
which pages break off as it was, and that the verdict is about all results. The attempt to prove the two
as first stated failed on answers the bounded inputs did not have: JSON that does not parse, a
body mislabelled as compressed, a `206`, a `Location` on a `200`. The properties now say what
holds of those, and the run has the first three.

It proves of the crawl that neither kind of link starves the other (`NeitherIsStarved`), for any
site and budget. `Crawled` is the inductive invariant: the paths fetched and the two queues repeat
nothing and are apart, together they are what was seen, each queue has what its kind of link
named, and every link of a page that came whole has been seen. What `enqueue` takes of a page is
the lemma `FirstsAre`, an induction over the links made by hand. The property as first stated
counted the links of pages whose answer broke off, which `crawl` skips; the attempt to prove it
showed that, and the run now has such a page.

`HostMapProofs` proves, for any number of sites, aliases, hosts and spellings of ports,
every property of the run `HostMap`. It assumes what `Parse` gives (`SiteListsAssumption`:
ports are normalised) and `AllPlain`: no origin is declared on a port that is the other
scheme's default. `HostPorts` shows that the second is needed. The argument: with plain
ports a mention writes exactly the origins of one host and port (`WritesBare`), for which
`OneTargetPerHost` allows one variant and `DistinctVariantHosts` one site (`OneClaim`);
the variant that was written is matched by the same pairs as `Validate`'s probe, whatever
its form, so what `FixedPoint` says of the probe holds of it (`ForwardStays`); and a
variant's host picks one pair of the reverse matcher (`ReverseReturns`), whose target the
same site claims again (`CanonicalClaimed`). That the pair tried first exists is the
least-number principle (`FirstDecides`). `Inv` records, for each stage, that the mention
writes the origin its site has at that stage.

`ForeignContentProofs` proves `MarkWithinStack` for documents of any depth and any tags, in
place or not (`MarkHolds`). `foreignObjectAt` is an index into a stack that two things
shorten, `popForeign` and the break-out; the one clears a mark it would leave behind, the
other cuts at the mark. `w.foreignNS[:w.foreignObjectAt]` is therefore always a shortening;
in Go, a longer slice need not fail but may bring back elements that had been popped. That
`UpTo` returns a prefix (`PopCuts`) is all the argument needs of it, and one lemma per step of
`Read` shows the mark is kept.

For valid documents (`Tidy`, which is `~Astray`) it also proves the three properties that
compare the rewriter with the browser (`WithholdsNothing`, `DecodesNothingElse`,
`LeavesNothing`), of any length and depth. None is inductive: what a script at this point
decodes depends on elements opened long before. `Side` puts the two stacks next to each other,
and claims as much as `track` leaves. What is open is `Nested`: below the elements of a
vocabulary is its root, below HTML inside a vocabulary is an integration point. `Held` is so
even of a lost rewriter: an increasing map takes its elements to roots in the browser's stack,
its mark is at an integration point, with the elements above the mark those above the point,
and a title whose end it waits for is open, above all it knows. Until it is lost, `Full` says
that every root outside a title of `svg` is on its stack, and `Titles` that there is at most one
such title, an element to the browser and text to the tokenizer: the depth that
`openForeignBefore` reads back from the text is at least the number of roots in it. While it
sees clearly, `Clear` says that there is one integration point at most and the mark is there.

A tag then cuts both stacks at one place (`CutFollows`), puts an element on one or both
(`PushFollows`, `PushRoot`), sets the mark or gives it up; `Opens`, `Breaks`, `ClosesTop` and
`ClosesRoot` say which of these the browser does, and the lemmas from `StartBreaks` to `EndRoot`
take the kinds of tag one by one. `StartFollows` and `EndFollows` join them with what `track`
becomes. That the rewriter is back when it was lost is `NothingIn` and `NothingOpen`: where no
vocabulary is open to the browser, `Held` leaves it none and no mark. Of `WithholdsNothing` the
last step is `ForeignSeen`: above the mark's point the root nearest below the script is on the
rewriter's stack and not covered by the mark; and `TitleCounts` the same for the inside of a title.

`StatsProofs` proves, for any number of responses, surfaces and reasons and batches of any
length, that a report is of one moment (`ReportHolds`), that the trace keeps calls together
(`TraceHolds`) and that the hook is told all (`HookHolds`); and that all of it holds in the
process as in the component, because every step of `ServerSpec` is one of `Stats` or a stutter
(`CensusOfServer`). The three are not inductive. `Inv` ties the counters to the set of counted
events: who holds `mu` (`Holding`); how far each response has got in its call, and that the
counted events are exactly those up to there (`InBatch`, `CountedOnce`); that every counter is
the size of its part of that set (`Tallied`); that what a report has copied is what the
counters still are (`Copied`); and what the hook has heard (`Told`). A report can only be
taken when nobody is counting, and then every call is whole (`WholeWhenFree`).

Only model-checked:

* the liveness properties (`FlushHappens`, the fairness of `KeepsPromise`, `RequestsEnd`,
  `CountingGoesOn`, `SignalEnds`), which TLAPS cannot prove here;
* `OriginsExactly`: it is about the documents of its run and false of others, as `SweepPorts` shows
  of one; and its reference removes bytes with `SelectSeq`, of which the provers know nothing.
  The part of it that holds of every document is proved: that plain references are rewritten
  (`PlainRewrittenHolds`);
* `Serialized`, whose definitions are RECURSIVE over the nesting of values, and whose properties
  are about its rows and pages: data can always be made to look like the grammar around it.

`Sweep` states no liveness: a reader that is not read does nothing, and deadlock is checked
instead.

## 5. Disagreements found

Each is the name of the configuration that shows it.

* `GluedValue` (`Serialized`): a value glued to the text in front of it and followed by more (or
  nested beyond the depth limit) is not accepted, and is stepped over a byte at a time; a header inside its data is then taken
  for a value of its own and repaired, under an outer length that is not.
  `serialized.go:2062`, of the same step inside a string: "Skipping it instead was tried and
  is worse. It turns a decline into repairing the *pieces* of a structure this walk does not
  understand".
* `Drain` (`Serving`): "SIGTERM drains" (`main.go:531`), but `ListenAndServe` returns when
  `Shutdown` begins; the process exits with requests in flight, cut off and not in the report.
* `CrawlDisplaced` (`CorpusDiff`): a page that some `<link>` names before an `<a>` does is
  queued as a subresource and stays one; with the asset budget spent it is never compared,
  though the page budget is not. `diff.go:800`: "Pages up to `-n`, then subresources on top".
* `DiffAttachment` (`CorpusDiff`): an attachment with an origin in base64 makes a healthy
  deployment red, because `HiddenInBase64` is asked of every body. `diff.go:456`: "it is not
  counted at all".
* `StrayTag` (`ForeignContent`): with tags out of place the tracker can lose a vocabulary the
  browser is still in, and withhold. `html.go:74`: "anything that loses track resolves to
  'still foreign', which over-decodes".
* `NestedPoint` (`ForeignContent`): so it does on valid documents. In
  `<svg><foreignObject><svg><title>t</title></svg><div></div></foreignObject><style>` the end tag
  of the inner title clears the outer mark (`html.go:1306`), the `div` cuts the stack to nothing
  (`html.go:1214`), and the style, in `svg` to the browser, is not decoded. The same after
  `<svg><desc><svg><desc><div></div></desc></svg></desc>`; after `<math><mi><mglyph/><br></mi>`,
  where the mark is given up and the `br` cuts; after
  `<svg><title><svg><title>t</title></svg></title>`, where the tokenizer ends both titles at the
  first end tag; and after `<svg><title/>`, whose end it waits for.
  `foreign_oracle_test.go:27`: "What is never allowed is the leak: an origin the parser resolves,
  left naming production"; `html.go:1288`: "a nested pair resolves to 'foreign', which
  over-decodes".
* `CompressCut`: `compressBody` turns a read error into an empty body; the page is
  delivered as a complete, empty `200`. The error handler's comment: "upstream failure is
  surfaced, not swallowed".
* `HeadLength`: a `HEAD` of a JSON document reports the upstream's length although a
  `GET` is answered with a rewritten, longer or shorter one. `transport.go`: "a HEAD is
  required to report the length a GET would send".
* `StrictCache`: the `404` that `--strict-origins` makes of a self-redirect is built
  before `Vary: Host` is added, and a `404` may be cached: the neighbour, who has the
  file, gets it. `finishBody`: "every response varies".
* `RestartLive`: a page cached under `--dry-run` keeps the upstream's `ETag`; after a
  restart without the flag its revalidation is answered `304` and production's origins
  are shown. `finishBody`: "a conditional request returns 304 and the browser serves a
  cached canonical-bearing body".
* `SweepPorts`: the matcher looks for a port directly after the host, and walks over tab,
  LF and CR only when it asks whether the host has ended; `https://host<TAB>:9/` is
  rewritten as the bare host, though a URL parser removes the tab and reads another
  origin. The comment on the same gap, closed for escaped colons (`matcher.go:872`): "a
  *different* origin from www.example.fi and which this map does not name".
* `HostPorts`: `Validate` probes a variant with its scheme only. A variant
  `http://c1:443` next to a canonical `https://c1` is accepted, and the mention `//c2`
  becomes `//c1:443`, which the sweep rewrites again. `matcher.go:280`: "running this
  automaton over each *variant* origin yields zero matches".

Observations the models rest on, short of a contradiction:

* `Serialized`: some values pass no field test in one detector and some in neither. A row such
  as the string `&";h` served with references has two readings once repaired, so
  `BrokenSerialized` counts a value that is right (`Disputed`); a stale length may cut a value
  short at a point where it still parses, which neither detector sees (`CutShort`).
  `UnreadSerialized` bounds what changed on a page by the first and the last change. A row
  whose length was wrong before may be healed on its way back.
* `Serialized`: the round trip of a sound row is exact only without http mentions, as
  `serialized.go:2338` says: `http://canonical` comes back as `https://canonical`, a byte longer.
  Where the page and the post were both repaired the lengths follow; where the repair was
  declined on the way the row is stored under lengths that do not, and PHP refuses it.
  `RowRestored` claims this and no more: it allows wrong lengths to a row that went that way
  (`stale`), and otherwise the row as it was or as it is over https with right lengths. Later
  pages of a stale row may be repaired to other lengths, from where a short count happens to
  close; the other properties leave such rows out.
* The matcher declines `https://h:x`, "a value no browser resolves" (`matcher.go:1352`), and
  rewrites `https://h::x`, `https://h:443:x` and `https://h:443.`: a colon and a full stop before a
  delimiter end a host wherever they stand.
* `occupiesItsField` tests for `\"` after it has tested for `"`, so the JSON case at
  `serialized.go:2444` is never reached; the behaviour is that of the quote.
* Out-of-place tags for which the tracker differs from the browser: a script after
  `<svg><g><desc></g>`, a style after `<svg><svg><title></svg>`, after
  `<math><annotation-xml><svg><mi>`. In place, but over-decoded: what follows an `mglyph`, and
  the rest of an integration point after a nested one was closed.
* `hostshift diff` has an option `StrictOrigins` that "mirrors the proxy flag", which the
  command never sets. A body in a coding it cannot undo is compared, and found equal, as it
  is.
* `BlockedLog` (`Serving`): with nobody reading stderr a signal does not end the process. The
  handler logs "draining" before it calls `Shutdown` (`main.go:537`) and waits behind a hook's
  write, or in its own, so that the listener is not even closed; past that the report blocks in
  its first section, with `mu` held, and stops the counting of every response still in flight,
  which is what `stats.go:150` says the hook must not do.
* `Snapshot` does not say that the sweep was off, `WriteReport` does. `NewStats` says that
  without `explain` only rewrites are recorded; skips are counted too.

## 6. Not modelled, and the plan

* How a host is spelled in HTML, CSS, JavaScript, percent and JSON escapes (`urlobf.go`,
  `entity.go`, `attrspan.go`), what base64 is, IDN folding: normalisations of bytes without
  state. They decide *which* mentions are `escaped`, and are abstracted to that.
* `Content-Encoding` on requests, chains of proxies, `Refresh`/`Link` header syntax.
* Of the matcher: several hosts in one automaton, the other encodings of a separator, and
  the surfaces other than the sweep's.
* The multipart scanner and the JSON parser: by effect, in `Pipeline`.
* Configuration, the DDEV reader and the command line's flags: a precedence of strings and
  the parsing of files, settled before anything runs.
* The DDEV add-on: a shell script over git, docker and ddev, whose behaviour is theirs.

Next, in this order:

1. The multipart scanner as a state machine over token classes against what PHP would read;
   the JSON rewriter's all-or-nothing.
2. The attribute spans of the HTML rewriter, and the surfaces of the matcher that end where a
   value ends.
3. The layers of the configuration, as far as two of them can disagree.
