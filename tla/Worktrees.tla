------------------------------ MODULE Worktrees ------------------------------
(***************************************************************************)
(* The deployment hostshift exists for: several worktrees of one site, one *)
(* proxy and one checkout each, all on one database; a browser on each     *)
(* variant with a cache of its own, and one HTTP cache, keyed on the path  *)
(* and obeying Vary, in front of them all.  Pages are read, edited and     *)
(* saved back concurrently.  The proxies run Pipeline; the browsers, the   *)
(* caches and the application are what the code assumes of them.           *)
(***************************************************************************)
EXTENDS Pipeline, Naturals

CONSTANTS
  Started,   \* the configuration each worktree's proxy starts with
  Restarted, \* those it may be restarted with
  Shape,     \* the media type of each page
  Hardcoded, \* the paths each checkout lacks and its web server redirects to
             \* the canonical host
  Stored,    \* what the database holds at first
  Edits,     \* what an editor may add to a page before saving it
  Sizes,     \* whether a save may exceed the size cap
  MaxSaves   \* bound on the saves, over all worktrees

Texts == SUBSET Mentions

ASSUME DeploymentAssumption ==
  /\ Started \in [Others -> Configs]
  /\ Restarted \in [Others -> SUBSET Configs]
  /\ \A w \in Others : \A c \in Restarted[w] \cup {Started[w]} : c.variant = w
  /\ Shape \in [Paths -> {"html", "json"}]
  /\ Hardcoded \in [Others -> SUBSET Paths]
  /\ Stored \in [Paths -> Texts]
  /\ Edits \in [Others -> SUBSET Texts]
  /\ Sizes \subseteq BOOLEAN
  /\ MaxSaves \in Nat

VARIABLES
  cfg,     \* what each proxy runs with
  db,      \* the shared database
  flight,  \* each browser's request, wherever it is, or None
  shown,   \* the page each browser shows, or None
  private, \* each browser's own cache
  shared,  \* the cache in front
  log,     \* what each proxy recorded
  saves

vars == <<cfg, db, flight, shown, private, shared, log, saves>>

Init ==
  /\ cfg = Started
  /\ db = Stored
  /\ flight = [w \in Others |-> None]
  /\ shown = [w \in Others |-> None]
  /\ private = [w \in Others |-> [p \in Paths |-> None]]
  /\ shared = [p \in Paths |-> None]
  /\ log = [w \in Others |-> {}]
  /\ saves = 0

-----------------------------------------------------------------------------
(* The browser. *)

Get(w, p) ==
  [method |-> "GET", url |-> [space |-> w, path |-> p], kind |-> "none",
   body |-> {}, line |-> {}, big |-> FALSE, cut |-> FALSE, range |-> FALSE,
   gzip |-> TRUE,
   match |-> IF private[w][p] = None THEN None ELSE private[w][p].resp.etag]

Asking(q, edit, source) ==
  [at |-> "cache", req |-> q, edit |-> edit, source |-> source]

Browse(w, p) ==
  /\ flight[w] = None
  /\ flight' = [flight EXCEPT ![w] = Asking(Get(w, p), {}, {})]
  /\ UNCHANGED <<cfg, db, shown, private, shared, log, saves>>

\* The page that is shown goes back, with or without an addition.
Save(w, edit, big) ==
  /\ flight[w] = None
  /\ shown[w] # None
  /\ saves < MaxSaves
  /\ saves' = saves + 1
  /\ flight' = [flight EXCEPT ![w] =
       Asking([Get(w, shown[w].path) EXCEPT
                 !.method = "POST", !.kind = IF Shape[shown[w].path] = "json" THEN "json" ELSE "flat",
                 !.body = shown[w].text \cup edit, !.big = big, !.match = None],
              edit, shown[w].source)]
  /\ UNCHANGED <<cfg, db, shown, private, shared, log>>

\* A redirect within the variant is followed, with GET; any other leaves it.
Deliver(w) ==
  /\ flight[w] # None
  /\ flight[w].at = "back"
  /\ LET p   == flight[w].req.url.path
         got == flight[w].got
         r   == got.resp
     IN  /\ flight' = [flight EXCEPT ![w] =
              IF r.status \in Redirects /\ r.location # None /\ r.location.space = w
              THEN Asking(Get(w, r.location.path), {}, {})
              ELSE None]
         /\ shown' = [shown EXCEPT ![w] =
              CASE r.status = "200" -> [path |-> p, text |-> r.text, source |-> got.source]
                [] r.status = "304" -> [path |-> p, text |-> private[w][p].resp.text,
                                        source |-> private[w][p].source]
                [] OTHER -> None]
         /\ private' = IF r.status = "200"
                       THEN [private EXCEPT ![w][p] = IF r.etag = None THEN None ELSE got]
                       ELSE private
  /\ UNCHANGED <<cfg, db, shared, log, saves>>

-----------------------------------------------------------------------------
(* The cache in front: it answers what it may, and keeps what it may. *)

Usable(w, p) ==
  /\ shared[p] # None
  /\ "Host" \in shared[p].got.resp.vary => shared[p].host = w

CacheAnswers(w) ==
  /\ flight[w] # None
  /\ flight[w].at = "cache"
  /\ flight[w].req.method = "GET"
  /\ Usable(w, flight[w].req.url.path)
  /\ flight' = [flight EXCEPT ![w] =
       [at |-> "back", req |-> @.req, edit |-> @.edit,
        got |-> shared[@.req.url.path].got]]
  /\ UNCHANGED <<cfg, db, shown, private, shared, log, saves>>

Cacheable(q, r) == q.method = "GET" /\ r.status \in {"200", "301", "308", "404"}

Evict(p) ==
  /\ shared[p] # None
  /\ shared' = [shared EXCEPT ![p] = None]
  /\ UNCHANGED <<cfg, db, flight, shown, private, log, saves>>

-----------------------------------------------------------------------------
(* The proxy, the checkout behind it, and the database. *)

Request(w) ==
  /\ flight[w] # None
  /\ flight[w].at = "cache"
  /\ flight[w].req.method = "GET" => ~Usable(w, flight[w].req.url.path)
  /\ flight' = [flight EXCEPT ![w].at = "upstream"]
  /\ log' = [log EXCEPT ![w] = @ \cup RequestLog(cfg[w], flight[w].req)]
  /\ UNCHANGED <<cfg, db, shown, private, shared, saves>>

Moved(status, p) ==
  [Plain(status) EXCEPT !.location = [space |-> Canon, path |-> p]]

\* What the application answers.  A page's validator names its content; a
\* stored page is answered with a redirect to it.
Reply(w, q) ==
  LET p    == q.url.path
      body == [text |-> db[p], coding |-> "identity"]
  IN  IF q.method = "POST" THEN Moved("302", p)
      ELSE IF p \in Hardcoded[w] THEN Moved("301", p)
      ELSE IF q.match = body THEN [Plain("304") EXCEPT !.empty = TRUE, !.etag = body]
      ELSE [Plain("200") EXCEPT !.ct = Shape[p], !.json = IF Shape[p] = "json" THEN "ok" ELSE "no",
              !.text = db[p], !.length = body, !.etag = body]

Answer(w) ==
  /\ flight[w] # None
  /\ flight[w].at = "upstream"
  /\ LET q   == Forwarded(cfg[w], flight[w].req)
         x   == ModifyResponse(cfg[w], flight[w].req, Reply(w, q))
         p   == q.url.path
         got == [resp |-> x.resp, source |-> db[p]]
     IN  /\ db' = IF q.method = "POST" THEN [db EXCEPT ![p] = q.body] ELSE db
         /\ flight' = [flight EXCEPT ![w] =
              [at |-> "back", req |-> @.req, edit |-> @.edit, got |-> got]]
         /\ shared' = IF Cacheable(q, x.resp)
                      THEN [shared EXCEPT ![p] = [host |-> w, got |-> got]]
                      ELSE shared
         /\ log' = [log EXCEPT ![w] = @ \cup x.log]
  /\ UNCHANGED <<cfg, shown, private, saves>>

Restart(w, c) ==
  /\ flight[w] = None
  /\ c # cfg[w]
  /\ cfg' = [cfg EXCEPT ![w] = c]
  /\ UNCHANGED <<db, flight, shown, private, shared, log, saves>>

-----------------------------------------------------------------------------
Proxying(w) == CacheAnswers(w) \/ Request(w) \/ Answer(w) \/ Deliver(w)

Next ==
  \/ \E w \in Others :
       \/ \E p \in Paths : Browse(w, p)
       \/ \E e \in Edits[w] \cup {{}}, b \in Sizes : Save(w, e, b)
       \/ \E c \in Restarted[w] : Restart(w, c)
       \/ Proxying(w)
  \/ \E p \in Paths : Evict(p)

\* Whoever has a request passes it on; nobody has to make one.
Spec == Init /\ [][Next]_vars /\ \A w \in Others : WF_vars(Proxying(w))

-----------------------------------------------------------------------------
Recorded(w) == log[w] \cap {"size-cap", "not-decodable", "base64"} # {}

\* A worktree's hostname is in the shared database only if that worktree's own
\* proxy recorded that it let it through, whoever saved it last.
DatabaseCanonical ==
  \A p \in Paths : \A m \in db[p] : m.space \in Others => Recorded(m.space)

\* What a browser shows, fetched, cached or revalidated, never names the
\* canonical host or, but for a recorded escape, another worktree's; nothing
\* but base64 is excepted.
OwnSpace ==
  \A w \in Others : shown[w] # None =>
    \A m \in shown[w].text :
      \/ m.space = w
      \/ m.place = "hidden"
      \/ m.space \in Others /\ Recorded(m.space)

\* Every request ends: no redirect sends a browser round in circles.
RequestsEnd == \A w \in Others : flight[w] # None ~> flight[w] = None

\* A page that is saved as it was shown is stored as it was read, aliases
\* corrected to the primary canonical host, however much later and whatever
\* was stored in between.
Primary(text) == Retarget(text, Aliases, Canon, Flat)

Unedited(w) ==
  /\ flight[w] # None
  /\ flight[w].at = "upstream"
  /\ flight[w].req.method = "POST"
  /\ flight[w].edit = {}
  /\ ~Recorded(w)

SaveRestores ==
  [][ \A w \in Others :
        Unedited(w) /\ flight'[w] # flight[w] =>
          db'[flight[w].req.url.path] = Primary(flight[w].source) ]_vars

\* A response one worktree's proxy made never comes out of the cache at
\* another.
CacheKeepsApart ==
  \A p \in Paths : \A w \in Others :
    shared[p] # None /\ Usable(w, p) => shared[p].host = w

\* internal/proxy/proxy.go, where finishBody drops the validators: a conditional
\* request must not make the browser serve a cached canonical-bearing body.
RevalidatedOwnSpace ==
  [][ \A w \in Others :
        /\ flight[w] # None
        /\ flight[w].at = "back"
        /\ flight[w].got.resp.status = "304"
        /\ ~cfg[w].dryRun
        /\ flight'[w] # flight[w]
        => \A m \in shown'[w].text : m.space \in CanonicalSet => m.place = "hidden" ]_vars
=============================================================================
