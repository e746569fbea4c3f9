-------------------------- MODULE WorktreesProofs ---------------------------
(***************************************************************************)
(* What the worktrees of one site may do to each other through the         *)
(* database and the caches they share, for any number of worktrees, pages, *)
(* editors, saves and restarts, and any texts.  What one request and one   *)
(* response become is in PipelineProofs; here is where their texts go.     *)
(***************************************************************************)
EXTENDS Worktrees, PipelineProofs

\* The deployments the theorems are about.  A live proxy runs every pass; what
\* the others do to a database is what their flags are documented to do.
LiveProxies == \A w \in Others : \A c \in Restarted[w] \cup {Started[w]} : Live(c)
NoDryRun    == \A w \in Others : \A c \in Restarted[w] \cup {Started[w]} : ~c.dryRun
NoStrict    == \A w \in Others : \A c \in Restarted[w] \cup {Started[w]} : ~c.strict

\* The site was there first, and an editor writes the hostname in the address
\* bar and no other worktree's.
CanonicalStore == \A p \in Paths : \A m \in Stored[p] : m.space \notin Others
OwnEdits ==
  \A w \in Others : \A e \in Edits[w] : \A m \in e : m.space \in Others => m.space = w

-----------------------------------------------------------------------------
(* Types. *)

Got      == [resp : ResponseRecords, source : Texts]
Outward  == [at : {"cache", "upstream"}, req : Requests, edit : Texts, source : Texts]
Homeward == [at : {"back"}, req : Requests, edit : Texts, got : Got]
Page     == [path : Paths, text : Texts, source : Texts]

TypeOK ==
  /\ cfg \in [Others -> Configs]
  /\ \A w \in Others : cfg[w] \in Restarted[w] \cup {Started[w]}
  /\ db \in [Paths -> Texts]
  /\ flight \in [Others -> Outward \cup Homeward \cup {None}]
  /\ shown \in [Others -> Page \cup {None}]
  /\ private \in [Others -> [Paths -> Got \cup {None}]]
  /\ shared \in [Paths -> [host : Others, got : Got] \cup {None}]
  /\ log = [w \in Others |-> log[w]]
  /\ saves \in Nat

\* Who asks, and is answered, "not modified" still has the page: without it the
\* types would not be inductive.
Revalidates ==
  /\ \A w \in Others : flight[w] # None =>
       LET f == flight[w]
       IN  /\ f.req.url.space = w
           /\ f.at # "back" /\ f.req.match # None => private[w][f.req.url.path] # None
           /\ f.at = "back" /\ f.got.resp.status = "304" => private[w][f.req.url.path] # None
  /\ \A p \in Paths : shared[p] # None => shared[p].got.resp.status # "304"

LEMMA GetIsRequest ==
    ASSUME TypeOK, NEW w \in Others, NEW p \in Paths
    PROVE  Get(w, p) \in Requests
<1>1. (IF private[w][p] = None THEN None ELSE private[w][p].resp.etag) \in Bodies \cup {None}
  BY DEF TypeOK, Got, ResponseRecords
<1>2. [space |-> w, path |-> p] \in URLs
  BY DEF URLs, Spaces
<1> QED
  BY <1>1, <1>2 DEF Get, Requests, Methods, Kinds

LEMMA AskingIsOutward ==
    ASSUME NEW q \in Requests, NEW edit \in Texts, NEW source \in Texts
    PROVE  Asking(q, edit, source) \in Outward
BY DEF Asking, Outward

\* What each worktree's proxy runs with.
LEMMA Running ==
    ASSUME TypeOK, NEW w \in Others
    PROVE  /\ cfg[w] \in Configs /\ cfg[w].variant = w /\ ~Identity(cfg[w])
           /\ cfg[w] \in Restarted[w] \cup {Started[w]}
           /\ cfg[w].variant # Canon /\ w \notin CanonicalSet
BY DeploymentAssumption, SpacesAssumption DEF TypeOK, DeploymentAssumption, SpacesAssumption, CanonicalSet, Identity

LEMMA ReplyIsResponse ==
    ASSUME TypeOK, NEW w \in Others, NEW q \in Requests
    PROVE  /\ Reply(w, q) \in Responses
           /\ Reply(w, q).status \in {"200", "301", "302", "304"}
           /\ Reply(w, q).status = "200" =>
                /\ q.method # "POST"
                /\ ModelPage(Reply(w, q)) /\ Reply(w, q).text = db[q.url.path]
           /\ Reply(w, q).status = "304" => q.match # None
<1> DEFINE p == q.url.path
           body == [text |-> db[p], coding |-> "identity"]
<1>1. p \in Paths /\ db[p] \in SUBSET Mentions /\ body \in Bodies
  BY DEF TypeOK, Requests, URLs, Texts, Bodies, Codings
<1>2. ASSUME NEW code \in Statuses
      PROVE  Plain(code) \in Responses /\ Moved(code, p) \in Responses
             /\ Plain(code).status = code /\ Moved(code, p).status = code
  BY <1>1, <1>2 DEF Plain, Moved, Responses, ResponseRecords, Types, Bodies, Codings, URLs, Spaces, CanonicalSet
<1>3. CASE q.method = "POST"
  BY <1>2, <1>3 DEF Reply, Statuses, Redirects
<1>4. CASE q.method # "POST" /\ p \in Hardcoded[w]
  BY <1>2, <1>4 DEF Reply, Statuses, Redirects
<1>5. CASE q.method # "POST" /\ p \notin Hardcoded[w] /\ q.match = body
  <2>1. Reply(w, q) = [Plain("304") EXCEPT !.empty = TRUE, !.etag = body]
    BY <1>5 DEF Reply
  <2>2. q.match # None
    BY <1>1, <1>5, NoneAssumption
  <2> HIDE DEF body
  <2> DEFINE r == Plain("304")
  <2>3. r \in Responses /\ r.status = "304" /\ Reply(w, q) = [r EXCEPT !.empty = TRUE, !.etag = body]
        /\ r.text = {}
    BY <1>2, <2>1 DEF Statuses, Plain
  <2> HIDE DEF r
  <2> QED
    BY <1>1, <2>2, <2>3 DEF Responses, ResponseRecords
<1>6. CASE q.method # "POST" /\ p \notin Hardcoded[w] /\ q.match # body
  <2> DEFINE json == IF Shape[p] = "json" THEN "ok" ELSE "no"
  <2>1. Reply(w, q) = [Plain("200") EXCEPT !.ct = Shape[p], !.json = json,
                         !.text = db[p], !.length = body, !.etag = body]
    BY <1>6 DEF Reply
  <2>2. Shape[p] \in {"html", "json"}
    BY <1>1, DeploymentAssumption
  <2> HIDE DEF body
  <2> DEFINE r == Plain("200")
  <2>3. /\ r \in ResponseRecords /\ ~r.empty
        /\ r.encoding = "identity" /\ r.coding = "identity"
    BY <1>2 DEF Statuses, Plain, Responses
  <2>4. json \in {"ok", "bad", "no"} /\ Shape[p] \in Types
    BY <2>2 DEF Types
  <2>5. Reply(w, q) = [r EXCEPT !.ct = Shape[p], !.json = json, !.text = db[p],
                                !.length = body, !.etag = body]
    BY <2>1
  <2>6. Reply(w, q) \in Responses
    <3> HIDE DEF r, json
    <3>1. Reply(w, q) \in ResponseRecords
      BY <1>1, <2>3, <2>4, <2>5 DEF ResponseRecords
    <3>2. /\ Reply(w, q).encoding = "identity" /\ Reply(w, q).coding = "identity"
          /\ ~Reply(w, q).empty
      BY <2>3, <2>5 DEF ResponseRecords
    <3> QED
      BY <3>1, <3>2 DEF Responses
  <2>7. ModelPage(Reply(w, q)) /\ Reply(w, q).text = db[p]
    BY <2>1, <2>2 DEF Plain, ModelPage
  <2> QED
    BY <1>6, <2>6, <2>7 DEF ModelPage
<1> QED
  BY <1>3, <1>4, <1>5, <1>6

\* What a browser is sent of the application's answer.
LEMMA Relays ==
    ASSUME TypeOK, NEW w \in Others, NEW a \in Requests, NEW q \in Requests
    PROVE  LET r == Reply(w, q)
               x == ModifyResponse(cfg[w], a, r)
           IN  /\ x.resp \in ResponseRecords
               /\ x.resp.status \in {"404", r.status}
               /\ x.resp.status = "404" => cfg[w].strict
               /\ ~cfg[w].dryRun /\ x.resp.status # "404" => "Host" \in x.resp.vary
               /\ Live(cfg[w]) /\ x.resp.status = "200" =>
                    x.resp.text = Retarget(db[q.url.path], CanonicalSet, w, Flat)
<1> DEFINE r == Reply(w, q)
           x == ModifyResponse(cfg[w], a, r)
<1>1. /\ r \in Responses /\ r.status \in {"200", "301", "302", "304"} /\ ~r.cut
      /\ r.status = "200" => ModelPage(r) /\ r.text = db[q.url.path]
  <2>1. ~r.cut
    BY DEF Reply, Moved, Plain
  <2> QED
    BY <2>1, ReplyIsResponse
<1>2. cfg[w] \in Configs /\ cfg[w].variant = w /\ ~Identity(cfg[w])
  BY Running
<1> HIDE DEF r
<1>3. \/ cfg[w].strict /\ x.resp = Plain("404")
      \/ /\ x.resp \in ResponseRecords /\ x.resp.status = r.status
         /\ ~cfg[w].dryRun => "Host" \in x.resp.vary
  BY <1>1, <1>2, ModifyResponseOutcome DEF Blanked, Unchanging
<1>4. Plain("404") \in ResponseRecords /\ Plain("404").status = "404"
  BY DEF Plain, ResponseRecords, Types, Bodies, Codings, Statuses
<1>5. Live(cfg[w]) /\ r.status = "200" =>
        x.resp.text = Retarget(r.text, CanonicalSet, w, Flat)
  BY <1>1, <1>2, PageText
<1> HIDE DEF x
<1>6. x.resp.status = "200" => r.status = "200"
  BY <1>3, <1>4
<1> QED
  BY <1>1, <1>3, <1>4, <1>5, <1>6 DEF r, x

-----------------------------------------------------------------------------
(* Types, step by step. *)

LEMMA BrowseTypes ==
    ASSUME TypeOK, NEW w \in Others, NEW p \in Paths, Browse(w, p)
    PROVE  TypeOK'
<1>1. Asking(Get(w, p), {}, {}) \in Outward
  BY GetIsRequest, AskingIsOutward DEF Texts
<1> QED
  BY <1>1 DEF TypeOK, Browse

\* What a save asks.
Saving(w, edit, big) ==
  [Get(w, shown[w].path) EXCEPT
     !.method = "POST", !.kind = IF Shape[shown[w].path] = "json" THEN "json" ELSE "flat",
     !.body = shown[w].text \cup edit, !.big = big, !.match = None]

LEMMA SavingIsRequest ==
    ASSUME TypeOK, NEW w \in Others, NEW edit \in Texts, NEW big \in BOOLEAN,
           shown[w] # None
    PROVE  LET q == Saving(w, edit, big)
           IN  /\ q \in Requests
               /\ q.url = [space |-> w, path |-> shown[w].path]
               /\ q.method = "POST" /\ q.kind \in {"flat", "json"} /\ q.match = None
               /\ q.body = shown[w].text \cup edit /\ ~q.cut
<1> DEFINE p == shown[w].path
           g == Get(w, p)
           kind == IF Shape[p] = "json" THEN "json" ELSE "flat"
           body == shown[w].text \cup edit
<1>1. shown[w] \in Page
  BY DEF TypeOK
<1>2. g \in Requests
  BY <1>1, GetIsRequest DEF Page
<1>3. g.url = [space |-> w, path |-> p] /\ g.cut = FALSE
  BY DEF Get
<1>4. body \in SUBSET Mentions /\ kind \in {"flat", "json"}
  BY <1>1 DEF Page, Texts
<1>5. Saving(w, edit, big) = [g EXCEPT !.method = "POST", !.kind = kind, !.body = body,
                                       !.big = big, !.match = None]
  BY DEF Saving
<1> HIDE DEF g, kind, body
<1>6. Saving(w, edit, big) \in Requests
  BY <1>2, <1>4, <1>5 DEF Requests, Methods, Kinds
<1> QED
  BY <1>2, <1>3, <1>4, <1>5, <1>6 DEF Requests, body

LEMMA SaveTypes ==
    ASSUME TypeOK, NEW w \in Others, NEW e \in Edits[w] \cup {{}}, NEW b \in Sizes,
           Save(w, e, b)
    PROVE  TypeOK'
<1>1. e \in Texts /\ b \in BOOLEAN
  BY DeploymentAssumption DEF DeploymentAssumption, Texts
<1>2. shown[w] \in Page
  BY DEF TypeOK, Save
<1>3. Asking(Saving(w, e, b), e, shown[w].source) \in Outward
  BY <1>1, <1>2, SavingIsRequest, AskingIsOutward DEF Save, Page
<1>4. flight' = [flight EXCEPT ![w] = Asking(Saving(w, e, b), e, shown[w].source)]
  BY DEF Save, Saving
<1> QED
  BY <1>3, <1>4 DEF TypeOK, Save

LEMMA FlightAt ==
    ASSUME TypeOK, NEW w \in Others, flight[w] # None
    PROVE  /\ flight[w].req \in Requests /\ flight[w].edit \in Texts
           /\ flight[w].req.url.path \in Paths
           /\ flight[w].at \in {"cache", "upstream", "back"}
           /\ flight[w].at = "back" => flight[w].got \in Got /\ flight[w] \in Homeward
           /\ flight[w].at # "back" => flight[w].source \in Texts /\ flight[w] \in Outward
BY DEF TypeOK, Outward, Homeward, Requests, URLs

LEMMA DeliverTypes ==
    ASSUME TypeOK, Revalidates, NEW w \in Others, Deliver(w)
    PROVE  TypeOK'
<1> DEFINE f == flight[w]
           p == f.req.url.path
           r == f.got.resp
           next == IF r.status \in Redirects /\ r.location # None /\ r.location.space = w
                   THEN Asking(Get(w, r.location.path), {}, {}) ELSE None
           page == CASE r.status = "200" -> [path |-> p, text |-> r.text, source |-> f.got.source]
                     [] r.status = "304" -> [path |-> p, text |-> private[w][p].resp.text,
                                             source |-> private[w][p].source]
                     [] OTHER -> None
           kept == IF r.etag = None THEN None ELSE f.got
<1>1. f # None /\ f.got \in Got /\ p \in Paths /\ r \in ResponseRecords
  BY FlightAt DEF Deliver, Got
<1>2. next \in Outward \cup {None}
  <2>1. CASE r.location # None
    <3>1. r.location.path \in Paths
      BY <1>1, <2>1 DEF ResponseRecords, URLs
    <3> QED
      BY <3>1, GetIsRequest, AskingIsOutward DEF Texts
  <2>2. CASE r.location = None
    BY <2>2
  <2> QED
    BY <2>1, <2>2
<1>3. page \in Page \cup {None}
  <2>1. r.status = "200" => page \in Page
    BY <1>1 DEF Got, ResponseRecords, Page, Texts
  <2>2. CASE r.status = "304"
    <3>1. private[w][p] \in Got
      BY <1>1, <2>2 DEF TypeOK, Revalidates, Deliver
    <3> QED
      BY <1>1, <2>2, <3>1 DEF Got, ResponseRecords, Page, Texts
  <2> QED
    BY <2>1, <2>2
<1>4. kept \in Got \cup {None}
  BY <1>1
<1>5. /\ flight' = [flight EXCEPT ![w] = next]
      /\ shown' = [shown EXCEPT ![w] = page]
      /\ private' = IF r.status = "200" THEN [private EXCEPT ![w][p] = kept] ELSE private
      /\ UNCHANGED <<cfg, db, shared, log, saves>>
  BY DEF Deliver
<1> HIDE DEF next, page, kept
<1>6. private' \in [Others -> [Paths -> Got \cup {None}]]
  BY <1>1, <1>4, <1>5 DEF TypeOK
<1> QED
  BY <1>2, <1>3, <1>5, <1>6 DEF TypeOK

LEMMA CacheAnswersTypes ==
    ASSUME TypeOK, NEW w \in Others, CacheAnswers(w)
    PROVE  TypeOK'
<1>1. flight[w].req \in Requests /\ flight[w].edit \in Texts /\ flight[w].req.url.path \in Paths
  BY FlightAt DEF CacheAnswers
<1>2. shared[flight[w].req.url.path].got \in Got
  BY <1>1 DEF TypeOK, CacheAnswers, Usable
<1>3. [at |-> "back", req |-> flight[w].req, edit |-> flight[w].edit,
       got |-> shared[flight[w].req.url.path].got] \in Homeward
  BY <1>1, <1>2 DEF Homeward
<1> QED
  BY <1>3 DEF TypeOK, CacheAnswers

LEMMA EvictTypes ==
    ASSUME TypeOK, NEW p \in Paths, Evict(p)
    PROVE  TypeOK'
BY DEF TypeOK, Evict

LEMMA RequestTypes ==
    ASSUME TypeOK, NEW w \in Others, Request(w)
    PROVE  TypeOK'
<1>1. flight[w] \in Outward
  BY FlightAt DEF Request
<1>2. [flight[w] EXCEPT !.at = "upstream"] \in Outward
  BY <1>1 DEF Outward
<1>3. flight' = [flight EXCEPT ![w] = [flight[w] EXCEPT !.at = "upstream"]]
  BY DEF Request, TypeOK
<1>4. flight' \in [Others -> Outward \cup Homeward \cup {None}]
  BY <1>2, <1>3 DEF TypeOK
<1>5. log' = [v \in Others |-> log'[v]]
  BY DEF TypeOK, Request
<1> QED
  BY <1>4, <1>5 DEF TypeOK, Request

LEMMA AnswerTypes ==
    ASSUME TypeOK, NEW w \in Others, Answer(w)
    PROVE  TypeOK'
<1> DEFINE f   == flight[w]
           q   == Forwarded(cfg[w], f.req)
           x   == ModifyResponse(cfg[w], f.req, Reply(w, q))
           p   == q.url.path
           got == [resp |-> x.resp, source |-> db[p]]
           next == [at |-> "back", req |-> f.req, edit |-> f.edit, got |-> got]
<1>1. f # None /\ f.req \in Requests /\ f.edit \in Texts
  BY FlightAt DEF Answer
<1>2. cfg[w] \in Configs
  BY Running
<1>3. q \in Requests /\ p \in Paths /\ q.body \in Texts
  BY <1>1, <1>2, ForwardedTypes DEF Requests, URLs, Texts
<1>4. x.resp \in ResponseRecords
  BY <1>1, <1>3, Relays
<1>5. db[p] \in Texts
  BY <1>3 DEF TypeOK
<1>6. /\ db' = IF q.method = "POST" THEN [db EXCEPT ![p] = q.body] ELSE db
      /\ flight' = [flight EXCEPT ![w] = next]
      /\ shared' = IF Cacheable(q, x.resp)
                   THEN [shared EXCEPT ![p] = [host |-> w, got |-> got]] ELSE shared
      /\ log' = [log EXCEPT ![w] = @ \cup x.log]
      /\ UNCHANGED <<cfg, shown, private, saves>>
  BY DEF Answer
<1> HIDE DEF x, q
<1>7. got \in Got
  BY <1>4, <1>5 DEF Got
<1> HIDE DEF got, p
<1>8. next \in Homeward
  BY <1>1, <1>7 DEF Homeward
<1> HIDE DEF next
<1>9. flight' \in [Others -> Outward \cup Homeward \cup {None}]
  BY <1>6, <1>8 DEF TypeOK
<1>10. db' \in [Paths -> Texts]
  BY <1>3, <1>6 DEF TypeOK
<1>11. shared' \in [Paths -> [host : Others, got : Got] \cup {None}]
  BY <1>3, <1>6, <1>7 DEF TypeOK
<1>12. log' = [v \in Others |-> log'[v]]
  BY <1>6 DEF TypeOK
<1> QED
  BY <1>6, <1>9, <1>10, <1>11, <1>12 DEF TypeOK

LEMMA RestartTypes ==
    ASSUME TypeOK, NEW w \in Others, NEW c \in Restarted[w], Restart(w, c)
    PROVE  TypeOK'
<1>1. c \in Configs
  BY DeploymentAssumption DEF DeploymentAssumption
<1> QED
  BY <1>1 DEF TypeOK, Restart

LEMMA TypesNext ==
    ASSUME TypeOK, Revalidates, [Next]_vars
    PROVE  TypeOK'
<1>1. ASSUME NEW w \in Others, NEW p \in Paths, Browse(w, p) PROVE TypeOK'
  BY <1>1, BrowseTypes
<1>2. ASSUME NEW w \in Others, NEW e \in Edits[w] \cup {{}}, NEW b \in Sizes, Save(w, e, b)
      PROVE  TypeOK'
  BY <1>2, SaveTypes
<1>3. ASSUME NEW w \in Others, NEW c \in Restarted[w], Restart(w, c) PROVE TypeOK'
  BY <1>3, RestartTypes
<1>4. ASSUME NEW w \in Others, Proxying(w) PROVE TypeOK'
  BY <1>4, CacheAnswersTypes, RequestTypes, AnswerTypes, DeliverTypes DEF Proxying
<1>5. ASSUME NEW p \in Paths, Evict(p) PROVE TypeOK'
  BY <1>5, EvictTypes
<1>6. CASE UNCHANGED vars
  BY <1>6 DEF TypeOK, vars
<1> QED
  BY <1>1, <1>2, <1>3, <1>4, <1>5, <1>6 DEF Next

LEMMA GetRevalidates ==
    ASSUME NEW w \in Others, NEW p \in Paths
    PROVE  LET q == Get(w, p)
           IN  /\ q.url = [space |-> w, path |-> p] /\ q.method = "GET"
               /\ q.match # None => private[w][p] # None
BY DEF Get

\* What an answer is, and where it goes.
LEMMA Answered ==
    ASSUME TypeOK, NEW w \in Others, Answer(w)
    PROVE  LET f   == flight[w]
               q   == Forwarded(cfg[w], f.req)
               p   == f.req.url.path
               r   == Reply(w, q)
               x   == ModifyResponse(cfg[w], f.req, r)
               got == [resp |-> x.resp, source |-> db[p]]
           IN  /\ f # None /\ f.at = "upstream" /\ f.req \in Requests /\ p \in Paths
               /\ q \in Requests /\ q.match = f.req.match
               /\ q.url.path = p /\ q.method = f.req.method
               /\ x.resp.status = "304" => f.req.match # None
               /\ x.resp.status \in {"200", "301", "302", "304", "404"}
               /\ flight' = [flight EXCEPT ![w] =
                    [at |-> "back", req |-> f.req, edit |-> f.edit, got |-> got]]
               /\ db' = IF f.req.method = "POST" THEN [db EXCEPT ![p] = q.body] ELSE db
               /\ \/ shared' = shared
                  \/ /\ shared' = [shared EXCEPT ![p] = [host |-> w, got |-> got]]
                     /\ x.resp.status # "304"
<1> DEFINE f   == flight[w]
           q   == Forwarded(cfg[w], f.req)
           p   == f.req.url.path
           r   == Reply(w, q)
           x   == ModifyResponse(cfg[w], f.req, r)
           got == [resp |-> x.resp, source |-> db[p]]
<1>1. f # None /\ f.at = "upstream" /\ f.req \in Requests /\ p \in Paths
  BY FlightAt DEF Answer
<1>2. q \in Requests /\ q.match = f.req.match /\ q.url.path = p /\ q.method = f.req.method
  <2>1. cfg[w] \in Configs
    BY Running
  <2>2. q \in Requests /\ q.match = f.req.match /\ q.method = f.req.method
        /\ q.url = [space |-> Canon, path |-> p]
    BY <1>1, <2>1, ForwardedTypes
  <2> QED
    BY <2>2
<1>3. /\ x.resp.status = "304" => f.req.match # None
      /\ x.resp.status \in {"200", "301", "302", "304", "404"}
  <2>1. x.resp.status \in {"404", r.status}
    BY <1>1, <1>2, Relays
  <2>2. r.status \in {"200", "301", "302", "304"} /\ (r.status = "304" => q.match # None)
    BY <1>2, ReplyIsResponse
  <2> HIDE DEF x, r, q
  <2> QED
    BY <1>2, <2>1, <2>2
<1>4. /\ flight' = [flight EXCEPT ![w] =
           [at |-> "back", req |-> f.req, edit |-> f.edit, got |-> got]]
      /\ db' = IF f.req.method = "POST" THEN [db EXCEPT ![p] = q.body] ELSE db
  BY <1>2 DEF Answer
<1>5. \/ shared' = shared
      \/ /\ shared' = [shared EXCEPT ![p] = [host |-> w, got |-> got]]
         /\ x.resp.status # "304"
  BY <1>2 DEF Answer, Cacheable
<1> HIDE DEF x, q
<1> QED
  BY <1>1, <1>2, <1>3, <1>4, <1>5 DEF x, q

LEMMA RevalidatesNext ==
    ASSUME TypeOK, Revalidates, [Next]_vars
    PROVE  Revalidates'
<1>1. ASSUME NEW w \in Others, NEW p \in Paths, Browse(w, p) PROVE Revalidates'
  <2> DEFINE q == Get(w, p)
  <2>1. q.url = [space |-> w, path |-> p] /\ (q.match # None => private[w][p] # None)
    BY GetRevalidates
  <2>2. flight' = [flight EXCEPT ![w] = Asking(q, {}, {})] /\ UNCHANGED <<private, shared>>
    BY <1>1 DEF Browse
  <2> HIDE DEF q
  <2> QED
    BY <2>1, <2>2 DEF TypeOK, Revalidates, Asking
<1>2. ASSUME NEW w \in Others, NEW e \in Edits[w] \cup {{}}, NEW b \in Sizes, Save(w, e, b)
      PROVE  Revalidates'
  <2>1. e \in Texts /\ b \in BOOLEAN /\ shown[w] # None
    BY <1>2, DeploymentAssumption DEF DeploymentAssumption, Texts, Save
  <2> DEFINE q == Saving(w, e, b)
  <2>2. q.url = [space |-> w, path |-> shown[w].path] /\ q.match = None
    BY DEF Saving, Get
  <2>3. flight' = [flight EXCEPT ![w] = Asking(q, e, shown[w].source)]
        /\ UNCHANGED <<private, shared>>
    BY <1>2 DEF Save, Saving
  <2> HIDE DEF q
  <2> QED
    BY <2>2, <2>3 DEF TypeOK, Revalidates, Asking
<1>3. ASSUME NEW w \in Others, NEW c \in Restarted[w], Restart(w, c) PROVE Revalidates'
  BY <1>3 DEF Restart, Revalidates
<1>4. ASSUME NEW w \in Others, CacheAnswers(w) PROVE Revalidates'
  <2>1. flight[w].req.url.path \in Paths /\ flight[w] # None
    BY <1>4, FlightAt DEF CacheAnswers
  <2> QED
    BY <1>4, <2>1 DEF TypeOK, Revalidates, CacheAnswers, Usable
<1>5. ASSUME NEW w \in Others, Request(w) PROVE Revalidates'
  <2>1. flight[w] \in Outward
    BY <1>5, FlightAt DEF Request
  <2>2. /\ flight' = [flight EXCEPT ![w] = [flight[w] EXCEPT !.at = "upstream"]]
        /\ UNCHANGED <<private, shared>> /\ flight[w] # None /\ flight[w].at = "cache"
    BY <1>5 DEF Request, TypeOK
  <2> QED
    BY <2>1, <2>2 DEF TypeOK, Revalidates, Outward
<1>6. ASSUME NEW w \in Others, Answer(w) PROVE Revalidates'
  <2>1. UNCHANGED private
    BY <1>6 DEF Answer
  <2> DEFINE q == Forwarded(cfg[w], flight[w].req)
             p == flight[w].req.url.path
             x == ModifyResponse(cfg[w], flight[w].req, Reply(w, q))
             got == [resp |-> x.resp, source |-> db[p]]
  <2>2. /\ flight' = [flight EXCEPT ![w] =
             [at |-> "back", req |-> flight[w].req, edit |-> flight[w].edit, got |-> got]]
        /\ \/ shared' = shared
           \/ /\ shared' = [shared EXCEPT ![p] = [host |-> w, got |-> got]]
              /\ x.resp.status # "304"
        /\ flight[w] # None /\ flight[w].at = "upstream" /\ p \in Paths
        /\ x.resp.status = "304" => flight[w].req.match # None
    <3> HIDE DEF x
    <3> QED
      BY <1>6, Answered DEF x
  <2>3. got.resp = x.resp
    OBVIOUS
  <2> HIDE DEF x, got
  <2> QED
    BY <2>1, <2>2, <2>3 DEF TypeOK, Revalidates
<1>7. ASSUME NEW w \in Others, Deliver(w) PROVE Revalidates'
  <2> DEFINE r == flight[w].got.resp
             q == Get(w, r.location.path)
  <2>1. /\ UNCHANGED shared
        /\ \A v \in Others : v # w => flight'[v] = flight[v] /\ private'[v] = private[v]
    BY <1>7 DEF Deliver, TypeOK
  <2>2. flight'[w] # None =>
          r.status \in Redirects /\ r.location # None /\ flight'[w] = Asking(q, {}, {})
    BY <1>7 DEF Deliver, TypeOK
  <2>3. ASSUME flight'[w] # None
        PROVE  /\ UNCHANGED private
               /\ q.url = [space |-> w, path |-> r.location.path]
               /\ q.match # None => private[w][r.location.path] # None
    <3>1. r.status # "200" /\ r.location # None
      BY <2>2, <2>3 DEF Redirects
    <3>2. r.location.path \in Paths
      BY <1>7, <3>1, FlightAt DEF Deliver, Got, ResponseRecords, URLs
    <3> QED
      BY <1>7, <3>1, <3>2, GetRevalidates DEF Deliver
  <2> HIDE DEF q, r
  <2> QED
    BY <2>1, <2>2, <2>3 DEF Revalidates, Asking
<1>8. ASSUME NEW p \in Paths, Evict(p) PROVE Revalidates'
  BY <1>8 DEF TypeOK, Evict, Revalidates
<1>9. CASE UNCHANGED vars
  BY <1>9 DEF Revalidates, vars
<1> QED
  BY <1>1, <1>2, <1>3, <1>4, <1>5, <1>6, <1>7, <1>8, <1>9 DEF Next, Proxying

LEMMA Reached == Spec => [](TypeOK /\ Revalidates)
<1>1. Init => TypeOK /\ Revalidates
  BY DeploymentAssumption DEF Init, TypeOK, Revalidates, DeploymentAssumption
<1>2. TypeOK /\ Revalidates /\ [Next]_vars => (TypeOK /\ Revalidates)'
  BY TypesNext, RevalidatesNext
<1> QED
  BY <1>1, <1>2, PTL DEF Spec

\* The browsers, the caches and the database hold what their variables say they
\* do, whatever is edited, cached, cut short or restarted; a browser answered
\* "not modified" (the 304 that finishBody relays) has a page to show.
THEOREM TypeCorrect == Spec => []TypeOK
BY Reached, PTL

-----------------------------------------------------------------------------
(* A cache that obeys Vary keeps the worktrees apart, if no proxy answers     *)
(* without it: --dry-run adds no header, and the 404 of --strict-origins is   *)
(* made before addVary runs.                                                  *)

Varies ==
  \A p \in Paths : shared[p] # None =>
    \/ "Host" \in shared[p].got.resp.vary
    \/ shared[p].got.resp.status = "404" /\ ~NoStrict

\* Who writes what.
LEMMA Writers ==
    ASSUME [Next]_vars
    PROVE  /\ db' = db \/ \E w \in Others : Answer(w)
           /\ (shown' = shown /\ private' = private) \/ \E w \in Others : Deliver(w)
           /\ \/ shared' = shared
              \/ \E p \in Paths : Evict(p)
              \/ \E w \in Others : Answer(w)
           /\ cfg' = cfg \/ \E w \in Others : \E c \in Restarted[w] : Restart(w, c)
<1>1. ASSUME NEW w \in Others, NEW p \in Paths, Browse(w, p)
      PROVE  UNCHANGED <<cfg, db, shown, private, shared>>
  BY <1>1 DEF Browse
<1>2. ASSUME NEW w \in Others, NEW e, NEW b, Save(w, e, b)
      PROVE  UNCHANGED <<cfg, db, shown, private, shared>>
  BY <1>2 DEF Save
<1>3. ASSUME NEW w \in Others, NEW c \in Restarted[w], Restart(w, c)
      PROVE  UNCHANGED <<db, shown, private, shared>>
  BY <1>3 DEF Restart
<1>4. ASSUME NEW w \in Others, CacheAnswers(w) \/ Request(w)
      PROVE  UNCHANGED <<cfg, db, shown, private, shared>>
  BY <1>4 DEF CacheAnswers, Request
<1>5. ASSUME NEW w \in Others, Answer(w)
      PROVE  UNCHANGED <<cfg, shown, private>>
  BY <1>5 DEF Answer
<1>6. ASSUME NEW w \in Others, Deliver(w)
      PROVE  UNCHANGED <<cfg, db, shared>>
  BY <1>6 DEF Deliver
<1>7. ASSUME NEW p \in Paths, Evict(p)
      PROVE  UNCHANGED <<cfg, db, shown, private>>
  BY <1>7 DEF Evict
<1>8. CASE UNCHANGED vars
  BY <1>8 DEF vars
<1> QED
  BY <1>1, <1>2, <1>3, <1>4, <1>5, <1>6, <1>7, <1>8 DEF Next, Proxying

LEMMA VariesNext ==
    ASSUME NoDryRun, TypeOK, Revalidates, Varies, [Next]_vars
    PROVE  Varies'
<1>1. CASE shared' = shared
  BY <1>1 DEF Varies
<1>2. ASSUME NEW p \in Paths, Evict(p) PROVE Varies'
  BY <1>2 DEF TypeOK, Varies, Evict
<1>3. ASSUME NEW w \in Others, Answer(w) PROVE Varies'
  <2> DEFINE q == Forwarded(cfg[w], flight[w].req)
             p == flight[w].req.url.path
             x == ModifyResponse(cfg[w], flight[w].req, Reply(w, q))
             got == [resp |-> x.resp, source |-> db[p]]
  <2>1. cfg[w].strict => ~NoStrict
    BY Running DEF NoStrict
  <2>2. ~cfg[w].dryRun
    BY Running DEF NoDryRun
  <2>3. flight[w].req \in Requests /\ q \in Requests /\ p \in Paths
    BY <1>3, Answered
  <2>4. "Host" \in x.resp.vary \/ (x.resp.status = "404" /\ ~NoStrict)
    BY <2>1, <2>2, <2>3, Relays
  <2>5. \/ shared' = shared
        \/ shared' = [shared EXCEPT ![p] = [host |-> w, got |-> got]]
    <3> HIDE DEF x
    <3> QED
      BY <1>3, Answered DEF x
  <2>6. got.resp = x.resp
    OBVIOUS
  <2> HIDE DEF x, got, p
  <2> QED
    BY <2>3, <2>4, <2>5, <2>6 DEF TypeOK, Varies
<1> QED
  BY <1>1, <1>2, <1>3, Writers

LEMMA Varied == ASSUME NoDryRun PROVE Spec => []Varies
<1>1. Init => Varies
  BY DEF Init, Varies
<1>2. TypeOK /\ Revalidates /\ Varies /\ [Next]_vars => Varies'
  BY VariesNext
<1> QED
  BY <1>1, <1>2, Reached, PTL DEF Spec

\* A response one worktree's proxy made (modifyResponse, with addVary's Vary:
\* Host) never comes out of the shared cache at another, whatever the proxies
\* are restarted with, if none of them runs with --dry-run or --strict-origins.
THEOREM CachesAreApart == ASSUME NoDryRun, NoStrict PROVE Spec => []CacheKeepsApart
<1>1. Varies => CacheKeepsApart
  BY DEF Varies, CacheKeepsApart, Usable
<1> QED
  BY <1>1, Varied, PTL

-----------------------------------------------------------------------------
(* Where the hostnames of the worktrees can be.  Every text in the system is  *)
(* kept with the stored text it was made from; what the invariant says of it  *)
(* is that hostshift made it: it is that text, mapped to the worktree, and    *)
(* that text was clean but for what a log owns up to.                         *)

Escapes == {"size-cap", "not-decodable", "base64"}
Sourced(l, text) == \A m \in text : m.space \in Others => l[m.space] \cap Escapes # {}
Shows(l, w, text, source) ==
  Sourced(l, source) /\ text = Retarget(source, CanonicalSet, w, Flat)

StoreRight == \A p \in Paths : Sourced(log, db[p])

ShownRight ==
  \A w \in Others :
    /\ shown[w] # None => Shows(log, w, shown[w].text, shown[w].source)
    /\ \A p \in Paths : private[w][p] # None =>
         Shows(log, w, private[w][p].resp.text, private[w][p].source)

SharedRight ==
  \A p \in Paths : shared[p] # None /\ shared[p].got.resp.status = "200" =>
    Shows(log, shared[p].host, shared[p].got.resp.text, shared[p].got.source)

\* What a browser posts is the page it showed, and the edit.
Posts(l, w, f) ==
  /\ f.req.kind \in {"flat", "json"} /\ ~f.req.cut
  /\ Sourced(l, f.source)
  /\ \A m \in f.req.body : m.space \in Others => m.space = w \/ l[m.space] \cap Escapes # {}
  /\ f.edit = {} => f.req.body = Retarget(f.source, CanonicalSet, w, Flat)

FlightRight ==
  \A w \in Others : flight[w] # None =>
    LET f == flight[w]
    IN  /\ f.at # "back" /\ f.req.method = "POST" => Posts(log, w, f)
        /\ f.at = "upstream" => RequestLog(cfg[w], f.req) \subseteq log[w]
        /\ f.at = "back" /\ f.got.resp.status = "200" =>
             Shows(log, w, f.got.resp.text, f.got.source)

Right == StoreRight /\ ShownRight /\ SharedRight /\ FlightRight

\* What is on record stays on record.
LEMMA LogGrows ==
    ASSUME TypeOK, [Next]_vars
    PROVE  \A w \in Others : log[w] \subseteq log'[w]
<1>1. ASSUME NEW w \in Others, NEW p \in Paths, Browse(w, p) PROVE UNCHANGED log
  BY <1>1 DEF Browse
<1>2. ASSUME NEW w \in Others, NEW e, NEW b, Save(w, e, b) PROVE UNCHANGED log
  BY <1>2 DEF Save
<1>3. ASSUME NEW w \in Others, NEW c \in Restarted[w], Restart(w, c) PROVE UNCHANGED log
  BY <1>3 DEF Restart
<1>4. ASSUME NEW w \in Others, CacheAnswers(w) \/ Deliver(w) PROVE UNCHANGED log
  BY <1>4 DEF CacheAnswers, Deliver
<1>5. ASSUME NEW w \in Others, Request(w) PROVE \A v \in Others : log[v] \subseteq log'[v]
  BY <1>5 DEF Request, TypeOK
<1>6. ASSUME NEW w \in Others, Answer(w) PROVE \A v \in Others : log[v] \subseteq log'[v]
  BY <1>6 DEF Answer, TypeOK
<1>7. ASSUME NEW p \in Paths, Evict(p) PROVE UNCHANGED log
  BY <1>7 DEF Evict
<1>8. CASE UNCHANGED vars
  BY <1>8 DEF vars
<1> QED
  BY <1>1, <1>2, <1>3, <1>4, <1>5, <1>6, <1>7, <1>8 DEF Next, Proxying

LEMMA StaysSourced ==
    ASSUME TypeOK, [Next]_vars
    PROVE  /\ \A text : Sourced(log, text) => Sourced(log', text)
           /\ \A w, text, source : Shows(log, w, text, source) => Shows(log', w, text, source)
           /\ \A w, f : Posts(log, w, f) => Posts(log', w, f)
<1>1. \A w \in Others : log[w] \subseteq log'[w]
  BY LogGrows
<1>2. \A text : Sourced(log, text) => Sourced(log', text)
  BY <1>1 DEF Sourced
<1> QED
  BY <1>1, <1>2 DEF Shows, Posts

\* A page as its worktree shows it names its own worktree, or what was owned up
\* to, or what nothing can find.
LEMMA PageMentions ==
    ASSUME NEW w \in Others, NEW source \in Texts, NEW text, NEW l, Shows(l, w, text, source),
           NEW m \in text
    PROVE  \/ m.space = w
           \/ m.place = "hidden" /\ m.space \in CanonicalSet
           \/ m.space \in Others /\ l[m.space] \cap Escapes # {}
<1>1. text = Retarget(source, CanonicalSet, w, Flat) /\ \A x \in source : x \in Mentions
  BY DEF Shows, Texts
<1>2. PICK x \in source :
        /\ m.place = x.place
        /\ \/ x.space \in CanonicalSet /\ x.place \in Flat /\ m.space = w
           \/ ~(x.space \in CanonicalSet /\ x.place \in Flat) /\ m = x
  BY <1>1, RetargetMention
<1>3. x.space \in CanonicalSet \cup Others /\ x.place \in Flat \cup {"hidden"}
  BY <1>1 DEF Mentions, Spaces, Places, Flat
<1> QED
  BY <1>2, <1>3 DEF Shows, Sourced

\* What a live proxy makes of a page that is posted.
LEMMA PostedBody ==
    ASSUME TypeOK, LiveProxies, NEW w \in Others, NEW q \in Requests,
           q.method = "POST", q.kind \in {"flat", "json"}, ~q.cut
    PROVE  /\ Forwarded(cfg[w], q).body =
                IF q.big THEN q.body ELSE Retarget(q.body, {w}, Canon, Flat)
           /\ q.big => "size-cap" \in RequestLog(cfg[w], q)
           /\ ~q.big /\ Hides(q.body, {w}) => "base64" \in RequestLog(cfg[w], q)
<1>1. cfg[w] \in Configs /\ cfg[w].variant = w /\ Live(cfg[w]) /\ w # Canon
  BY Running DEF LiveProxies
<1>2. ReadsBody(q) /\ q.body \in SUBSET Mentions /\ Canon \in Spaces
  BY DEF ReadsBody, Requests, Spaces, CanonicalSet
<1>3. RequestBody(cfg[w], q) = Retarget(q.body, {w}, Canon, Flat)
  BY <1>1, <1>2, LiveTexts DEF RequestBody
<1>4. Forwarded(cfg[w], q).body = IF q.big THEN q.body ELSE Retarget(q.body, {w}, Canon, Flat)
  BY <1>1, <1>2, <1>3, ForwardedTypes DEF Live
<1> QED
  BY <1>1, <1>2, <1>4 DEF RequestLog

\* What is stored of it: nothing of the worktree that saved it, but for what its
\* proxy's log owns up to.
LEMMA StoredBody ==
    ASSUME TypeOK, LiveProxies, NEW w \in Others, NEW f, f.req \in Requests,
           f.req.method = "POST", Posts(log, w, f), RequestLog(cfg[w], f.req) \subseteq log[w]
    PROVE  /\ Sourced(log, Forwarded(cfg[w], f.req).body)
           /\ f.edit = {} /\ log[w] \cap Escapes = {} /\ f.source \in Texts =>
                Forwarded(cfg[w], f.req).body = Primary(f.source)
<1> DEFINE q == f.req
           b == Forwarded(cfg[w], q).body
<1>1. /\ b = IF q.big THEN q.body ELSE Retarget(q.body, {w}, Canon, Flat)
      /\ q.big => "size-cap" \in log[w]
      /\ ~q.big /\ Hides(q.body, {w}) => "base64" \in log[w]
  BY PostedBody DEF Posts
<1>2. q.body \in SUBSET Mentions /\ Canon \notin Others /\ w \notin CanonicalSet
  BY SpacesAssumption DEF Requests, SpacesAssumption, CanonicalSet
<1>3. \A m \in q.body : m.space \in Others => m.space = w \/ log[m.space] \cap Escapes # {}
  BY DEF Posts
<1> HIDE DEF b
<1>4. CASE q.big
  <2>1. b = q.body /\ log[w] \cap Escapes # {}
    BY <1>1, <1>4 DEF Escapes
  <2> QED
    BY <1>3, <2>1 DEF Sourced, b
<1>5. CASE ~q.big
  <2>1. b = Retarget(q.body, {w}, Canon, Flat)
    BY <1>1, <1>5
  <2>2. ASSUME NEW m \in b, m.space \in Others PROVE log[m.space] \cap Escapes # {}
    <3>1. PICK x \in q.body :
            /\ m.place = x.place
            /\ \/ x.space \in {w} /\ x.place \in Flat /\ m.space = Canon
               \/ ~(x.space \in {w} /\ x.place \in Flat) /\ m = x
      BY <1>2, <2>1, RetargetMention
    <3>2. m = x /\ x.place \in Flat \cup {"hidden"}
      BY <1>2, <2>2, <3>1 DEF Mentions, Places, Flat
    <3>3. CASE x.space = w
      <4>1. Hides(q.body, {w})
        BY <1>2, <3>1, <3>2, <3>3 DEF Hides
      <4> QED
        BY <1>1, <1>5, <3>2, <3>3, <4>1 DEF Escapes
    <3>4. CASE x.space # w
      BY <1>3, <2>2, <3>2, <3>4
    <3> QED
      BY <3>3, <3>4
  <2>3. ASSUME f.edit = {}, log[w] \cap Escapes = {}, f.source \in Texts
        PROVE  b = Primary(f.source)
    <3>1. q.body = Retarget(f.source, CanonicalSet, w, Flat) /\ f.source \in SUBSET Mentions
      BY <2>3 DEF Posts, Texts
    <3>2. \A m \in f.source : m.space # w
      BY <2>3 DEF Posts, Sourced
    <3> QED
      BY <2>1, <3>1, <3>2, RoundTrip DEF Primary
  <2> QED
    BY <2>2, <2>3 DEF Sourced, b
<1> QED
  BY <1>4, <1>5

LEMMA StoreRightNext ==
    ASSUME LiveProxies, TypeOK, FlightRight, StoreRight, [Next]_vars
    PROVE  StoreRight'
<1>1. CASE db' = db
  BY <1>1, StaysSourced DEF StoreRight
<1>2. ASSUME NEW w \in Others, Answer(w) PROVE StoreRight'
  <2> DEFINE f == flight[w]
             b == Forwarded(cfg[w], f.req).body
  <2>1. f # None /\ f.at = "upstream" /\ f.req \in Requests /\ f.req.url.path \in Paths
        /\ db' = IF f.req.method = "POST" THEN [db EXCEPT ![f.req.url.path] = b] ELSE db
    BY <1>2, Answered
  <2>2. f.req.method = "POST" => Sourced(log, b)
    BY <2>1, StoredBody DEF FlightRight
  <2>3. f.req.method = "POST" => Sourced(log', b)
    BY <2>2, StaysSourced
  <2> HIDE DEF b
  <2> QED
    BY <2>1, <2>3, StaysSourced DEF TypeOK, StoreRight
<1> QED
  BY <1>1, <1>2, Writers

LEMMA ShownRightNext ==
    ASSUME TypeOK, Revalidates, FlightRight, ShownRight, [Next]_vars
    PROVE  ShownRight'
<1>1. CASE shown' = shown /\ private' = private
  BY <1>1, StaysSourced DEF ShownRight
<1>2. ASSUME NEW w \in Others, Deliver(w) PROVE ShownRight'
  <2> DEFINE p == flight[w].req.url.path
             got == flight[w].got
             r == got.resp
  <2>1. /\ flight[w] # None /\ flight[w].at = "back" /\ p \in Paths
        /\ r.status = "200" => Shows(log, w, r.text, got.source)
        /\ r.status = "304" => Shows(log, w, private[w][p].resp.text, private[w][p].source)
    BY <1>2, FlightAt DEF Deliver, FlightRight, ShownRight, Revalidates
  <2>2. /\ \A v \in Others : v # w => shown'[v] = shown[v] /\ private'[v] = private[v]
        /\ \A o \in Paths : o # p => private'[w][o] = private[w][o]
        /\ \/ private'[w][p] = private[w][p]
           \/ private'[w][p] = None
           \/ private'[w][p] = got /\ r.status = "200"
    BY <1>2, <2>1 DEF Deliver, TypeOK
  <2>3. shown'[w] # None =>
          \/ r.status = "200" /\ shown'[w].text = r.text /\ shown'[w].source = got.source
          \/ /\ r.status = "304" /\ shown'[w].text = private[w][p].resp.text
             /\ shown'[w].source = private[w][p].source
    BY <1>2, <2>1 DEF Deliver, TypeOK
  <2> HIDE DEF p, got, r
  <2>4. \A v \in Others : shown'[v] # None => Shows(log, v, shown'[v].text, shown'[v].source)
    BY <2>1, <2>2, <2>3 DEF ShownRight
  <2>5. \A v \in Others, o \in Paths : private'[v][o] # None =>
          Shows(log, v, private'[v][o].resp.text, private'[v][o].source)
    BY <2>1, <2>2 DEF ShownRight, r
  <2> QED
    BY <2>4, <2>5, StaysSourced DEF ShownRight
<1> QED
  BY <1>1, <1>2, Writers

\* What comes back of a page is the stored page, mapped.
LEMMA AnsweredRight ==
    ASSUME LiveProxies, TypeOK, StoreRight, NEW w \in Others, Answer(w)
    PROVE  LET q == Forwarded(cfg[w], flight[w].req)
               x == ModifyResponse(cfg[w], flight[w].req, Reply(w, q))
           IN  x.resp.status = "200" =>
                 Shows(log, w, x.resp.text, db[flight[w].req.url.path])
<1>1. cfg[w] \in Configs /\ Live(cfg[w])
  BY Running DEF LiveProxies
<1>2. LET q == Forwarded(cfg[w], flight[w].req)
      IN  q \in Requests /\ flight[w].req \in Requests
          /\ q.url.path = flight[w].req.url.path /\ q.url.path \in Paths
  BY Answered
<1> QED
  BY <1>1, <1>2, Relays DEF StoreRight, Shows

LEMMA SharedRightNext ==
    ASSUME LiveProxies, TypeOK, StoreRight, SharedRight, [Next]_vars
    PROVE  SharedRight'
<1>1. CASE shared' = shared
  BY <1>1, StaysSourced DEF SharedRight
<1>2. ASSUME NEW p \in Paths, Evict(p) PROVE SharedRight'
  BY <1>2, StaysSourced DEF TypeOK, SharedRight, Evict
<1>3. ASSUME NEW w \in Others, Answer(w) PROVE SharedRight'
  <2> DEFINE q == Forwarded(cfg[w], flight[w].req)
             p == flight[w].req.url.path
             x == ModifyResponse(cfg[w], flight[w].req, Reply(w, q))
             got == [resp |-> x.resp, source |-> db[p]]
  <2>1. x.resp.status = "200" => Shows(log, w, x.resp.text, db[p])
    BY <1>3, AnsweredRight
  <2>2. /\ p \in Paths
        /\ \/ shared' = shared
           \/ shared' = [shared EXCEPT ![p] = [host |-> w, got |-> got]]
    <3> HIDE DEF x
    <3> QED
      BY <1>3, Answered DEF x
  <2>3. got.resp = x.resp /\ got.source = db[p]
    OBVIOUS
  <2> HIDE DEF x, got
  <2>4. x.resp.status = "200" => Shows(log', w, x.resp.text, db[p])
    BY <2>1, StaysSourced
  <2>5. \A o \in Paths : shared[o] # None /\ shared[o].got.resp.status = "200" =>
          Shows(log', shared[o].host, shared[o].got.resp.text, shared[o].got.source)
    BY StaysSourced DEF SharedRight
  <2> QED
    BY <2>2, <2>3, <2>4, <2>5 DEF TypeOK, SharedRight
<1> QED
  BY <1>1, <1>2, <1>3, Writers

LEMMA FlightRightNext ==
    ASSUME LiveProxies, OwnEdits, TypeOK, Revalidates, StoreRight, ShownRight, SharedRight,
           Varies, FlightRight, [Next]_vars
    PROVE  FlightRight'
\* Each flight by itself: one that no step moves, and one that a step does.
<1> DEFINE Good(l, c, w, f) ==
             /\ f.at # "back" /\ f.req.method = "POST" => Posts(l, w, f)
             /\ f.at = "upstream" => RequestLog(c, f.req) \subseteq l[w]
             /\ f.at = "back" /\ f.got.resp.status = "200" =>
                  Shows(l, w, f.got.resp.text, f.got.source)
<1>1. ASSUME NEW w \in Others, flight[w] # None, flight'[w] = flight[w], cfg'[w] = cfg[w]
      PROVE  Good(log', cfg'[w], w, flight'[w])
  <2>1. log[w] \subseteq log'[w]
    BY LogGrows
  <2> QED
    BY <1>1, <2>1, StaysSourced DEF FlightRight
<1>2. ASSUME NEW w \in Others,
             flight' = [flight EXCEPT ![w] = flight'[w]], cfg' = cfg,
             flight'[w] # None => Good(log', cfg'[w], w, flight'[w])
      PROVE  FlightRight'
  <2>1. \A v \in Others : v # w => flight'[v] = flight[v] /\ cfg'[v] = cfg[v]
    BY <1>2 DEF TypeOK
  <2>2. \A v \in Others : v # w /\ flight'[v] # None => Good(log', cfg'[v], v, flight'[v])
    BY <1>1, <2>1
  <2> QED
    BY <1>2, <2>2 DEF FlightRight
<1>3. ASSUME flight' = flight, cfg' = cfg PROVE FlightRight'
  BY <1>1, <1>3 DEF FlightRight
<1>4. ASSUME NEW w \in Others, NEW p \in Paths, Browse(w, p) PROVE FlightRight'
  <2>1. /\ flight' = [flight EXCEPT ![w] = flight'[w]] /\ cfg' = cfg
        /\ flight'[w].at = "cache" /\ flight'[w].req.method = "GET"
    BY <1>4 DEF TypeOK, Browse, Asking, Get
  <2> QED
    BY <1>2, <2>1
<1>5. ASSUME NEW w \in Others, NEW e \in Edits[w] \cup {{}}, NEW b \in Sizes, Save(w, e, b)
      PROVE  FlightRight'
  <2> DEFINE q == Saving(w, e, b)
             f == Asking(q, e, shown[w].source)
  <2>1. /\ flight' = [flight EXCEPT ![w] = f] /\ cfg' = cfg /\ shown[w] # None
        /\ flight'[w] = f
    BY <1>5 DEF Save, Saving, TypeOK
  <2>2. /\ q.kind \in {"flat", "json"} /\ ~q.cut /\ q.body = shown[w].text \cup e
    BY DEF Saving, Get
  <2>3. /\ shown[w].source \in Texts
        /\ Shows(log, w, shown[w].text, shown[w].source)
    BY <2>1 DEF TypeOK, ShownRight, Page
  <2>4. \A m \in shown[w].text : m.space \in Others =>
          m.space = w \/ log[m.space] \cap Escapes # {}
    <3>1. \A m \in shown[w].text :
            \/ m.space = w
            \/ m.place = "hidden" /\ m.space \in CanonicalSet
            \/ m.space \in Others /\ log[m.space] \cap Escapes # {}
      BY <2>3, PageMentions
    <3> QED
      BY <3>1, SpacesAssumption DEF SpacesAssumption
  <2>5. \A m \in e : m.space \in Others => m.space = w
    BY DEF OwnEdits
  <2>6. f.req = q /\ f.edit = e /\ f.source = shown[w].source /\ f.at = "cache"
    BY DEF Asking
  <2> HIDE DEF q, f
  <2>7. Posts(log, w, f)
    BY <2>2, <2>3, <2>4, <2>5, <2>6 DEF Posts, Shows
  <2>8. Posts(log', w, f)
    BY <2>7, StaysSourced
  <2> QED
    BY <1>2, <2>1, <2>6, <2>8
<1>6. ASSUME NEW w \in Others, NEW c \in Restarted[w], Restart(w, c) PROVE FlightRight'
  <2>1. flight' = flight /\ \A v \in Others : flight[v] # None => cfg'[v] = cfg[v]
    BY <1>6 DEF TypeOK, Restart
  <2> QED
    BY <1>1, <2>1 DEF FlightRight
<1>7. ASSUME NEW w \in Others, CacheAnswers(w) PROVE FlightRight'
  <2> DEFINE p == flight[w].req.url.path
             got == shared[p].got
             f == [at |-> "back", req |-> flight[w].req, edit |-> flight[w].edit, got |-> got]
  <2>1. /\ p \in Paths /\ flight[w] # None /\ Usable(w, p)
        /\ flight' = [flight EXCEPT ![w] = f] /\ cfg' = cfg /\ flight'[w] = f
    BY <1>7, FlightAt DEF CacheAnswers, TypeOK
  <2>2. got.resp.status = "200" => shared[p].host = w
    BY <2>1 DEF Usable, Varies
  <2>3. got.resp.status = "200" => Shows(log', w, got.resp.text, got.source)
    BY <2>1, <2>2, StaysSourced DEF SharedRight, Usable
  <2>4. f.at = "back" /\ f.got = got
    OBVIOUS
  <2> HIDE DEF f, got
  <2> QED
    BY <1>2, <2>1, <2>3, <2>4
<1>8. ASSUME NEW w \in Others, Request(w) PROVE FlightRight'
  <2> DEFINE f == [flight[w] EXCEPT !.at = "upstream"]
  <2>1. /\ flight[w] \in Outward /\ flight[w] # None /\ flight[w].at = "cache"
        /\ flight' = [flight EXCEPT ![w] = f] /\ cfg' = cfg /\ flight'[w] = f
        /\ log'[w] = log[w] \cup RequestLog(cfg[w], flight[w].req)
    BY <1>8, FlightAt DEF Request, TypeOK
  <2>2. f.at = "upstream" /\ f.req = flight[w].req /\ f.edit = flight[w].edit
        /\ f.source = flight[w].source
    BY <2>1 DEF Outward
  <2> HIDE DEF f
  <2>3. f.req.method = "POST" => Posts(log, w, f)
    BY <2>1, <2>2 DEF FlightRight, Posts
  <2>4. f.req.method = "POST" => Posts(log', w, f)
    BY <2>3, StaysSourced
  <2> QED
    BY <1>2, <2>1, <2>2, <2>4
<1>9. ASSUME NEW w \in Others, Answer(w) PROVE FlightRight'
  <2> DEFINE q == Forwarded(cfg[w], flight[w].req)
             p == flight[w].req.url.path
             x == ModifyResponse(cfg[w], flight[w].req, Reply(w, q))
             got == [resp |-> x.resp, source |-> db[p]]
             f == [at |-> "back", req |-> flight[w].req, edit |-> flight[w].edit, got |-> got]
  <2>1. x.resp.status = "200" => Shows(log, w, x.resp.text, db[p])
    BY <1>9, AnsweredRight
  <2>2. x.resp.status = "200" => Shows(log', w, x.resp.text, db[p])
    <3> HIDE DEF x
    <3> QED
      BY <2>1, StaysSourced
  <2>3. flight' = [flight EXCEPT ![w] = f] /\ cfg' = cfg /\ flight[w] # None
    <3> HIDE DEF x
    <3> QED
      BY <1>9, Answered DEF x, Answer
  <2>4. f.at = "back" /\ f.got.resp = x.resp /\ f.got.source = db[p]
    OBVIOUS
  <2> HIDE DEF x, got, f
  <2>5. flight'[w] = f
    BY <2>3 DEF TypeOK
  <2> QED
    BY <1>2, <2>2, <2>3, <2>4, <2>5
<1>10. ASSUME NEW w \in Others, Deliver(w) PROVE FlightRight'
  <2>1. /\ flight' = [flight EXCEPT ![w] = flight'[w]] /\ cfg' = cfg
        /\ flight'[w] # None => flight'[w].at = "cache" /\ flight'[w].req.method = "GET"
    BY <1>10 DEF TypeOK, Deliver, Asking, Get
  <2> QED
    BY <1>2, <2>1
<1>11. ASSUME NEW p \in Paths, Evict(p) PROVE FlightRight'
  BY <1>3, <1>11 DEF Evict
<1>12. CASE UNCHANGED vars
  BY <1>3, <1>12 DEF vars
<1> QED
  BY <1>4, <1>5, <1>6, <1>7, <1>8, <1>9, <1>10, <1>11, <1>12 DEF Next, Proxying

LEMMA RightInvariant ==
    ASSUME LiveProxies, CanonicalStore, OwnEdits
    PROVE  Spec => [](TypeOK /\ Right)
<1>1. Init => Right
  <2> SUFFICES ASSUME Init PROVE Right
    OBVIOUS
  <2>1. StoreRight
    BY DEF Init, StoreRight, Sourced, CanonicalStore
  <2>2. ShownRight /\ SharedRight /\ FlightRight
    BY DEF Init, ShownRight, SharedRight, FlightRight
  <2> QED
    BY <2>1, <2>2 DEF Right
<1>2. NoDryRun
  BY DEF LiveProxies, NoDryRun, Live
<1>3. Spec => []Varies
  BY <1>2, Varied
<1>4. TypeOK /\ Revalidates /\ Varies /\ Right /\ [Next]_vars => Right'
  BY StoreRightNext, ShownRightNext, SharedRightNext, FlightRightNext DEF Right
<1> QED
  BY <1>1, <1>3, <1>4, Reached, PTL DEF Spec

\* However the saves of the worktrees interleave in the one database, and
\* whatever the caches answer, a worktree's hostname is stored only if its own
\* proxy recorded that it let it through (rewriteRequestBody, reportBase64).
THEOREM StoreIsCanonical ==
  ASSUME LiveProxies, CanonicalStore, OwnEdits PROVE Spec => []DatabaseCanonical
<1>1. Right => DatabaseCanonical
  BY DEF Right, StoreRight, Sourced, DatabaseCanonical, Recorded, Escapes
<1> QED
  BY <1>1, RightInvariant, PTL

\* What a browser shows, fetched, cached or revalidated, is its own worktree's:
\* no canonical host but in base64, no other worktree's but one on record.
THEOREM PagesStayHome ==
  ASSUME LiveProxies, CanonicalStore, OwnEdits PROVE Spec => []OwnSpace
<1>1. TypeOK /\ Right => OwnSpace
  <2> SUFFICES ASSUME TypeOK, Right, NEW w \in Others, shown[w] # None, NEW m \in shown[w].text
               PROVE  \/ m.space = w
                      \/ m.place = "hidden"
                      \/ m.space \in Others /\ Recorded(m.space)
    BY DEF OwnSpace
  <2>1. shown[w].source \in Texts /\ Shows(log, w, shown[w].text, shown[w].source)
    BY DEF TypeOK, Right, ShownRight, Page
  <2> QED
    BY <2>1, PageMentions DEF Recorded, Escapes
<1> QED
  BY <1>1, RightInvariant, PTL

\* A page that is saved as it was shown is stored as it was read, aliases
\* corrected, however long ago it was shown and whatever was stored since: what
\* modifyResponse did to it, rewriteRequestBody undoes.
THEOREM SavesRestore ==
  ASSUME LiveProxies, CanonicalStore, OwnEdits PROVE Spec => SaveRestores
<1> DEFINE Step ==
      \A w \in Others :
        Unedited(w) /\ flight'[w] # flight[w] =>
          db'[flight[w].req.url.path] = Primary(flight[w].source)
<1>1. TypeOK /\ Right /\ [Next]_vars => Step
  <2> SUFFICES ASSUME TypeOK, Right, [Next]_vars, NEW w \in Others,
                      Unedited(w), flight'[w] # flight[w]
               PROVE  db'[flight[w].req.url.path] = Primary(flight[w].source)
    OBVIOUS
  <2>1. flight[w] # None /\ flight[w].at = "upstream" /\ flight[w].req.method = "POST"
        /\ flight[w].edit = {} /\ log[w] \cap Escapes = {}
    BY DEF Unedited, Recorded, Escapes
  <2>2. Answer(w)
    <3>1. ASSUME NEW v \in Others, NEW p \in Paths, Browse(v, p) PROVE FALSE
      BY <2>1, <3>1 DEF Browse, TypeOK
    <3>2. ASSUME NEW v \in Others, NEW e, NEW b, Save(v, e, b) PROVE FALSE
      BY <2>1, <3>2 DEF Save, TypeOK
    <3>3. ASSUME NEW v \in Others, NEW c, Restart(v, c) PROVE FALSE
      BY <3>3 DEF Restart
    <3>4. ASSUME NEW v \in Others, CacheAnswers(v) \/ Request(v) \/ Deliver(v) PROVE FALSE
      <4>1. v # w => flight'[w] = flight[w]
        BY <3>4 DEF CacheAnswers, Request, Deliver, TypeOK
      <4> QED
        BY <2>1, <3>4, <4>1 DEF CacheAnswers, Request, Deliver
    <3>5. ASSUME NEW v \in Others, Answer(v) PROVE v = w
      BY <3>5 DEF Answer, TypeOK
    <3>6. ASSUME NEW p \in Paths, Evict(p) PROVE FALSE
      BY <3>6 DEF Evict
    <3>7. ~UNCHANGED vars
      BY DEF vars
    <3> QED
      BY <3>1, <3>2, <3>3, <3>4, <3>5, <3>6, <3>7 DEF Next, Proxying
  <2>3. /\ Posts(log, w, flight[w]) /\ RequestLog(cfg[w], flight[w].req) \subseteq log[w]
        /\ flight[w].source \in Texts
    BY <2>1, FlightAt DEF Right, FlightRight
  <2>4. /\ flight[w].req \in Requests /\ flight[w].req.url.path \in Paths
        /\ db' = [db EXCEPT ![flight[w].req.url.path] = Forwarded(cfg[w], flight[w].req).body]
    BY <2>1, <2>2, Answered
  <2>5. Forwarded(cfg[w], flight[w].req).body = Primary(flight[w].source)
    BY <2>1, <2>3, <2>4, StoredBody
  <2> QED
    BY <2>4, <2>5 DEF TypeOK
<1>2. Spec => [](TypeOK /\ Right)
  BY RightInvariant
<1>3. SaveRestores <=> [][Step]_vars
  BY DEF SaveRestores
<1> HIDE DEF Step
<1>4. QED
  BY <1>1, <1>2, <1>3, PTL DEF Spec
=============================================================================
