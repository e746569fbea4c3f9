---------------------------- MODULE MCWorktrees ----------------------------
(* Two worktrees, a page each of HTML and JSON, and an upload one of the
   checkouts lacks. *)
EXTENDS Worktrees

CONSTANTS wa, wb, alias

Proxy(w, strict, dryRun) ==
  [variant |-> w, dryRun |-> dryRun, strict |-> strict, noSweep |-> FALSE,
   compress |-> FALSE]
Live    == [w \in Others |-> Proxy(w, FALSE, FALSE)]
Strict  == [w \in Others |-> Proxy(w, TRUE, FALSE)]
DryRun  == [w \in Others |-> Proxy(w, FALSE, TRUE)]
Never   == [w \in Others |-> {}]
Either  == [w \in Others |-> {Live[w], [Live[w] EXCEPT !.compress = TRUE]}]
GoLive  == [w \in Others |-> {Live[w]}]

At(space, place) == [space |-> space, place |-> place]

ShapeOf  == [p \in Paths |-> IF p = "/api" THEN "json" ELSE "html"]
InStore  == [p \in Paths |-> IF p = "/api" THEN {At(Canon, "escaped"), At(alias, "stray")}
                             ELSE {At(alias, "plain"), At(Canon, "hidden")}]
NoEdits  == [w \in Others |-> {}]
OwnLinks == [w \in Others |-> {{At(w, "plain")}, {At(w, "hidden")}}]
Uploads  == [w \in Others |-> IF w = wa THEN {"/"} ELSE {}]
NoUpload == [w \in Others |-> {}]
=============================================================================
