--------------------------- MODULE ForeignContent ---------------------------
(***************************************************************************)
(* How the HTML rewriter follows the vocabularies of a page               *)
(* (internal/rewrite/html.go).  In svg and math the browser decodes the    *)
(* character references of a script or a style, elsewhere it does not; the *)
(* rewriter has a streaming tokenizer and no tree, so it keeps the open    *)
(* svg and math elements and the depth at which an integration point       *)
(* resumed the rules of HTML, and decides from those whether to decode.    *)
(* A document is read a tag at a time by the rewriter and by TreeBuilder.  *)
(***************************************************************************)
EXTENDS TreeBuilder

CONSTANTS
  Starts,   \* the start tags a document may have
  Closed,   \* those that may carry a self-closing flag
  Ends,     \* the end tags it may have
  Astray,   \* whether a tag may be out of place
  MaxOpen   \* bound on the open elements

ASSUME DocumentAssumption ==
  /\ Starts \subseteq Tags
  /\ Closed \subseteq Starts
  /\ Ends \subseteq Names
  /\ Astray \in BOOLEAN
  /\ MaxOpen \in Nat

VARIABLES
  open, \* the elements the browser has open
  text, \* whether the browser reads a title's text, which ends at its end tag
  w,    \* the rewriter
  track \* history: how well a tracker with one mark can have followed so far

vars == <<open, text, w, track>>

\* The fields are those of HTML; "swallowed" is what openForeignBefore and
\* rcdataOpensBefore read back from the text of a title.
Rewriters ==
  [foreignNS : Seq([name : {"svg", "math"}, ns : {"svg", "math"}]),
   foreignObjectAt : Nat, mathTextPoint : BOOLEAN, rawText : BOOLEAN,
   rawTextForeign : BOOLEAN, swallowed : [depth : Int, rcdata : BOOLEAN]]

NothingSwallowed == [depth |-> 0, rcdata |-> FALSE]

Init ==
  /\ open = <<>>
  /\ text = FALSE
  /\ w = [foreignNS |-> <<>>, foreignObjectAt |-> 0, mathTextPoint |-> FALSE,
          rawText |-> FALSE, rawTextForeign |-> FALSE, swallowed |-> NothingSwallowed]
  /\ track = "clear"

-----------------------------------------------------------------------------
currentNS(r) == IF r.foreignNS = <<>> THEN "" ELSE Last(r.foreignNS).ns

inForeignContent(r) ==
  /\ r.foreignNS # <<>>
  /\ r.foreignObjectAt = 0 \/ Len(r.foreignNS) > r.foreignObjectAt

integrationPointIn(name, ns) ==
  \/ ns = "svg" /\ name \in {"desc", "title"}
  \/ ns = "math" /\ name = "mi"

\* Bug: the mark outlives the element it was set in.
PopKeepsMark(r, name) ==
  LET upTo == UpTo(r.foreignNS, LAMBDA e : e.name = name)
  IN  IF upTo = <<>> THEN r ELSE [r EXCEPT !.foreignNS = Below(upTo)]

\* Bug: an end tag has to match the innermost element.
PopInnermost(r, name) ==
  IF r.foreignNS = <<>> \/ Last(r.foreignNS).name # name THEN r
  ELSE [r EXCEPT !.foreignNS = Below(@),
                 !.foreignObjectAt = IF Len(r.foreignNS) - 1 < @ THEN 0 ELSE @]

\* Pop through the innermost element of the name; none, and nothing is popped.
popForeign(r, name) ==
  LET upTo == UpTo(r.foreignNS, LAMBDA e : e.name = name)
  IN  IF upTo = <<>> THEN r
      ELSE [r EXCEPT !.foreignNS = Below(upTo),
                     !.foreignObjectAt = IF Len(upTo) - 1 < @ THEN 0 ELSE @]

-----------------------------------------------------------------------------
(* A start tag, in the four steps of Read. *)

RawText(r, tag) ==
  IF tag # "title" THEN r
  ELSE [r EXCEPT !.rawText = TRUE, !.rawTextForeign = inForeignContent(r)]

\* Bug: a start tag of HTML leaves the vocabularies open.
NoBreakOut(r, tag) == r

BreakOut(r, tag) ==
  IF inForeignContent(r) /\ tag \in BreaksOut
  THEN [r EXCEPT !.foreignNS = SubSeq(@, 1, r.foreignObjectAt)]
  ELSE r

Glyph(r, tag) ==
  IF /\ tag = "mglyph"
     /\ r.foreignObjectAt > 0
     /\ r.mathTextPoint
     /\ Len(r.foreignNS) = r.foreignObjectAt
  THEN [r EXCEPT !.foreignObjectAt = 0]
  ELSE r

Enter(r, tag) ==
  CASE tag \in {"svg", "math"} ->
         [r EXCEPT !.foreignNS =
            Append(@, [name |-> tag,
                       ns |-> IF inForeignContent(r) THEN currentNS(r) ELSE tag])]
    [] /\ tag = "annotation-html"
       /\ currentNS(r) = "math"
       /\ r.foreignObjectAt = 0 ->
         [r EXCEPT !.foreignObjectAt = Len(r.foreignNS)]
    [] integrationPointIn(tag, currentNS(r)) /\ r.foreignObjectAt = 0 ->
         [r EXCEPT !.foreignObjectAt = Len(r.foreignNS),
                   !.mathTextPoint = currentNS(r) = "math"]
    [] OTHER -> r

\* Inside a title the tokenizer gives no tags.  What it swallowed is looked at
\* again when there is a style in it, by the names alone.
Swallow(r, tag) ==
  [r EXCEPT !.swallowed.depth = IF tag \in {"svg", "math"} THEN @ + 1 ELSE @,
            !.swallowed.rcdata = @ \/ tag = "title"]

StartTag(r, tag, closed) ==
  IF r.rawText THEN Swallow(r, tag)
  ELSE LET read == Glyph(BreakOut(RawText(r, tag), tag), tag)
       IN  IF closed THEN read ELSE Enter(read, tag)

EndTag(r, name) ==
  IF r.rawText /\ name # "title"
  THEN [r EXCEPT !.swallowed.depth = IF name \in {"svg", "math"} THEN @ - 1 ELSE @]
  ELSE LET read == [r EXCEPT !.rawText = FALSE, !.swallowed = NothingSwallowed]
       IN  CASE name \in {"svg", "math"} -> popForeign(read, name)
             [] name \in {"desc", "title", "mi", "annotation-xml"} ->
                  [read EXCEPT !.foreignObjectAt = 0]
             [] OTHER -> read

-----------------------------------------------------------------------------
(* The document. *)

Deep(s) == Len(s) >= MaxOpen

\* The names that may resume the rules of HTML.
Placed == {"desc", "title", "mi", "annotation-xml"}

\* The places a validator accepts: a name that means something in one
\* vocabulary is used in that one, where its rules are in force (a title may
\* also be that of the page).
InPlace(tag) ==
  LET Within(ns) == Current(open).ns = ns /\ ForeignRules(open, tag)
  IN  /\ tag = "desc" => Within("svg")
      /\ tag = "title" => Within("svg") \/ \A i \in DOMAIN open : open[i].ns = "html"
      /\ tag \in {"mi", "annotation-xml", "annotation-html"} => Within("math")
      /\ tag = "mglyph" => TextPoint(Current(open))

\* What an end tag closes is innermost, or is an svg or math in which other
\* elements of svg and math were left open.
Closes(name) ==
  \E i \in DOMAIN open :
    /\ NameOf(open[i].tag) = name
    /\ \/ i = Len(open)
       \/ /\ name \in {"svg", "math"}
          /\ \A j \in i .. Len(open) : open[j].ns # "html" /\ open[j].tag # "title"

\* Whether HTML, or another vocabulary, may stand inside a vocabulary.
Mixes(s, i) == Point(s[i]) \/ (i > 1 /\ {s[i - 1].ns, s[i].ns} = {"svg", "math"})
Mixed(s)    == \E i \in DOMAIN s : Mixes(s, i)

\* Where a start tag leads the tracker, in a document whose tags are all in
\* place.  It is "blurred" when it cannot tell any more where the rules of HTML
\* apply: there is one mark for all integration points, an mglyph makes it give
\* that up, and a vocabulary may be taken for the one around it.  It is "lost" when it
\* drops a vocabulary that is open, at the mark it then has, or takes the end of a
\* title for that of the title around it; and "gone" when it waits for the end of a
\* title that closed itself.
Led(tag, closed) ==
  LET titled == \E i \in DOMAIN open : open[i].tag = "title"
      waits  == tag = "title" /\ closed /\ ForeignRules(open, tag)
      blurs  == tag = "mglyph" \/ (~closed /\ NameOf(tag) \in Placed /\ Mixed(open))
  IN  CASE track = "gone" -> "gone"
        [] track = "lost" -> IF waits THEN "gone" ELSE "lost"
        [] track \in {"clear", "blurred"} /\ titled ->
             IF tag = "title" /\ ~closed THEN "lost" ELSE track
        [] track \in {"clear", "blurred"} /\ ~titled ->
             IF waits THEN "gone"
             ELSE IF track = "blurred" /\ tag \in BreaksOut THEN "lost"
             ELSE IF blurs THEN "blurred" ELSE track

\* And when it is on its way again: if it was lost, not before all of svg and
\* math is closed, the integration points in it each by an end tag of its own.
Found(t) ==
  CASE t = "lost" /\ \A i \in DOMAIN open' : open'[i].ns = "html" -> "clear"
    [] t = "blurred" /\ ~Mixed(open') -> "clear"
    [] OTHER -> t

LeftOpen ==
  \E i \in (Len(open') + 2) .. Len(open) : Point(open[i]) \/ open[i].tag \in {"svg", "math"}

Start(tag, closed) ==
  /\ ~Deep(open)
  /\ ~Deep(w.foreignNS)
  /\ tag \in {"svg", "math"} => w.swallowed.depth < MaxOpen
  /\ Astray \/ text \/ InPlace(tag)
  /\ w' = StartTag(w, tag, closed)
  /\ IF text THEN UNCHANGED <<open, text, track>>
     ELSE /\ IF tag = "title" /\ ~ForeignRules(open, tag)
             THEN text' = TRUE /\ UNCHANGED open
             ELSE open' = OpenTag(open, tag, closed) /\ UNCHANGED text
          /\ track' = Found(Led(tag, closed))

End(name) ==
  /\ name \in {"svg", "math"} => w.swallowed.depth > -MaxOpen
  /\ Astray \/ text \/ Closes(name)
  /\ w' = EndTag(w, name)
  /\ IF text
     THEN /\ text' = (name # "title")
          /\ UNCHANGED open
     ELSE /\ open' = CloseTag(open, name)
          /\ UNCHANGED text
  /\ track' = IF track = "lost" /\ LeftOpen THEN "gone" ELSE Found(track)

Next ==
  \/ \E tag \in Starts : Start(tag, FALSE)
  \/ \E tag \in Closed : Start(tag, TRUE)
  \/ \E name \in Ends : End(name)

Spec == Init /\ [][Next]_vars

-----------------------------------------------------------------------------
(* A script or a style here, in a title the first one. *)

\* The browser decodes a title's text, and in foreign content everything.
Resolves == text \/ ForeignRules(open, "g")

\* The text of a title is decoded, but for a style that is an element there:
\* that one is CSS, and decoded only in foreign content.
StyleInTitle(r) ==
  /\ r.rawText
  /\ r.rawTextForeign
  /\ integrationPointIn("title", currentNS(r))
  /\ ~r.swallowed.rcdata

Decodes(r, el) ==
  \/ r.rawText /\ ~(el = "style" /\ StyleInTitle(r))
  \/ inForeignContent(r)
  \/ r.rawText /\ r.swallowed.depth > 0

\* internal/rewrite/foreign_oracle_test.go:27, "What is never allowed is the
\* leak: an origin the parser resolves, left naming production": where the
\* browser decodes a script or a style, the rewriter does.
NeverWithholds ==
  Resolves => \A el \in {"script", "style"} : Decodes(w, el)

\* That holds, however far back the tags are that decide it, unless the tracker
\* was lost.
WithholdsOnlyLost == track \notin {"lost", "gone"} => NeverWithholds

\* And while it sees clearly it decodes nothing the browser does not, so no
\* script is changed that names no URL.
OnlyWhatResolves ==
  track = "clear" /\ ~w.rawText /\ inForeignContent(w) => Resolves

\* When all that was opened is closed nothing is left of it, lost or not: the
\* rest of the page is read like a page that never had it.
NothingLeftBehind ==
  track # "gone" /\ open = <<>> /\ ~text => w.foreignNS = <<>> /\ w.foreignObjectAt = 0

\* The depth of the mark is one there is, on any document whatever: BreakOut
\* slices the stack at it, and in Go a slice may grow back what was popped.
MarkWithinStack == w.foreignObjectAt <= Len(w.foreignNS)
=============================================================================
