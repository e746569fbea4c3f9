----------------------------- MODULE TreeBuilder -----------------------------
(***************************************************************************)
(* The HTML parser in the browser, as far as ForeignContent has to agree   *)
(* with it: which elements are open, in which vocabulary, and so whether a *)
(* script or a style here has its character references decoded.  It is     *)
(* external to the repository, whose tests take html.Parse for it; the     *)
(* comments of internal/rewrite/html.go quote its rules (13.2.6).          *)
(*                                                                         *)
(* One name stands for each class of element the rules tell apart: desc    *)
(* for foreignObject and desc, mi for mi, mo, mn, ms and mtext, div for the *)
(* start tags that break out of foreign content, br for the void ones, g   *)
(* for everything else, mglyph for itself and malignmark.  title is an     *)
(* integration point too, and text to a tokenizer.                         *)
(***************************************************************************)
EXTENDS Integers, SequencesExt

\* annotation-html is an annotation-xml whose encoding is an HTML one.
Tags  == {"svg", "math", "desc", "title", "mi", "annotation-xml",
          "annotation-html", "mglyph", "div", "br", "g"}
Names == Tags \ {"annotation-html"}
NameOf(tag) == IF tag = "annotation-html" THEN "annotation-xml" ELSE tag

BreaksOut == {"div", "br"}

Element(tag, ns) == [tag |-> tag, ns |-> ns]
Elements == [tag : Tags, ns : {"html", "svg", "math"}]

\* The longest prefix of s whose last element passes Test, or none of s.
UpTo(s, Test(_)) ==
  LET last == {i \in DOMAIN s : Test(s[i])}
  IN  IF last = {} THEN <<>> ELSE SubSeq(s, 1, CHOOSE i \in last : \A j \in last : j <= i)

Below(s) == SubSeq(s, 1, Len(s) - 1)

TextPoint(e) == e.ns = "math" /\ e.tag = "mi"
HtmlPoint(e) == \/ e.ns = "svg" /\ e.tag \in {"desc", "title"}
                \/ e.ns = "math" /\ e.tag = "annotation-html"
Point(e)     == TextPoint(e) \/ HtmlPoint(e)
Special(e)   == \/ Point(e)
                \/ e.ns = "math" /\ e.tag = "annotation-xml"
                \/ e.ns = "html" /\ e.tag = "div"

Current(open) == IF open = <<>> THEN Element("g", "html") ELSE Last(open)

\* Whether a start tag, or a character, is read by the rules for foreign
\* content.
ForeignRules(open, tag) ==
  LET e == Current(open)
  IN  /\ e.ns # "html"
      /\ TextPoint(e) => tag = "mglyph"
      /\ ~HtmlPoint(e)
      /\ ~(e.ns = "math" /\ NameOf(e.tag) = "annotation-xml" /\ tag = "svg")

\* The rules for the body: svg and math open their vocabularies, a void
\* element does not stay open, and only those two honour a self-closing flag.
OpenInBody(open, tag, closed) ==
  IF tag = "br" \/ (closed /\ tag \in {"svg", "math"}) THEN open
  ELSE Append(open, Element(tag, IF tag \in {"svg", "math"} THEN tag ELSE "html"))

OpenTag(open, tag, closed) ==
  IF ~ForeignRules(open, tag) THEN OpenInBody(open, tag, closed)
  ELSE IF tag \in BreaksOut
  THEN OpenInBody(UpTo(open, LAMBDA e : e.ns = "html" \/ Point(e)), tag, closed)
  ELSE IF closed THEN open
  ELSE Append(open, Element(tag, Current(open).ns))

\* An end tag closes through the innermost element of its name; in HTML only
\* an HTML one, and none behind a special element.
CloseInBody(open, name) ==
  LET upTo == UpTo(open, LAMBDA e : Special(e) \/ (e.ns = "html" /\ NameOf(e.tag) = name))
  IN  IF upTo # <<>> /\ Last(upTo).ns = "html" /\ NameOf(Last(upTo).tag) = name
      THEN Below(upTo) ELSE open

CloseTag(open, name) ==
  IF Current(open).ns = "html" THEN CloseInBody(open, name)
  ELSE LET upTo == UpTo(open, LAMBDA e : e.ns = "html" \/ NameOf(e.tag) = name)
       IN  IF upTo # <<>> /\ Last(upTo).ns # "html" THEN Below(upTo)
           ELSE CloseInBody(open, name)
=============================================================================
