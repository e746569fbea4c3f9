------------------------ MODULE ForeignContentProofs ------------------------
(***************************************************************************)
(* For any set of tags, any document and any depth of it: that the depth   *)
(* at which HTML rules resumed is one the rewriter's stack has; and, where *)
(* every tag is one a validator accepts in its place, how far the rewriter *)
(* decodes a script or a style where the browser does.  The invariant sets *)
(* the two stacks side by side: the rewriter's elements are roots svg and  *)
(* math among the browser's, at the positions pos, its mark is at an       *)
(* integration point p, and a title it has not seen the end of is at q.    *)
(* How much of the browser's stack is on the rewriter's, and what the mark *)
(* says, depends on track.  A cut and a push are lemmas over any two       *)
(* stacks; each kind of tag has a lemma built from them.                   *)
(***************************************************************************)
EXTENDS ForeignContent, FiniteSetTheorems, NaturalsInduction, WellFoundedInduction, TLAPS

Vocabulary == [name : {"svg", "math"}, ns : {"svg", "math"}]

Marked(r) == r.foreignObjectAt <= Len(r.foreignNS)

Inv == w \in Rewriters /\ Marked(w)

-----------------------------------------------------------------------------
\* A set of positions of a sequence has a last one.
LEMMA LastPosition ==
    ASSUME NEW n \in Nat, NEW T \in SUBSET (1 .. n), T # {}
    PROVE  \E i \in T : \A j \in T : j <= i
<1> DEFINE D == {n - i : i \in T}
<1>1. D \subseteq Nat /\ D # {}
  <2>1. \A i \in T : n - i \in Nat
    OBVIOUS
  <2> QED
    BY <2>1, Zenon
<1>2. PICK d \in D : \A e \in D : <<e, d>> \notin OpToRel(<, Nat)
  BY <1>1, WFMin, NatLessThanWellFounded, Zenon
<1>3. \A e \in D : ~(e < d)
  BY <1>1, <1>2, Zenon DEF OpToRel
<1>4. PICK i \in T : d = n - i
  OBVIOUS
<1>5. \A j \in T : j <= i
  <2> SUFFICES ASSUME NEW j \in T PROVE j <= i
    OBVIOUS
  <2>1. ~(n - j < n - i)
    BY <1>3, <1>4, Zenon
  <2>2. i \in 1 .. n /\ j \in 1 .. n
    OBVIOUS
  <2> QED
    BY <2>1, <2>2
<1> QED
  BY <1>5

\* popForeign leaves the stack as it is, or cuts it below some element and
\* drops the mark that would be beyond the cut.
LEMMA PopCuts ==
    ASSUME NEW r \in Rewriters, NEW name
    PROVE  \/ popForeign(r, name) = r
           \/ \E i \in 1 .. Len(r.foreignNS) :
                popForeign(r, name) =
                  [r EXCEPT !.foreignNS = SubSeq(r.foreignNS, 1, i - 1),
                            !.foreignObjectAt = IF i - 1 < @ THEN 0 ELSE @]
<1> DEFINE s == r.foreignNS
           last == {i \in DOMAIN s : s[i].name = name}
           k == CHOOSE i \in last : \A j \in last : j <= i
<1>1. s \in Seq(Vocabulary) /\ Len(s) \in Nat /\ DOMAIN s = 1 .. Len(s)
  BY DEF Rewriters, Vocabulary
<1>2. UpTo(s, LAMBDA e : e.name = name) = IF last = {} THEN <<>> ELSE SubSeq(s, 1, k)
  BY DEF UpTo
<1>3. CASE last = {}
  BY <1>2, <1>3 DEF popForeign
<1>4. CASE last # {}
  <2>1. k \in last
    BY <1>1, <1>4, LastPosition
  <2> HIDE DEF k, last
  <2>2. k \in 1 .. Len(s)
    BY <1>1, <2>1 DEF last
  <2>3. Len(SubSeq(s, 1, k)) = k /\ SubSeq(s, 1, k) # <<>>
    BY <1>1, <2>2
  <2>4. Below(SubSeq(s, 1, k)) = SubSeq(s, 1, k - 1)
    BY <1>1, <2>2, <2>3 DEF Below
  <2> QED
    BY <1>2, <1>4, <2>2, <2>3, <2>4 DEF popForeign
<1> QED
  BY <1>3, <1>4

\* The fields a tag changes may be changed to anything of their types.
LEMMA FieldsMayChange ==
    ASSUME NEW r \in Rewriters, NEW s \in Seq(Vocabulary), NEW n \in Nat, NEW b \in BOOLEAN
    PROVE  /\ [r EXCEPT !.foreignNS = s] \in Rewriters
           /\ [r EXCEPT !.foreignObjectAt = n] \in Rewriters
           /\ [r EXCEPT !.foreignNS = s, !.foreignObjectAt = n] \in Rewriters
           /\ [r EXCEPT !.foreignObjectAt = n, !.mathTextPoint = b] \in Rewriters
BY DEF Rewriters, Vocabulary

LEMMA PopKeeps ==
    ASSUME NEW r \in Rewriters, Marked(r), NEW name
    PROVE  popForeign(r, name) \in Rewriters /\ Marked(popForeign(r, name))
<1>1. ASSUME NEW i \in 1 .. Len(r.foreignNS),
             popForeign(r, name) = [r EXCEPT !.foreignNS = SubSeq(r.foreignNS, 1, i - 1),
                                            !.foreignObjectAt = IF i - 1 < @ THEN 0 ELSE @]
      PROVE  popForeign(r, name) \in Rewriters /\ Marked(popForeign(r, name))
  <2> DEFINE s == SubSeq(r.foreignNS, 1, i - 1)
             n == IF i - 1 < r.foreignObjectAt THEN 0 ELSE r.foreignObjectAt
  <2>1. r.foreignNS \in Seq(Vocabulary) /\ r.foreignObjectAt \in Nat
    BY DEF Rewriters, Vocabulary
  <2>2. s \in Seq(Vocabulary) /\ Len(s) = i - 1 /\ n \in Nat /\ n <= i - 1
    BY <2>1
  <2>3. popForeign(r, name) = [r EXCEPT !.foreignNS = s, !.foreignObjectAt = n]
    BY <1>1
  <2> HIDE DEF s, n
  <2>4. [r EXCEPT !.foreignNS = s, !.foreignObjectAt = n] \in Rewriters
    BY <2>2, FieldsMayChange
  <2>5. Marked([r EXCEPT !.foreignNS = s, !.foreignObjectAt = n])
    BY <2>2 DEF Marked, Rewriters
  <2> QED
    BY <2>3, <2>4, <2>5
<1> QED
  BY <1>1, PopCuts

LEMMA BreakOutKeeps ==
    ASSUME NEW r \in Rewriters, Marked(r), NEW tag
    PROVE  BreakOut(r, tag) \in Rewriters /\ Marked(BreakOut(r, tag))
<1> DEFINE s == SubSeq(r.foreignNS, 1, r.foreignObjectAt)
<1>1. r.foreignNS \in Seq(Vocabulary) /\ r.foreignObjectAt \in Nat
  BY DEF Rewriters, Vocabulary
<1>2. s \in Seq(Vocabulary) /\ Len(s) = r.foreignObjectAt
  BY <1>1 DEF Marked
<1>3. BreakOut(r, tag) = r \/ BreakOut(r, tag) = [r EXCEPT !.foreignNS = s]
  BY DEF BreakOut
<1> HIDE DEF s
<1>4. [r EXCEPT !.foreignNS = s] \in Rewriters
  BY <1>1, <1>2, FieldsMayChange
<1>5. Marked([r EXCEPT !.foreignNS = s])
  BY <1>1, <1>2 DEF Marked, Rewriters
<1> QED
  BY <1>3, <1>4, <1>5

LEMMA EnterKeeps ==
    ASSUME NEW r \in Rewriters, Marked(r), NEW tag
    PROVE  Enter(r, tag) \in Rewriters /\ Marked(Enter(r, tag))
<1>1. r.foreignNS \in Seq(Vocabulary) /\ r.foreignObjectAt \in Nat /\ Len(r.foreignNS) \in Nat
  BY DEF Rewriters, Vocabulary
<1>2. CASE tag \in {"svg", "math"}
  <2> DEFINE e == [name |-> tag, ns |-> IF inForeignContent(r) THEN currentNS(r) ELSE tag]
             s == Append(r.foreignNS, e)
  <2>0. Enter(r, tag) = [r EXCEPT !.foreignNS = Append(@, e)]
    BY <1>2 DEF Enter, integrationPointIn
  <2>1. inForeignContent(r) => currentNS(r) \in {"svg", "math"}
    <3>1. r.foreignNS # <<>> => Last(r.foreignNS) \in Vocabulary
      BY <1>1 DEF Last
    <3>2. r.foreignNS # <<>> => Last(r.foreignNS).ns \in {"svg", "math"}
      BY <3>1 DEF Vocabulary
    <3> QED
      BY <3>2 DEF inForeignContent, currentNS
  <2>2. e \in Vocabulary
    BY <1>2, <2>1 DEF Vocabulary
  <2> HIDE DEF e
  <2>3. s \in Seq(Vocabulary) /\ Len(s) = Len(r.foreignNS) + 1
    BY <1>1, <2>2
  <2>4. Enter(r, tag) = [r EXCEPT !.foreignNS = s]
    BY <2>0
  <2> HIDE DEF s
  <2>5. [r EXCEPT !.foreignNS = s] \in Rewriters
    BY <2>3, <1>1, FieldsMayChange
  <2>6. Marked([r EXCEPT !.foreignNS = s])
    BY <1>1, <2>3 DEF Marked, Rewriters
  <2> QED
    BY <2>4, <2>5, <2>6
<1>3. CASE tag \notin {"svg", "math"}
  <2> DEFINE n == Len(r.foreignNS)
             b == currentNS(r) = "math"
  <2>1. \/ Enter(r, tag) = r
        \/ Enter(r, tag) = [r EXCEPT !.foreignObjectAt = n]
        \/ Enter(r, tag) = [r EXCEPT !.foreignObjectAt = n, !.mathTextPoint = b]
    BY <1>3 DEF Enter
  <2>2. b \in BOOLEAN
    OBVIOUS
  <2> HIDE DEF b
  <2>3. /\ [r EXCEPT !.foreignObjectAt = n] \in Rewriters
        /\ [r EXCEPT !.foreignObjectAt = n, !.mathTextPoint = b] \in Rewriters
    BY <1>1, <2>2, FieldsMayChange
  <2>4. /\ Marked([r EXCEPT !.foreignObjectAt = n])
        /\ Marked([r EXCEPT !.foreignObjectAt = n, !.mathTextPoint = b])
    BY <1>1 DEF Marked, Rewriters
  <2> QED
    BY <2>1, <2>3, <2>4
<1> QED
  BY <1>2, <1>3

LEMMA GlyphKeeps ==
    ASSUME NEW r \in Rewriters, Marked(r), NEW tag
    PROVE  Glyph(r, tag) \in Rewriters /\ Marked(Glyph(r, tag))
<1>1. r.foreignNS \in Seq(Vocabulary) /\ r.foreignObjectAt \in Nat /\ Len(r.foreignNS) \in Nat
  BY DEF Rewriters, Vocabulary
<1>2. Glyph(r, tag) = r \/ Glyph(r, tag) = [r EXCEPT !.foreignObjectAt = 0]
  BY DEF Glyph
<1>3. [r EXCEPT !.foreignObjectAt = 0] \in Rewriters
  BY <1>1, FieldsMayChange
<1>4. Marked([r EXCEPT !.foreignObjectAt = 0])
  BY <1>1 DEF Marked, Rewriters
<1> QED
  BY <1>2, <1>3, <1>4

LEMMA StartTagKeeps ==
    ASSUME NEW r \in Rewriters, Marked(r), NEW tag, NEW closed \in BOOLEAN
    PROVE  StartTag(r, tag, closed) \in Rewriters /\ Marked(StartTag(r, tag, closed))
<1>1. CASE r.rawText
  <2>1. Swallow(r, tag) \in Rewriters
    <3> DEFINE d == IF tag \in {"svg", "math"} THEN r.swallowed.depth + 1 ELSE r.swallowed.depth
               c == r.swallowed.rcdata \/ tag = "title"
    <3>1. r.swallowed \in [depth : Int, rcdata : BOOLEAN]
      BY DEF Rewriters
    <3>2. d \in Int /\ c \in BOOLEAN
      BY <3>1
    <3>3. Swallow(r, tag) = [r EXCEPT !.swallowed.depth = d, !.swallowed.rcdata = c]
      BY DEF Swallow
    <3> HIDE DEF d, c
    <3>4. [r EXCEPT !.swallowed.depth = d, !.swallowed.rcdata = c] \in Rewriters
      BY <3>2 DEF Rewriters
    <3> QED
      BY <3>3, <3>4
  <2>2. Marked(Swallow(r, tag))
    BY DEF Swallow, Rewriters, Marked
  <2> QED
    BY <1>1, <2>1, <2>2 DEF StartTag
<1>2. CASE ~r.rawText
  <2> DEFINE t == RawText(r, tag)
             u == Glyph(BreakOut(t, tag), tag)
  <2>1. t \in Rewriters /\ Marked(t)
    <3>1. inForeignContent(r) \in BOOLEAN
      BY DEF inForeignContent
    <3>2. [r EXCEPT !.rawText = TRUE, !.rawTextForeign = inForeignContent(r)] \in Rewriters
      BY <3>1 DEF Rewriters
    <3>3. Marked([r EXCEPT !.rawText = TRUE, !.rawTextForeign = inForeignContent(r)])
      BY DEF Rewriters, Marked
    <3> QED
      BY <3>2, <3>3 DEF RawText
  <2> HIDE DEF t
  <2>2. u \in Rewriters /\ Marked(u)
    BY <2>1, BreakOutKeeps, GlyphKeeps
  <2>3. StartTag(r, tag, closed) = IF closed THEN u ELSE Enter(u, tag)
    BY <1>2 DEF StartTag, t
  <2> HIDE DEF u
  <2> QED
    BY <2>2, <2>3, EnterKeeps
<1> QED
  BY <1>1, <1>2

LEMMA EndTagKeeps ==
    ASSUME NEW r \in Rewriters, Marked(r), NEW name
    PROVE  EndTag(r, name) \in Rewriters /\ Marked(EndTag(r, name))
<1> DEFINE swallowed == [r EXCEPT !.swallowed.depth =
                           IF name \in {"svg", "math"} THEN @ - 1 ELSE @]
           t == [r EXCEPT !.rawText = FALSE, !.swallowed = NothingSwallowed]
<1>1. swallowed \in Rewriters /\ Marked(swallowed)
  BY DEF Rewriters, Marked
<1>2. t \in Rewriters
  <2>1. NothingSwallowed \in [depth : Int, rcdata : BOOLEAN]
    BY DEF NothingSwallowed
  <2> QED
    BY <2>1 DEF Rewriters
<1>3. Marked(t)
  BY DEF Rewriters, Marked
<1> HIDE DEF swallowed, t
<1>4. /\ [t EXCEPT !.foreignObjectAt = 0] \in Rewriters
      /\ Marked([t EXCEPT !.foreignObjectAt = 0])
  <2>1. t.foreignNS \in Seq(Vocabulary) /\ Len(t.foreignNS) \in Nat
    BY <1>2 DEF Rewriters, Vocabulary
  <2>2. [t EXCEPT !.foreignObjectAt = 0] \in Rewriters
    BY <1>2, 0 \in Nat DEF Rewriters
  <2>3. Marked([t EXCEPT !.foreignObjectAt = 0])
    BY <1>2, <2>1 DEF Rewriters, Marked
  <2> QED
    BY <2>2, <2>3
<1>5. \/ EndTag(r, name) = swallowed
      \/ EndTag(r, name) = popForeign(t, name)
      \/ EndTag(r, name) = [t EXCEPT !.foreignObjectAt = 0]
      \/ EndTag(r, name) = t
  BY DEF EndTag, swallowed, t
<1> QED
  BY <1>1, <1>2, <1>3, <1>4, <1>5, PopKeeps

-----------------------------------------------------------------------------
\* The stack of open vocabularies is never cut at a depth it does not have: on
\* no document, however broken, does BreakOut's w.foreignNS[:w.foreignObjectAt]
\* reach past the elements that are open.
THEOREM MarkHolds == Spec => []MarkWithinStack
<1>1. Init => Inv
  BY DEF Init, Inv, Rewriters, Marked, NothingSwallowed
<1>2. Inv /\ [Next]_vars => Inv'
  <2> SUFFICES ASSUME Inv, [Next]_vars PROVE Inv'
    OBVIOUS
  <2>1. ASSUME NEW tag, NEW closed \in BOOLEAN, Start(tag, closed) PROVE Inv'
    BY <2>1, StartTagKeeps DEF Inv, Start
  <2>2. ASSUME NEW name, End(name) PROVE Inv'
    BY <2>2, EndTagKeeps DEF Inv, End
  <2>3. CASE UNCHANGED vars
    BY <2>3 DEF Inv, vars
  <2> QED
    BY <2>1, <2>2, <2>3 DEF Next
<1>3. Inv => MarkWithinStack
  BY DEF Inv, Marked, MarkWithinStack
<1> QED
  BY <1>1, <1>2, <1>3, PTL DEF Spec

-----------------------------------------------------------------------------
(* The browser's stack, if the tags are in place. *)

Root(e)    == e.tag \in {"svg", "math"}
Foreign(e) == e.ns # "html"

\* A vocabulary is opened by its root, continues one element on the other in
\* one namespace, and only an integration point has HTML in it.
Fits(o, e) ==
  /\ Root(e) => Foreign(e)
  /\ Foreign(e) /\ ~Root(e) =>
       /\ o # <<>> /\ Foreign(o[Len(o)]) /\ o[Len(o)].ns = e.ns /\ ~HtmlPoint(o[Len(o)])
       /\ TextPoint(o[Len(o)]) => e.tag = "mglyph"
  /\ ~Foreign(e) => o = <<>> \/ ~Foreign(o[Len(o)]) \/ Point(o[Len(o)])
  /\ e.tag \in {"desc", "title"} => e.ns = "svg"
  /\ e.tag \in {"mi", "annotation-xml", "annotation-html"} => e.ns = "math"

Nested(o) ==
  /\ \A i \in DOMAIN o : Root(o[i]) => Foreign(o[i])
  /\ \A i \in DOMAIN o : Foreign(o[i]) /\ ~Root(o[i]) =>
       /\ i > 1 /\ Foreign(o[i - 1]) /\ o[i - 1].ns = o[i].ns /\ ~HtmlPoint(o[i - 1])
       /\ TextPoint(o[i - 1]) => o[i].tag = "mglyph"
  /\ \A i \in DOMAIN o : ~Foreign(o[i]) /\ i > 1 => ~Foreign(o[i - 1]) \/ Point(o[i - 1])
  /\ \A i \in DOMAIN o :
       /\ o[i].tag \in {"desc", "title"} => o[i].ns = "svg"
       /\ o[i].tag \in {"mi", "annotation-xml", "annotation-html"} => o[i].ns = "math"

LEMMA CutNested ==
    ASSUME NEW o \in Seq(Elements), Nested(o), NEW c \in 0 .. Len(o)
    PROVE  Nested(SubSeq(o, 1, c))
<1> DEFINE u == SubSeq(o, 1, c)
<1>1. /\ Len(o) \in Nat /\ DOMAIN o = 1 .. Len(o) /\ DOMAIN u = 1 .. c
      /\ \A i \in 1 .. c : u[i] = o[i]
  OBVIOUS
<1> HIDE DEF u
<1>2. \A i \in 1 .. c : i > 1 => i - 1 \in 1 .. c
  OBVIOUS
<1>3. Nested(u)
  BY <1>1, <1>2 DEF Nested
<1> QED
  BY <1>3 DEF u

LEMMA PushNested ==
    ASSUME NEW o \in Seq(Elements), Nested(o), NEW e \in Elements, Fits(o, e)
    PROVE  Nested(Append(o, e))
<1> DEFINE u == Append(o, e)
           n == Len(o)
<1>1. /\ n \in Nat /\ DOMAIN o = 1 .. n /\ DOMAIN u = 1 .. n + 1
      /\ u[n + 1] = e /\ (\A i \in 1 .. n : u[i] = o[i]) /\ (o # <<>> <=> n # 0)
  OBVIOUS
<1> HIDE DEF u
<1>2. \A i \in DOMAIN u : Root(u[i]) => Foreign(u[i])
  BY <1>1 DEF Nested, Fits
<1>3. \A i \in DOMAIN u : Foreign(u[i]) /\ ~Root(u[i]) =>
        /\ i > 1 /\ Foreign(u[i - 1]) /\ u[i - 1].ns = u[i].ns /\ ~HtmlPoint(u[i - 1])
        /\ TextPoint(u[i - 1]) => u[i].tag = "mglyph"
  <2> SUFFICES ASSUME NEW i \in 1 .. n + 1, Foreign(u[i]), ~Root(u[i])
               PROVE  /\ i > 1 /\ Foreign(u[i - 1]) /\ u[i - 1].ns = u[i].ns /\ ~HtmlPoint(u[i - 1])
                      /\ TextPoint(u[i - 1]) => u[i].tag = "mglyph"
    BY <1>1
  <2>1. CASE i \in 1 .. n
    <3>1. i > 1 => i - 1 \in 1 .. n
      BY <1>1, <2>1
    <3> QED
      BY <1>1, <2>1, <3>1 DEF Nested
  <2>2. CASE i = n + 1
    <3>1. o # <<>> /\ Foreign(o[n]) /\ o[n].ns = e.ns /\ ~HtmlPoint(o[n])
      BY <1>1, <2>2 DEF Fits
    <3>2. TextPoint(o[n]) => e.tag = "mglyph"
      BY <1>1, <2>2 DEF Fits
    <3>3. n \in 1 .. n /\ u[i - 1] = o[n] /\ u[i] = e /\ i > 1
      BY <1>1, <2>2, <3>1
    <3> QED
      BY <3>1, <3>2, <3>3
  <2> QED
    BY <1>1, <2>1, <2>2
<1>4. \A i \in DOMAIN u : ~Foreign(u[i]) /\ i > 1 => ~Foreign(u[i - 1]) \/ Point(u[i - 1])
  <2> SUFFICES ASSUME NEW i \in 1 .. n + 1, ~Foreign(u[i]), i > 1
               PROVE  ~Foreign(u[i - 1]) \/ Point(u[i - 1])
    BY <1>1
  <2>0. i - 1 \in 1 .. n
    BY <1>1
  <2>1. CASE i \in 1 .. n
    BY <1>1, <2>0, <2>1 DEF Nested
  <2>2. CASE i = n + 1
    <3>1. o # <<>> /\ u[i - 1] = o[n] /\ u[i] = e
      BY <1>1, <2>0, <2>2
    <3> QED
      BY <3>1 DEF Fits, n
  <2> QED
    BY <1>1, <2>1, <2>2
<1>5. \A i \in DOMAIN u :
        /\ u[i].tag \in {"desc", "title"} => u[i].ns = "svg"
        /\ u[i].tag \in {"mi", "annotation-xml", "annotation-html"} => u[i].ns = "math"
  BY <1>1 DEF Nested, Fits
<1>6. Nested(u)
  BY <1>2, <1>3, <1>4, <1>5 DEF Nested
<1> QED
  BY <1>6 DEF u

LEMMA PointsForeign ==
    ASSUME NEW e, Point(e)
    PROVE  NameOf(e.tag) \in Placed /\ Foreign(e) /\ ~Root(e)
BY DEF Point, TextPoint, HtmlPoint, NameOf, Placed, Foreign, Root

LEMMA TitlesArePoints ==
    ASSUME NEW o, Nested(o), NEW i \in DOMAIN o, o[i].tag = "title"
    PROVE  Point(o[i]) /\ HtmlPoint(o[i]) /\ ~TextPoint(o[i]) /\ Foreign(o[i]) /\ ~Root(o[i])
BY DEF Nested, Point, HtmlPoint, TextPoint, Foreign, Root

\* Going down from an element of a vocabulary there is its root, before any that
\* cannot have it as its child.
LEMMA RootAbove ==
    ASSUME NEW o \in Seq(Elements), Nested(o), NEW b \in DOMAIN o, Foreign(o[b]),
           NEW a \in 0 .. b - 1, a > 0 => ~Foreign(o[a + 1]) \/ Root(o[a + 1])
    PROVE  \E j \in a + 1 .. b : Root(o[j]) /\ \A i \in j .. b : o[i].ns = o[b].ns
<1> DEFINE n == Len(o)
           T == {d \in 1 .. b - a : \A i \in b - d + 1 .. b : Foreign(o[i]) /\ o[i].ns = o[b].ns}
<1>1. n \in Nat /\ DOMAIN o = 1 .. n /\ b \in 1 .. n /\ b - a \in Nat
  OBVIOUS
<1>2. 1 \in T
  <2>1. \A i \in b - 1 + 1 .. b : i = b
    BY <1>1
  <2> QED
    BY <1>1, <2>1
<1>3. T \in SUBSET (1 .. b - a)
  OBVIOUS
<1> HIDE DEF T
<1>4. PICK d \in T : \A k \in T : k <= d
  BY <1>1, <1>2, <1>3, LastPosition
<1> DEFINE j == b - d + 1
<1>5. /\ j \in a + 1 .. b /\ j \in DOMAIN o /\ d \in 1 .. b - a
      /\ \A i \in j .. b : Foreign(o[i]) /\ o[i].ns = o[b].ns
  BY <1>1, <1>3, <1>4 DEF T
<1>6. ASSUME ~Root(o[j]) PROVE FALSE
  <2>1. Foreign(o[j]) /\ o[j].ns = o[b].ns
    BY <1>5
  <2>2. j > 1 /\ Foreign(o[j - 1]) /\ o[j - 1].ns = o[j].ns
    BY <1>5, <1>6, <2>1 DEF Nested
  <2>3. j # a + 1
    BY <1>1, <1>5, <1>6, <2>1, <2>2
  <2>4. d + 1 \in 1 .. b - a
    BY <1>1, <1>5, <2>3
  <2>5. \A i \in b - (d + 1) + 1 .. b : i = j - 1 \/ i \in j .. b
    BY <1>1, <1>5
  <2>6. \A i \in b - (d + 1) + 1 .. b : Foreign(o[i]) /\ o[i].ns = o[b].ns
    BY <1>5, <2>1, <2>2, <2>5
  <2>7. d + 1 \in T
    BY <2>4, <2>6 DEF T
  <2> QED
    BY <1>4, <1>5, <2>7
<1> QED
  BY <1>5, <1>6

\* Between an element of a vocabulary and one of HTML above it there is a point.
LEMMA PointBetween ==
    ASSUME NEW o \in Seq(Elements), Nested(o), NEW b \in DOMAIN o, ~Foreign(o[b]),
           NEW a \in 1 .. b, Foreign(o[a])
    PROVE  \E i \in a .. b - 1 : Point(o[i])
<1> DEFINE n == Len(o)
           T == {i \in 1 .. b : i >= a /\ Foreign(o[i])}
<1>1. n \in Nat /\ DOMAIN o = 1 .. n /\ b \in 1 .. n
  OBVIOUS
<1>2. a \in T /\ T \in SUBSET (1 .. b)
  BY <1>1
<1> HIDE DEF T
<1>2a. b \in Nat /\ T # {}
  BY <1>1, <1>2
<1>3. PICK i \in T : \A k \in T : k <= i
  BY <1>2, <1>2a, LastPosition
<1>4. i \in 1 .. b /\ i >= a /\ Foreign(o[i])
  BY <1>3 DEF T
<1>5. i # b
  BY <1>4
<1>6. i + 1 \in DOMAIN o /\ i + 1 \in 1 .. b /\ i + 1 > 1
  BY <1>1, <1>4, <1>5
<1>7. ~Foreign(o[i + 1])
  BY <1>1, <1>3, <1>4, <1>6 DEF T
<1>8. \A k \in DOMAIN o : ~Foreign(o[k]) /\ k > 1 => ~Foreign(o[k - 1]) \/ Point(o[k - 1])
  BY DEF Nested
<1>9. ~Foreign(o[i]) \/ Point(o[i])
  <2>1. PICK k \in DOMAIN o : k = i + 1
    BY <1>6
  <2>2. k > 1 /\ k - 1 = i /\ ~Foreign(o[k])
    BY <1>4, <1>7, <2>1
  <2>3. ~Foreign(o[k - 1]) \/ Point(o[k - 1])
    BY <1>8, <2>2
  <2> QED
    BY <2>2, <2>3
<1> QED
  BY <1>1, <1>4, <1>5, <1>9

-----------------------------------------------------------------------------
(* The rewriter beside it. *)

\* What is inside an svg title is text to the tokenizer.
Seen(o, i) == \A j \in 1 .. i - 1 : o[j].tag # "title"

\* However lost: its stack is roots that are open, at the positions pos; its mark
\* is at an integration point p, all of its elements above that are roots above p,
\* and what stands directly in p is HTML or a root; a title in svg that it waits
\* for the end of is open, at q, and above all it knows.
Held(o, r, pos, p, q) ==
  LET f == r.foreignNS
  IN  /\ \A a, b \in DOMAIN f : a < b => pos[a] < pos[b]
      /\ \A k \in DOMAIN f : Root(o[pos[k]]) /\ f[k].name = o[pos[k]].tag
      /\ r.foreignObjectAt > 0 =>
           /\ p \in DOMAIN o /\ Point(o[p])
           /\ \A k \in DOMAIN f : k <= r.foreignObjectAt <=> pos[k] < p
           /\ TextPoint(o[p]) => r.mathTextPoint
           /\ p < Len(o) => Root(o[p + 1]) \/ ~Foreign(o[p + 1])
      /\ r.rawText =>
           /\ q \in DOMAIN o /\ o[q].tag = "title"
           /\ \A k \in DOMAIN f : pos[k] < q
           /\ r.foreignObjectAt > 0 => p <= q

\* Not lost: every root it has seen is there, in its own namespace as long as no
\* other vocabulary or HTML was in between.
Full(o, r, pos) ==
  /\ \A i \in DOMAIN o : Root(o[i]) /\ Seen(o, i) => \E k \in DOMAIN r.foreignNS : pos[k] = i
  /\ \A k \in DOMAIN r.foreignNS :
       (\A j \in 1 .. pos[k] : ~Mixes(o, j)) => r.foreignNS[k].ns = o[pos[k]].ns

Unseen(o) == {i \in DOMAIN o : Root(o[i]) /\ ~Seen(o, i)}

\* There is one title at most, and the count of what is in it is not too low.
Titles(o, r) ==
  /\ r.rawText <=> \E i \in DOMAIN o : o[i].tag = "title"
  /\ \A i, j \in DOMAIN o : o[i].tag = "title" /\ o[j].tag = "title" => i = j
  /\ r.rawText => r.swallowed.depth >= Cardinality(Unseen(o))

\* Clear: there is one integration point at most, and the mark is there.
Clear(o, r) ==
  /\ \A i \in DOMAIN o : NameOf(o[i].tag) \in Placed /\ Seen(o, i) =>
       \A j \in 1 .. i - 1 : ~Point(o[j])
  /\ \A i \in DOMAIN o : Point(o[i]) /\ Seen(o, i) => r.foreignObjectAt > 0

Beside(o, r, x, pos, p, q) ==
  /\ pos \in [DOMAIN r.foreignNS -> DOMAIN o]
  /\ p \in Nat /\ q \in Nat
  /\ Held(o, r, pos, p, q)
  /\ x # "lost" => Full(o, r, pos) /\ Titles(o, r)
  /\ x = "clear" => Clear(o, r)

\* In the title of the page all of it is HTML, and nothing is on the rewriter's stack.
Empty(r) == r.foreignNS = <<>> /\ r.foreignObjectAt = 0

Quiet(r) == ~r.rawText => r.swallowed.depth = 0

Follows(o, r, x) == \E pos, p, q : Beside(o, r, x, pos, p, q)

\* What is so on any of these documents, whether the rewriter follows or not.
Sound(o, r, t) ==
  /\ o \in Seq(Elements) /\ t \in BOOLEAN
  /\ r \in Rewriters /\ Marked(r) /\ Quiet(r)
  /\ Nested(o)
  /\ t => r.rawText /\ \A i \in DOMAIN o : ~Foreign(o[i])

\* What a reader of the page and the rewriter have in common.
Agree(o, r, t, x) ==
  /\ Sound(o, r, t)
  /\ x \in {"clear", "blurred", "lost", "gone"}
  /\ x # "gone" => IF t THEN Empty(r) ELSE Follows(o, r, x)

Side == Agree(open, w, text, track)

\* What is claimed after x may be claimed after y.
AtMost(x, y) ==
  /\ x \in {"clear", "blurred", "lost"} /\ y \in {"clear", "blurred", "lost"}
  /\ y # "lost" => x # "lost"
  /\ y = "clear" => x = "clear"

-----------------------------------------------------------------------------
(* Fewer elements, or one more. *)

LEMMA CutSame ==
    ASSUME NEW o \in Seq(Elements), NEW c \in 0 .. Len(o)
    PROVE  /\ SubSeq(o, 1, c) \in Seq(Elements)
           /\ DOMAIN SubSeq(o, 1, c) = 1 .. c /\ Len(SubSeq(o, 1, c)) = c
           /\ \A i \in 1 .. c : /\ SubSeq(o, 1, c)[i] = o[i]
                                /\ Seen(SubSeq(o, 1, c), i) <=> Seen(o, i)
                                /\ Mixes(SubSeq(o, 1, c), i) <=> Mixes(o, i)
<1> DEFINE u == SubSeq(o, 1, c)
<1>1. /\ u \in Seq(Elements) /\ DOMAIN u = 1 .. c /\ Len(u) = c
      /\ \A i \in 1 .. c : u[i] = o[i]
  OBVIOUS
<1> HIDE DEF u
<1>2. \A i \in 1 .. c : Seen(u, i) <=> Seen(o, i)
  BY <1>1 DEF Seen
<1>3. \A i \in 1 .. c : Mixes(u, i) <=> Mixes(o, i)
  <2> SUFFICES ASSUME NEW i \in 1 .. c PROVE Mixes(u, i) <=> Mixes(o, i)
    OBVIOUS
  <2>1. u[i] = o[i] /\ (i > 1 => u[i - 1] = o[i - 1])
    BY <1>1
  <2> QED
    BY <2>1 DEF Mixes
<1> QED
  BY <1>1, <1>2, <1>3 DEF u

LEMMA PushSame ==
    ASSUME NEW o \in Seq(Elements), NEW e
    PROVE  /\ Len(o) \in Nat /\ DOMAIN o = 1 .. Len(o) /\ (o # <<>> <=> Len(o) # 0)
           /\ DOMAIN Append(o, e) = 1 .. Len(o) + 1 /\ Len(Append(o, e)) = Len(o) + 1
           /\ Append(o, e)[Len(o) + 1] = e
           /\ Seen(Append(o, e), Len(o) + 1) <=> \A i \in DOMAIN o : o[i].tag # "title"
           /\ \A i \in 1 .. Len(o) : /\ Append(o, e)[i] = o[i]
                                     /\ Seen(Append(o, e), i) <=> Seen(o, i)
                                     /\ Mixes(Append(o, e), i) <=> Mixes(o, i)
<1> DEFINE u == Append(o, e)
           n == Len(o)
<1>1. /\ n \in Nat /\ DOMAIN o = 1 .. n /\ (o # <<>> <=> n # 0)
      /\ DOMAIN u = 1 .. n + 1 /\ Len(u) = n + 1 /\ u[n + 1] = e
      /\ \A i \in 1 .. n : u[i] = o[i]
  OBVIOUS
<1> HIDE DEF u, n
<1>2. \A i \in 1 .. n : Seen(u, i) <=> Seen(o, i)
  BY <1>1 DEF Seen
<1>3. Seen(u, n + 1) <=> \A i \in DOMAIN o : o[i].tag # "title"
  <2>1. n + 1 - 1 = n
    BY <1>1
  <2> QED
    BY <1>1, <2>1 DEF Seen
<1>4. \A i \in 1 .. n : Mixes(u, i) <=> Mixes(o, i)
  <2> SUFFICES ASSUME NEW i \in 1 .. n PROVE Mixes(u, i) <=> Mixes(o, i)
    OBVIOUS
  <2>1. u[i] = o[i] /\ (i > 1 => u[i - 1] = o[i - 1])
    BY <1>1
  <2> QED
    BY <2>1 DEF Mixes
<1> QED
  BY <1>1, <1>2, <1>3, <1>4 DEF u, n

\* The first m positions, where the browser's stack is cut at c.
Shorter(at, pos, m, c, o) ==
  /\ at \in [1 .. m -> DOMAIN o]
  /\ \A k \in 1 .. m : at[k] = pos[k] /\ pos[k] <= c

\* What is open on the rewriter's stack after a cut may be less than what is on
\* the browser's, not more.
LEMMA CutHeld ==
    ASSUME NEW o \in Seq(Elements), NEW c \in 0 .. Len(o), NEW r \in Rewriters, NEW s,
           NEW pos \in [DOMAIN r.foreignNS -> DOMAIN o], NEW p \in Nat, NEW q \in Nat,
           Held(o, r, pos, p, q),
           NEW m \in 0 .. Len(r.foreignNS), s.foreignNS = SubSeq(r.foreignNS, 1, m),
           s.mathTextPoint = r.mathTextPoint,
           s.foreignObjectAt = 0 \/ (s.foreignObjectAt = r.foreignObjectAt /\ p <= c),
           s.rawText => r.rawText /\ q <= c,
           NEW at, Shorter(at, pos, m, c, o)
    PROVE  /\ at \in [DOMAIN s.foreignNS -> DOMAIN SubSeq(o, 1, c)]
           /\ Held(SubSeq(o, 1, c), s, at, p, q)
<1> DEFINE u == SubSeq(o, 1, c)
           f == r.foreignNS
           g == s.foreignNS
<1>1. /\ Len(o) \in Nat /\ DOMAIN o = 1 .. Len(o) /\ DOMAIN u = 1 .. c /\ Len(u) = c
      /\ \A i \in 1 .. c : u[i] = o[i]
  BY CutSame
<1>2. /\ Len(f) \in Nat /\ DOMAIN f = 1 .. Len(f) /\ DOMAIN g = 1 .. m
      /\ \A k \in 1 .. m : g[k] = f[k]
  BY DEF Rewriters
<1> HIDE DEF u
<1>2a. at \in [1 .. m -> DOMAIN o] /\ \A k \in 1 .. m : at[k] = pos[k] /\ pos[k] <= c
  BY DEF Shorter
<1>3. \A k \in 1 .. m : at[k] = pos[k] /\ pos[k] \in 1 .. c /\ k \in DOMAIN f
  <2> SUFFICES ASSUME NEW k \in 1 .. m PROVE pos[k] \in 1 .. c /\ k \in DOMAIN f
    BY <1>2a
  <2>1. k \in DOMAIN f
    BY <1>2
  <2>2. pos[k] \in 1 .. Len(o)
    BY <1>1, <2>1
  <2>3. pos[k] <= c
    BY <1>2a
  <2> QED
    BY <1>1, <2>1, <2>2, <2>3
<1>4. at \in [DOMAIN g -> DOMAIN u]
  BY <1>1, <1>2, <1>2a, <1>3
<1> HIDE DEF g
<1>5. \A a, b \in DOMAIN g : a < b => at[a] < at[b]
  BY <1>2, <1>3 DEF Held
<1>6. \A k \in DOMAIN g : Root(u[at[k]]) /\ g[k].name = u[at[k]].tag
  <2> SUFFICES ASSUME NEW k \in 1 .. m PROVE Root(u[at[k]]) /\ g[k].name = u[at[k]].tag
    BY <1>2
  <2>1. Root(o[pos[k]]) /\ f[k].name = o[pos[k]].tag
    BY <1>3 DEF Held
  <2>2. u[at[k]] = o[pos[k]] /\ g[k] = f[k]
    BY <1>1, <1>2, <1>3
  <2> QED
    BY <2>1, <2>2
<1>7. s.foreignObjectAt > 0 =>
        /\ p \in DOMAIN u /\ Point(u[p])
        /\ \A k \in DOMAIN g : k <= s.foreignObjectAt <=> at[k] < p
        /\ TextPoint(u[p]) => s.mathTextPoint
        /\ p < Len(u) => Root(u[p + 1]) \/ ~Foreign(u[p + 1])
  <2> SUFFICES ASSUME s.foreignObjectAt > 0
               PROVE  /\ p \in DOMAIN u /\ Point(u[p])
                      /\ \A k \in DOMAIN g : k <= s.foreignObjectAt <=> at[k] < p
                      /\ TextPoint(u[p]) => s.mathTextPoint
                      /\ p < Len(u) => Root(u[p + 1]) \/ ~Foreign(u[p + 1])
    OBVIOUS
  <2>0. s.foreignObjectAt = r.foreignObjectAt /\ p <= c
    OBVIOUS
  <2>1. /\ p \in DOMAIN o /\ Point(o[p])
        /\ \A k \in DOMAIN f : k <= r.foreignObjectAt <=> pos[k] < p
        /\ TextPoint(o[p]) => r.mathTextPoint
        /\ p < Len(o) => Root(o[p + 1]) \/ ~Foreign(o[p + 1])
    BY <2>0 DEF Held
  <2>2. p \in 1 .. c /\ u[p] = o[p]
    BY <1>1, <2>0, <2>1
  <2>3. p < c => p + 1 \in 1 .. c /\ u[p + 1] = o[p + 1] /\ p < Len(o)
    BY <1>1, <2>2
  <2> QED
    BY <1>1, <1>2, <1>3, <2>0, <2>1, <2>2, <2>3
<1>8. s.rawText =>
        /\ q \in DOMAIN u /\ u[q].tag = "title"
        /\ \A k \in DOMAIN g : at[k] < q
        /\ s.foreignObjectAt > 0 => p <= q
  <2> SUFFICES ASSUME s.rawText
               PROVE  /\ q \in DOMAIN u /\ u[q].tag = "title"
                      /\ \A k \in DOMAIN g : at[k] < q
                      /\ s.foreignObjectAt > 0 => p <= q
    OBVIOUS
  <2>1. /\ q \in DOMAIN o /\ o[q].tag = "title" /\ q <= c
        /\ \A k \in DOMAIN f : pos[k] < q
        /\ r.foreignObjectAt > 0 => p <= q
    BY DEF Held
  <2> QED
    BY <1>1, <1>2, <1>3, <2>1
<1>9. Held(u, s, at, p, q)
  BY <1>5, <1>6, <1>7, <1>8 DEF Held, g
<1> QED
  BY <1>4, <1>9 DEF u, g

\* What is on both is on both after a cut at the same place.
LEMMA CutFull ==
    ASSUME NEW o \in Seq(Elements), NEW c \in 0 .. Len(o), NEW r \in Rewriters, NEW s,
           NEW pos \in [DOMAIN r.foreignNS -> DOMAIN o], Full(o, r, pos),
           NEW m \in 0 .. Len(r.foreignNS), s.foreignNS = SubSeq(r.foreignNS, 1, m),
           \A k \in 1 .. Len(r.foreignNS) : k <= m <=> pos[k] <= c,
           NEW at, Shorter(at, pos, m, c, o)
    PROVE  Full(SubSeq(o, 1, c), s, at)
<1> DEFINE u == SubSeq(o, 1, c)
           f == r.foreignNS
           g == s.foreignNS
<1>1. /\ Len(o) \in Nat /\ DOMAIN o = 1 .. Len(o) /\ DOMAIN u = 1 .. c
      /\ \A i \in 1 .. c : /\ u[i] = o[i] /\ (Seen(u, i) <=> Seen(o, i))
                           /\ (Mixes(u, i) <=> Mixes(o, i))
  BY CutSame
<1>2. /\ Len(f) \in Nat /\ DOMAIN f = 1 .. Len(f) /\ DOMAIN g = 1 .. m
      /\ \A k \in 1 .. m : g[k] = f[k]
  BY DEF Rewriters
<1> HIDE DEF u
<1>2a. at \in [1 .. m -> DOMAIN o] /\ \A k \in 1 .. m : at[k] = pos[k] /\ pos[k] <= c
  BY DEF Shorter
<1>3. \A k \in 1 .. m : at[k] = pos[k] /\ pos[k] \in 1 .. c /\ k \in DOMAIN f
  <2> SUFFICES ASSUME NEW k \in 1 .. m PROVE pos[k] \in 1 .. c /\ k \in DOMAIN f
    BY <1>2a
  <2>1. k \in DOMAIN f /\ k \in 1 .. Len(f) /\ k <= m
    BY <1>2
  <2>2. pos[k] \in 1 .. Len(o)
    BY <1>1, <2>1
  <2>3. pos[k] <= c
    BY <2>1
  <2> QED
    BY <1>1, <2>1, <2>2, <2>3
<1>4. ASSUME NEW i \in DOMAIN u, Root(u[i]), Seen(u, i) PROVE \E k \in DOMAIN g : at[k] = i
  <2>1. PICK k \in DOMAIN f : pos[k] = i
    BY <1>1, <1>4 DEF Full
  <2>2. k <= m
    BY <1>1, <1>2, <2>1
  <2>3. k \in DOMAIN g
    BY <1>2, <2>1, <2>2
  <2> HIDE DEF g
  <2> QED
    BY <1>2, <1>3, <2>1, <2>3
<1> HIDE DEF g
<1>5. ASSUME NEW k \in DOMAIN g, \A j \in 1 .. at[k] : ~Mixes(u, j)
      PROVE  g[k].ns = u[at[k]].ns
  <2>1. k \in 1 .. m /\ at[k] = pos[k] /\ pos[k] \in 1 .. c /\ k \in DOMAIN f /\ g[k] = f[k]
    BY <1>2, <1>3
  <2>2. \A j \in 1 .. pos[k] : ~Mixes(o, j)
    BY <1>1, <1>5, <2>1
  <2> QED
    BY <1>1, <2>1, <2>2 DEF Full
<1>6. Full(u, s, at)
  BY <1>4, <1>5 DEF Full, g
<1> QED
  BY <1>6 DEF u

\* A cut of HTML, of points and of what is in a title takes the rest with it.
LEMMA CutClear ==
    ASSUME NEW o \in Seq(Elements), NEW c \in 0 .. Len(o), NEW r, NEW s, Clear(o, r),
           \A i \in 1 .. c : Point(o[i]) /\ Seen(o, i) /\ r.foreignObjectAt > 0 =>
             s.foreignObjectAt > 0
    PROVE  Clear(SubSeq(o, 1, c), s)
<1> DEFINE u == SubSeq(o, 1, c)
<1>1. /\ Len(o) \in Nat /\ DOMAIN o = 1 .. Len(o) /\ DOMAIN u = 1 .. c
      /\ \A i \in 1 .. c : /\ u[i] = o[i] /\ (Seen(u, i) <=> Seen(o, i)) /\ i \in DOMAIN o
  BY CutSame
<1> HIDE DEF u
<1>2. ASSUME NEW i \in DOMAIN u, NameOf(u[i].tag) \in Placed, Seen(u, i), NEW j \in 1 .. i - 1
      PROVE  ~Point(u[j])
  <2>1. i \in 1 .. c /\ j \in 1 .. c
    BY <1>1
  <2> QED
    BY <1>1, <1>2, <2>1 DEF Clear
<1>3. ASSUME NEW i \in DOMAIN u, Point(u[i]), Seen(u, i) PROVE s.foreignObjectAt > 0
  BY <1>1, <1>3 DEF Clear
<1>4. Clear(u, s)
  BY <1>2, <1>3 DEF Clear
<1> QED
  BY <1>4 DEF u

\* An element that is not on the rewriter's stack; the mark stays, goes, or is
\* set at the element, and a title is waited for from here or from before.
LEMMA PushHeld ==
    ASSUME NEW o \in Seq(Elements), NEW e, NEW r \in Rewriters, Marked(r), NEW s,
           NEW pos \in [DOMAIN r.foreignNS -> DOMAIN o], NEW p \in Nat, NEW q \in Nat,
           Held(o, r, pos, p, q), s.foreignNS = r.foreignNS,
           NEW p1 \in Nat, NEW q1 \in Nat,
           s.foreignObjectAt > 0 =>
             \/ /\ p1 = p /\ s.foreignObjectAt = r.foreignObjectAt
                /\ s.mathTextPoint = r.mathTextPoint
                /\ p = Len(o) => Root(e) \/ ~Foreign(e)
             \/ /\ p1 = Len(o) + 1 /\ Point(e)
                /\ s.foreignObjectAt = Len(r.foreignNS)
                /\ TextPoint(e) => s.mathTextPoint,
           s.rawText =>
             \/ q1 = q /\ r.rawText /\ (s.foreignObjectAt > 0 => p1 = p /\ r.foreignObjectAt > 0)
             \/ q1 = Len(o) + 1 /\ e.tag = "title"
    PROVE  /\ pos \in [DOMAIN s.foreignNS -> DOMAIN Append(o, e)]
           /\ Held(Append(o, e), s, pos, p1, q1)
<1> DEFINE u == Append(o, e)
           f == r.foreignNS
           n == Len(o)
<1>1. /\ n \in Nat /\ DOMAIN o = 1 .. n /\ DOMAIN u = 1 .. n + 1 /\ Len(u) = n + 1
      /\ u[n + 1] = e /\ \A i \in 1 .. n : u[i] = o[i]
  BY PushSame
<1>2. /\ Len(f) \in Nat /\ DOMAIN f = 1 .. Len(f)
      /\ r.foreignObjectAt \in Nat /\ r.foreignObjectAt <= Len(f)
  BY DEF Rewriters, Marked
<1>3. pos \in [DOMAIN f -> 1 .. n] /\ \A k \in DOMAIN f : pos[k] \in 1 .. n
  BY <1>1
<1>4. pos \in [DOMAIN f -> DOMAIN u]
  <2> HIDE DEF u, n, f
  <2>1. \A k \in DOMAIN f : pos[k] \in 1 .. n + 1
    BY <1>1, <1>3
  <2> QED
    BY <1>1, <1>3, <2>1
<1>4a. s.foreignObjectAt > 0 =>
         \/ /\ p1 = p /\ s.foreignObjectAt = r.foreignObjectAt
            /\ s.mathTextPoint = r.mathTextPoint
            /\ p = n => Root(e) \/ ~Foreign(e)
         \/ p1 = n + 1 /\ Point(e) /\ s.foreignObjectAt = Len(f) /\ (TextPoint(e) => s.mathTextPoint)
  OBVIOUS
<1>4b. s.rawText =>
         \/ q1 = q /\ r.rawText /\ (s.foreignObjectAt > 0 => p1 = p /\ r.foreignObjectAt > 0)
         \/ q1 = n + 1 /\ e.tag = "title"
  OBVIOUS
<1>4c. /\ r.foreignObjectAt > 0 =>
            /\ p \in 1 .. n /\ Point(o[p])
            /\ \A k \in DOMAIN f : k <= r.foreignObjectAt <=> pos[k] < p
            /\ TextPoint(o[p]) => r.mathTextPoint
            /\ p < n => Root(o[p + 1]) \/ ~Foreign(o[p + 1])
       /\ r.rawText =>
            /\ q \in 1 .. n /\ o[q].tag = "title"
            /\ \A k \in DOMAIN f : pos[k] < q
            /\ r.foreignObjectAt > 0 => p <= q
  BY <1>1 DEF Held
<1>5. \A k \in DOMAIN f : Root(u[pos[k]]) /\ f[k].name = u[pos[k]].tag
  BY <1>1, <1>3 DEF Held
<1> HIDE DEF u, f, n
<1>6. ASSUME s.foreignObjectAt > 0
      PROVE  /\ p1 \in DOMAIN u /\ Point(u[p1])
             /\ \A k \in DOMAIN f : k <= s.foreignObjectAt <=> pos[k] < p1
             /\ TextPoint(u[p1]) => s.mathTextPoint
             /\ p1 < Len(u) => Root(u[p1 + 1]) \/ ~Foreign(u[p1 + 1])
             /\ p1 <= n + 1
  <2>1. CASE /\ p1 = p /\ s.foreignObjectAt = r.foreignObjectAt
             /\ s.mathTextPoint = r.mathTextPoint
             /\ p = n => Root(e) \/ ~Foreign(e)
    <3>1. p \in 1 .. n /\ u[p] = o[p]
      BY <1>1, <1>4c, <1>6, <2>1
    <3>2. p < n => Root(u[p + 1]) \/ ~Foreign(u[p + 1])
      <4>1. p < n => p + 1 \in 1 .. n
        BY <1>1, <3>1
      <4> QED
        BY <1>1, <1>4c, <1>6, <2>1, <4>1
    <3>3. p = n => Root(u[p + 1]) \/ ~Foreign(u[p + 1])
      BY <1>1, <2>1
    <3>4. p < n \/ p = n
      BY <1>1, <3>1
    <3> QED
      BY <1>1, <1>4c, <1>6, <2>1, <3>1, <3>2, <3>3, <3>4
  <2>2. CASE p1 = n + 1 /\ Point(e) /\ s.foreignObjectAt = Len(f) /\ (TextPoint(e) => s.mathTextPoint)
    <3>1. \A k \in DOMAIN f : k <= s.foreignObjectAt /\ pos[k] < p1
      BY <1>1, <1>2, <1>3, <2>2
    <3>2. p1 \in DOMAIN u /\ u[p1] = e /\ p1 = Len(u) /\ p1 <= n + 1
      BY <1>1, <2>2
    <3> QED
      BY <1>1, <2>2, <3>1, <3>2
  <2> QED
    BY <1>4a, <1>6, <2>1, <2>2
<1>7. ASSUME s.rawText
      PROVE  /\ q1 \in DOMAIN u /\ u[q1].tag = "title"
             /\ \A k \in DOMAIN f : pos[k] < q1
             /\ s.foreignObjectAt > 0 => p1 <= q1
  <2>1. CASE q1 = q /\ r.rawText /\ (s.foreignObjectAt > 0 => p1 = p /\ r.foreignObjectAt > 0)
    <3>1. q \in 1 .. n /\ u[q] = o[q] /\ q \in DOMAIN u
      BY <1>1, <1>4c, <2>1
    <3> QED
      BY <1>4c, <2>1, <3>1
  <2>2. CASE q1 = n + 1 /\ e.tag = "title"
    <3>1. \A k \in DOMAIN f : pos[k] < q1
      BY <1>1, <1>3, <2>2
    <3>2. q1 \in DOMAIN u /\ u[q1] = e
      BY <1>1, <2>2
    <3> QED
      BY <1>6, <2>2, <3>1, <3>2
  <2> QED
    BY <1>4b, <1>7, <2>1, <2>2
<1>8. Held(u, s, pos, p1, q1)
  BY <1>5, <1>6, <1>7 DEF Held, f
<1> QED
  BY <1>4, <1>8 DEF u, f

LEMMA PushFull ==
    ASSUME NEW o \in Seq(Elements), NEW e, NEW r \in Rewriters, NEW s,
           NEW pos \in [DOMAIN r.foreignNS -> DOMAIN o], Full(o, r, pos),
           s.foreignNS = r.foreignNS, Root(e) => \E i \in DOMAIN o : o[i].tag = "title"
    PROVE  Full(Append(o, e), s, pos)
<1> DEFINE u == Append(o, e)
           f == r.foreignNS
           n == Len(o)
<1>1. /\ n \in Nat /\ DOMAIN o = 1 .. n /\ DOMAIN u = 1 .. n + 1
      /\ u[n + 1] = e /\ (Seen(u, n + 1) <=> \A i \in DOMAIN o : o[i].tag # "title")
      /\ \A i \in 1 .. n : /\ u[i] = o[i] /\ (Seen(u, i) <=> Seen(o, i))
                           /\ (Mixes(u, i) <=> Mixes(o, i))
  BY PushSame
<1> HIDE DEF u
<1>2. \A i \in DOMAIN u : Root(u[i]) /\ Seen(u, i) => \E k \in DOMAIN f : pos[k] = i
  BY <1>1 DEF Full
<1>3. ASSUME NEW k \in DOMAIN f, \A j \in 1 .. pos[k] : ~Mixes(u, j)
      PROVE  f[k].ns = u[pos[k]].ns
  <2>1. pos[k] \in 1 .. n
    BY <1>1
  <2>2. \A j \in 1 .. pos[k] : ~Mixes(o, j)
    BY <1>1, <1>3, <2>1
  <2> QED
    BY <1>1, <2>1, <2>2 DEF Full
<1>4. Full(u, s, pos)
  BY <1>2, <1>3 DEF Full
<1> QED
  BY <1>4 DEF u

LEMMA PushClear ==
    ASSUME NEW o \in Seq(Elements), NEW e, NEW r, NEW s, Clear(o, r),
           r.foreignObjectAt > 0 => s.foreignObjectAt > 0,
           \/ \E i \in DOMAIN o : o[i].tag = "title"
           \/ /\ NameOf(e.tag) \in Placed => \A i \in DOMAIN o : ~Point(o[i])
              /\ Point(e) => s.foreignObjectAt > 0
    PROVE  Clear(Append(o, e), s)
<1> DEFINE u == Append(o, e)
           n == Len(o)
<1>1. /\ n \in Nat /\ DOMAIN o = 1 .. n /\ DOMAIN u = 1 .. n + 1
      /\ u[n + 1] = e /\ (Seen(u, n + 1) <=> \A i \in DOMAIN o : o[i].tag # "title")
      /\ \A i \in 1 .. n : u[i] = o[i] /\ (Seen(u, i) <=> Seen(o, i))
  BY PushSame
<1> HIDE DEF u
<1>2. ASSUME NEW i \in DOMAIN u, NameOf(u[i].tag) \in Placed, Seen(u, i), NEW j \in 1 .. i - 1
      PROVE  ~Point(u[j])
  <2>1. CASE i \in 1 .. n
    <3>1. j \in 1 .. n
      BY <1>1, <2>1
    <3> QED
      BY <1>1, <1>2, <2>1, <3>1 DEF Clear
  <2>2. CASE i = n + 1
    BY <1>1, <1>2, <2>2
  <2> QED
    BY <1>1, <2>1, <2>2
<1>3. ASSUME NEW i \in DOMAIN u, Point(u[i]), Seen(u, i) PROVE s.foreignObjectAt > 0
  <2>1. CASE i \in 1 .. n
    BY <1>1, <1>3, <2>1 DEF Clear
  <2>2. CASE i = n + 1
    BY <1>1, <1>3, <2>2
  <2> QED
    BY <1>1, <2>1, <2>2
<1>4. Clear(u, s)
  BY <1>2, <1>3 DEF Clear
<1> QED
  BY <1>4 DEF u

Longer(pos, n, i) == [k \in 1 .. n + 1 |-> IF k = n + 1 THEN i ELSE pos[k]]

\* A root on both stacks.
LEMMA PushRoot ==
    ASSUME NEW o \in Seq(Elements), NEW e, Root(e), NEW r \in Rewriters, Marked(r), NEW s,
           NEW pos \in [DOMAIN r.foreignNS -> DOMAIN o], NEW p \in Nat, NEW q \in Nat,
           Held(o, r, pos, p, q),
           NEW x, s.foreignNS = Append(r.foreignNS, [name |-> e.tag, ns |-> x]),
           s.foreignObjectAt = r.foreignObjectAt, s.mathTextPoint = r.mathTextPoint, ~s.rawText,
           NEW at, at = Longer(pos, Len(r.foreignNS), Len(o) + 1)
    PROVE  /\ at \in [DOMAIN s.foreignNS -> DOMAIN Append(o, e)]
           /\ Held(Append(o, e), s, at, p, q)
           /\ Full(o, r, pos) /\ ((\A j \in 1 .. Len(o) + 1 : ~Mixes(Append(o, e), j)) => x = e.ns) =>
                Full(Append(o, e), s, at)
<1> DEFINE u == Append(o, e)
           f == r.foreignNS
           v == [name |-> e.tag, ns |-> x]
           g == s.foreignNS
           n == Len(o)
           m == Len(f)
<1>1. /\ n \in Nat /\ DOMAIN o = 1 .. n /\ DOMAIN u = 1 .. n + 1 /\ Len(u) = n + 1
      /\ u[n + 1] = e
      /\ \A i \in 1 .. n : /\ u[i] = o[i] /\ (Seen(u, i) <=> Seen(o, i))
                           /\ (Mixes(u, i) <=> Mixes(o, i))
  BY PushSame
<1>2. /\ m \in Nat /\ DOMAIN f = 1 .. m /\ DOMAIN g = 1 .. m + 1
      /\ g[m + 1] = v /\ \A k \in 1 .. m : g[k] = f[k]
      /\ r.foreignObjectAt \in Nat /\ r.foreignObjectAt <= m
  BY DEF Rewriters, Marked
<1>3. v.name = e.tag /\ v.ns = x
  OBVIOUS
<1> HIDE DEF u, g, v
<1>4. \A k \in 1 .. m : pos[k] \in 1 .. n
  BY <1>1, <1>2
<1> HIDE DEF m, n, f
<1>5. at[m + 1] = n + 1 /\ (\A k \in 1 .. m : at[k] = pos[k]) /\ at \in [1 .. m + 1 -> 1 .. n + 1]
  <2>0. at = [k \in 1 .. m + 1 |-> IF k = m + 1 THEN n + 1 ELSE pos[k]]
    BY DEF Longer, m, n, f
  <2>1. at[m + 1] = n + 1
    BY <1>2, <2>0
  <2>2. \A k \in 1 .. m : at[k] = pos[k]
    BY <1>2, <2>0
  <2>3. \A k \in 1 .. m + 1 : k = m + 1 \/ k \in 1 .. m
    BY <1>2
  <2>4. \A k \in 1 .. m + 1 : (IF k = m + 1 THEN n + 1 ELSE pos[k]) \in 1 .. n + 1
    BY <1>1, <1>4, <2>3
  <2> QED
    BY <2>0, <2>1, <2>2, <2>4
<1>6. \A k \in DOMAIN g : k = m + 1 \/ k \in 1 .. m
  BY <1>2
<1>7. \A a, b \in DOMAIN g : a < b => at[a] < at[b]
  <2> SUFFICES ASSUME NEW a \in DOMAIN g, NEW b \in DOMAIN g, a < b PROVE at[a] < at[b]
    OBVIOUS
  <2>1. a \in 1 .. m
    BY <1>2
  <2>2. CASE b \in 1 .. m
    BY <1>2, <1>5, <2>1, <2>2 DEF Held, f
  <2>3. CASE b = m + 1
    BY <1>1, <1>4, <1>5, <2>1, <2>3
  <2> QED
    BY <1>6, <2>2, <2>3
<1>8. \A k \in DOMAIN g : Root(u[at[k]]) /\ g[k].name = u[at[k]].tag
  <2> SUFFICES ASSUME NEW k \in DOMAIN g PROVE Root(u[at[k]]) /\ g[k].name = u[at[k]].tag
    OBVIOUS
  <2>1. CASE k \in 1 .. m
    <3>1. Root(o[pos[k]]) /\ f[k].name = o[pos[k]].tag
      BY <1>2, <2>1 DEF Held, f
    <3>2. at[k] = pos[k] /\ pos[k] \in 1 .. n /\ g[k] = f[k]
      BY <1>2, <1>4, <1>5, <2>1
    <3>3. u[at[k]] = o[pos[k]]
      BY <1>1, <3>2
    <3> QED
      BY <3>1, <3>2, <3>3
  <2>2. CASE k = m + 1
    BY <1>1, <1>2, <1>3, <1>5, <2>2
  <2> QED
    BY <1>6, <2>1, <2>2
<1>9. s.foreignObjectAt > 0 =>
        /\ p \in DOMAIN u /\ Point(u[p])
        /\ \A k \in DOMAIN g : k <= s.foreignObjectAt <=> at[k] < p
        /\ TextPoint(u[p]) => s.mathTextPoint
        /\ p < Len(u) => Root(u[p + 1]) \/ ~Foreign(u[p + 1])
  <2> SUFFICES ASSUME r.foreignObjectAt > 0
               PROVE  /\ p \in DOMAIN u /\ Point(u[p])
                      /\ \A k \in DOMAIN g : k <= r.foreignObjectAt <=> at[k] < p
                      /\ TextPoint(u[p]) => r.mathTextPoint
                      /\ p < Len(u) => Root(u[p + 1]) \/ ~Foreign(u[p + 1])
    OBVIOUS
  <2>1. /\ p \in 1 .. n /\ Point(o[p])
        /\ \A k \in 1 .. m : k <= r.foreignObjectAt <=> pos[k] < p
        /\ TextPoint(o[p]) => r.mathTextPoint
        /\ p < n => Root(o[p + 1]) \/ ~Foreign(o[p + 1])
    BY <1>1, <1>2 DEF Held, f, n
  <2>2. u[p] = o[p] /\ (p < n => u[p + 1] = o[p + 1]) /\ (p = n => u[p + 1] = e)
    <3>1. p < n => p + 1 \in 1 .. n
      BY <1>1, <2>1
    <3> QED
      BY <1>1, <2>1, <3>1
  <2>3. \A k \in DOMAIN g : k <= r.foreignObjectAt <=> at[k] < p
    <3> SUFFICES ASSUME NEW k \in DOMAIN g PROVE k <= r.foreignObjectAt <=> at[k] < p
      OBVIOUS
    <3>1. CASE k \in 1 .. m
      BY <1>5, <2>1, <3>1
    <3>2. CASE k = m + 1
      BY <1>1, <1>2, <1>5, <2>1, <3>2
    <3> QED
      BY <1>6, <3>1, <3>2
  <2> QED
    BY <1>1, <2>1, <2>2, <2>3
<1>10. at \in [DOMAIN g -> DOMAIN u]
  BY <1>1, <1>2, <1>5
<1>11. Held(u, s, at, p, q)
  BY <1>7, <1>8, <1>9 DEF Held, g
<1>12. ASSUME Full(o, r, pos), (\A j \in 1 .. n + 1 : ~Mixes(u, j)) => x = e.ns
       PROVE  Full(u, s, at)
  <2>1. ASSUME NEW i \in DOMAIN u, Root(u[i]), Seen(u, i) PROVE \E k \in DOMAIN g : at[k] = i
    <3>1. CASE i \in 1 .. n
      <4>1. PICK k \in 1 .. m : pos[k] = i
        BY <1>1, <1>2, <1>12, <2>1, <3>1 DEF Full, f
      <4>2. k \in DOMAIN g
        BY <1>2
      <4>3. at[k] = pos[k]
        BY <1>5
      <4> QED
        BY <4>1, <4>2, <4>3
    <3>2. CASE i = n + 1
      <4>1. at[m + 1] = i
        BY <1>5, <3>2
      <4>2. m + 1 \in DOMAIN g
        BY <1>2
      <4> QED
        BY <4>1, <4>2
    <3> QED
      BY <1>1, <2>1, <3>1, <3>2
  <2>2. ASSUME NEW k \in DOMAIN g, \A j \in 1 .. at[k] : ~Mixes(u, j)
        PROVE  g[k].ns = u[at[k]].ns
    <3>1. CASE k \in 1 .. m
      <4>1. at[k] = pos[k] /\ pos[k] \in 1 .. n /\ g[k] = f[k] /\ k \in DOMAIN f
        BY <1>2, <1>4, <1>5, <3>1
      <4>2. \A j \in 1 .. pos[k] : ~Mixes(o, j)
        BY <1>1, <2>2, <4>1
      <4> QED
        BY <1>1, <1>12, <4>1, <4>2 DEF Full, f
    <3>2. CASE k = m + 1
      BY <1>1, <1>2, <1>3, <1>5, <1>12, <2>2, <3>2
    <3> QED
      BY <1>6, <3>1, <3>2
  <2> QED
    BY <2>1, <2>2 DEF Full, g
<1> QED
  BY <1>10, <1>11, <1>12 DEF u, g, n

-----------------------------------------------------------------------------
(* Titles: text to the tokenizer, and in svg an element to the browser. *)

LEMMA UnseenFinite ==
    ASSUME NEW o \in Seq(Elements)
    PROVE  IsFiniteSet(Unseen(o)) /\ Cardinality(Unseen(o)) \in Nat
<1>1. IsFiniteSet(1 .. Len(o))
  BY FS_Interval
<1>2. Unseen(o) \subseteq 1 .. Len(o)
  BY DEF Unseen
<1> QED
  BY <1>1, <1>2, FS_Subset, FS_CardinalityType

LEMMA NoneUnseen ==
    ASSUME NEW o, \A i \in DOMAIN o : Root(o[i]) => Seen(o, i)
    PROVE  Cardinality(Unseen(o)) = 0
<1>1. Unseen(o) = {}
  BY DEF Unseen
<1> QED
  BY <1>1, FS_EmptySet

\* What is opened adds at most itself, what is closed takes at least itself.
LEMMA PushTitles ==
    ASSUME NEW o \in Seq(Elements), NEW e \in Elements, e.tag # "title",
           NEW r \in Rewriters, NEW s \in Rewriters, Titles(o, r), s.rawText = r.rawText,
           s.swallowed.depth >= r.swallowed.depth,
           Root(e) /\ r.rawText => s.swallowed.depth >= r.swallowed.depth + 1
    PROVE  Titles(Append(o, e), s)
<1> DEFINE u == Append(o, e)
           n == Len(o)
<1>1. /\ n \in Nat /\ DOMAIN o = 1 .. n /\ DOMAIN u = 1 .. n + 1 /\ u \in Seq(Elements)
      /\ u[n + 1] = e /\ \A i \in 1 .. n : u[i] = o[i] /\ (Seen(u, i) <=> Seen(o, i))
  BY PushSame
<1> HIDE DEF u, n
<1>2. (\E i \in DOMAIN u : u[i].tag = "title") <=> \E i \in DOMAIN o : o[i].tag = "title"
  BY <1>1
<1>3. \A i, j \in DOMAIN u : u[i].tag = "title" /\ u[j].tag = "title" => i = j
  BY <1>1 DEF Titles
<1>4. ASSUME r.rawText PROVE s.swallowed.depth >= Cardinality(Unseen(u))
  <2>1. /\ Cardinality(Unseen(o)) \in Nat /\ Cardinality(Unseen(u)) \in Nat
        /\ IsFiniteSet(Unseen(o))
        /\ r.swallowed.depth \in Int /\ s.swallowed.depth \in Int
        /\ r.swallowed.depth >= Cardinality(Unseen(o))
    BY <1>1, <1>4, UnseenFinite DEF Rewriters, Titles
  <2>2. CASE ~Root(e)
    <3>1. Unseen(u) = Unseen(o)
      BY <1>1, <2>2 DEF Unseen
    <3> QED
      BY <2>1, <3>1
  <2>3. CASE Root(e)
    <3>1. Unseen(u) \subseteq Unseen(o) \cup {n + 1} /\ n + 1 \notin Unseen(o)
      BY <1>1 DEF Unseen
    <3>2. /\ Cardinality(Unseen(o) \cup {n + 1}) = Cardinality(Unseen(o)) + 1
          /\ IsFiniteSet(Unseen(o) \cup {n + 1})
      BY <2>1, <3>1, FS_AddElement
    <3>3. Cardinality(Unseen(u)) <= Cardinality(Unseen(o)) + 1
      BY <3>1, <3>2, FS_Subset
    <3>4. s.swallowed.depth >= r.swallowed.depth + 1
      BY <1>4, <2>3
    <3> QED
      BY <2>1, <3>3, <3>4
  <2> QED
    BY <2>2, <2>3
<1>5. Titles(u, s)
  BY <1>2, <1>3, <1>4 DEF Titles
<1> QED
  BY <1>5 DEF u

LEMMA CutTitles ==
    ASSUME NEW o \in Seq(Elements), NEW c \in 0 .. Len(o),
           NEW r \in Rewriters, NEW s \in Rewriters, Titles(o, r), s.rawText = r.rawText,
           r.rawText => \E i \in 1 .. c : o[i].tag = "title",
           \/ s.swallowed.depth >= r.swallowed.depth
           \/ /\ s.swallowed.depth >= r.swallowed.depth - 1
              /\ \E b \in c + 1 .. Len(o) : b \in Unseen(o)
    PROVE  Titles(SubSeq(o, 1, c), s)
<1> DEFINE u == SubSeq(o, 1, c)
           n == Len(o)
<1>1. /\ n \in Nat /\ DOMAIN o = 1 .. n /\ DOMAIN u = 1 .. c /\ u \in Seq(Elements)
      /\ \A i \in 1 .. c : u[i] = o[i] /\ (Seen(u, i) <=> Seen(o, i)) /\ i \in DOMAIN o
  BY CutSame
<1>0. \/ s.swallowed.depth >= r.swallowed.depth
      \/ /\ s.swallowed.depth >= r.swallowed.depth - 1
         /\ \E b \in c + 1 .. n : b \in Unseen(o)
  OBVIOUS
<1> HIDE DEF u, n
<1>2. s.rawText <=> \E i \in DOMAIN u : u[i].tag = "title"
  BY <1>1 DEF Titles
<1>3. \A i, j \in DOMAIN u : u[i].tag = "title" /\ u[j].tag = "title" => i = j
  BY <1>1 DEF Titles
<1>4. ASSUME r.rawText PROVE s.swallowed.depth >= Cardinality(Unseen(u))
  <2>1. /\ Cardinality(Unseen(o)) \in Nat /\ Cardinality(Unseen(u)) \in Nat
        /\ IsFiniteSet(Unseen(o))
        /\ r.swallowed.depth \in Int /\ s.swallowed.depth \in Int
        /\ r.swallowed.depth >= Cardinality(Unseen(o))
    BY <1>1, <1>4, UnseenFinite DEF Rewriters, Titles
  <2>2. Unseen(u) \subseteq Unseen(o)
    BY <1>1 DEF Unseen
  <2>3. Cardinality(Unseen(u)) <= Cardinality(Unseen(o))
    BY <2>1, <2>2, FS_Subset
  <2>4. CASE s.swallowed.depth >= r.swallowed.depth
    BY <2>1, <2>3, <2>4
  <2>5. ASSUME s.swallowed.depth >= r.swallowed.depth - 1, NEW b \in c + 1 .. n, b \in Unseen(o)
        PROVE  s.swallowed.depth >= Cardinality(Unseen(u))
    <3>1. Unseen(u) \subseteq Unseen(o) \ {b}
      BY <1>1, <2>2, <2>5 DEF Unseen
    <3>2. /\ Cardinality(Unseen(o) \ {b}) = Cardinality(Unseen(o)) - 1
          /\ IsFiniteSet(Unseen(o) \ {b})
      BY <2>1, <2>5, FS_RemoveElement
    <3>3. Cardinality(Unseen(u)) <= Cardinality(Unseen(o)) - 1
      BY <3>1, <3>2, FS_Subset
    <3> QED
      BY <2>1, <2>5, <3>3
  <2> QED
    BY <1>0, <2>4, <2>5
<1>5. Titles(u, s)
  BY <1>2, <1>3, <1>4 DEF Titles
<1> QED
  BY <1>5 DEF u

-----------------------------------------------------------------------------
(* What the browser does with a tag in place. *)

LEMMA BelowCut ==
    ASSUME NEW S, NEW o \in Seq(S), NEW k \in 1 .. Len(o)
    PROVE  /\ Below(SubSeq(o, 1, k)) = SubSeq(o, 1, k - 1)
           /\ SubSeq(o, 1, k) # <<>> /\ Last(SubSeq(o, 1, k)) = o[k]
<1>1. /\ Len(SubSeq(o, 1, k)) = k /\ SubSeq(o, 1, k) \in Seq(S)
      /\ SubSeq(o, 1, k)[k] = o[k] /\ Len(o) \in Nat
  OBVIOUS
<1>2. Below(SubSeq(o, 1, k)) = SubSeq(o, 1, k - 1)
  BY <1>1 DEF Below
<1>3. SubSeq(o, 1, k) # <<>>
  BY <1>1
<1>4. Last(SubSeq(o, 1, k)) = o[k]
  BY <1>1 DEF Last
<1> QED
  BY <1>2, <1>3, <1>4

LEMMA Latest ==
    ASSUME NEW n \in Nat, NEW T \in SUBSET (1 .. n), T # {},
           NEW k, k = CHOOSE i \in T : \A j \in T : j <= i
    PROVE  k \in T /\ \A j \in T : j <= k
BY LastPosition

LEMMA CurrentIsLast ==
    ASSUME NEW o \in Seq(Elements)
    PROVE  /\ o = <<>> => Current(o) = Element("g", "html")
           /\ o # <<>> => Current(o) = o[Len(o)]
BY DEF Current, Last

\* An element that is the innermost of its name is what its end tag closes.
LEMMA ClosesTop ==
    ASSUME NEW o \in Seq(Elements), o # <<>>, NEW name, NameOf(o[Len(o)].tag) = name
    PROVE  CloseTag(o, name) = SubSeq(o, 1, Len(o) - 1)
<1> DEFINE n == Len(o)
           e == o[n]
           A == {i \in DOMAIN o : Special(o[i]) \/ (o[i].ns = "html" /\ NameOf(o[i].tag) = name)}
           B == {i \in DOMAIN o : o[i].ns = "html" \/ NameOf(o[i].tag) = name}
           a == CHOOSE i \in A : \A j \in A : j <= i
           b == CHOOSE i \in B : \A j \in B : j <= i
<1>1. n \in Nat /\ n \in 1 .. n /\ DOMAIN o = 1 .. n /\ Current(o) = e
  BY CurrentIsLast
<1>2. UpTo(o, LAMBDA x : Special(x) \/ (x.ns = "html" /\ NameOf(x.tag) = name)) =
        IF A = {} THEN <<>> ELSE SubSeq(o, 1, a)
  BY DEF UpTo
<1>3. UpTo(o, LAMBDA x : x.ns = "html" \/ NameOf(x.tag) = name) =
        IF B = {} THEN <<>> ELSE SubSeq(o, 1, b)
  BY DEF UpTo
<1>4. /\ Below(SubSeq(o, 1, n)) = SubSeq(o, 1, n - 1)
      /\ SubSeq(o, 1, n) # <<>> /\ Last(SubSeq(o, 1, n)) = e
  BY <1>1, BelowCut
<1>5. CASE e.ns = "html"
  <2>1. A # {} /\ n \in A /\ A \subseteq 1 .. n
    BY <1>1, <1>5
  <2> HIDE DEF A
  <2>2. a \in A /\ \A j \in A : j <= a
    BY <1>1, <2>1, Latest
  <2> HIDE DEF a
  <2>3. a = n
    <3>1. a \in 1 .. n
      BY <2>1, <2>2
    <3>2. n <= a
      BY <2>1, <2>2
    <3> HIDE DEF n
    <3> QED
      BY <1>1, <3>1, <3>2
  <2>4. CloseInBody(o, name) = SubSeq(o, 1, n - 1)
    BY <1>2, <1>4, <1>5, <2>1, <2>3 DEF CloseInBody
  <2> QED
    BY <1>1, <1>5, <2>4 DEF CloseTag
<1>6. CASE e.ns # "html"
  <2>1. B # {} /\ n \in B /\ B \subseteq 1 .. n
    BY <1>1
  <2> HIDE DEF B
  <2>2. b \in B /\ \A j \in B : j <= b
    BY <1>1, <2>1, Latest
  <2> HIDE DEF b
  <2>3. b = n
    <3>1. b \in 1 .. n
      BY <2>1, <2>2
    <3>2. n <= b
      BY <2>1, <2>2
    <3> HIDE DEF n
    <3> QED
      BY <1>1, <3>1, <3>2
  <2> QED
    BY <1>1, <1>3, <1>4, <1>6, <2>1, <2>3 DEF CloseTag
<1> QED
  BY <1>5, <1>6

\* The end tag of a vocabulary closes through its innermost root, if only its
\* elements are above that.
LEMMA ClosesRoot ==
    ASSUME NEW o \in Seq(Elements), NEW name \in {"svg", "math"},
           NEW i \in DOMAIN o, o[i].tag = name, \A j \in i .. Len(o) : Foreign(o[j])
    PROVE  \E b \in DOMAIN o :
             /\ o[b].tag = name
             /\ \A j \in b + 1 .. Len(o) : o[j].tag # name
             /\ CloseTag(o, name) = SubSeq(o, 1, b - 1)
<1> DEFINE n == Len(o)
           B == {k \in DOMAIN o : o[k].ns = "html" \/ NameOf(o[k].tag) = name}
           b == CHOOSE k \in B : \A j \in B : j <= k
<1>1. /\ n \in Nat /\ n \in 1 .. n /\ DOMAIN o = 1 .. n /\ i \in 1 .. n
      /\ Current(o) = o[n] /\ o[n].ns # "html"
  BY CurrentIsLast DEF Foreign
<1>2. UpTo(o, LAMBDA x : x.ns = "html" \/ NameOf(x.tag) = name) =
        IF B = {} THEN <<>> ELSE SubSeq(o, 1, b)
  BY DEF UpTo
<1>3. B # {} /\ i \in B /\ B \subseteq 1 .. n
  BY <1>1 DEF NameOf
<1> HIDE DEF B
<1>4. b \in B /\ \A j \in B : j <= b
  BY <1>1, <1>3, Latest
<1> HIDE DEF b
<1>5. b \in i .. n
  BY <1>1, <1>3, <1>4
<1>6. o[b].tag = name /\ o[b].ns # "html"
  BY <1>4, <1>5 DEF B, Foreign, NameOf
<1>7. \A j \in b + 1 .. n : o[j].tag # name
  <2> SUFFICES ASSUME NEW j \in b + 1 .. n, o[j].tag = name PROVE FALSE
    OBVIOUS
  <2>1. j \in B
    BY <1>1, <1>5 DEF B, NameOf
  <2> QED
    BY <1>1, <1>4, <1>5, <2>1
<1>8. CloseTag(o, name) = SubSeq(o, 1, b - 1)
  <2>1. /\ Below(SubSeq(o, 1, b)) = SubSeq(o, 1, b - 1)
        /\ SubSeq(o, 1, b) # <<>> /\ Last(SubSeq(o, 1, b)) = o[b]
    BY <1>1, <1>5, BelowCut
  <2> QED
    BY <1>1, <1>2, <1>3, <1>6, <2>1 DEF CloseTag
<1>9. b \in DOMAIN o
  BY <1>1, <1>5
<1> QED
  BY <1>6, <1>7, <1>8, <1>9

Space(tag) ==
  IF ForeignRules(open, tag) THEN Current(open).ns
  ELSE IF tag \in {"svg", "math"} THEN tag ELSE "html"

LEMMA RulesAt ==
    ASSUME NEW o \in Seq(Elements), NEW tag
    PROVE  /\ ForeignRules(o, tag) <=>
                /\ o # <<>> /\ Foreign(o[Len(o)])
                /\ TextPoint(o[Len(o)]) => tag = "mglyph"
                /\ ~HtmlPoint(o[Len(o)])
                /\ ~(o[Len(o)].ns = "math" /\ NameOf(o[Len(o)].tag) = "annotation-xml" /\ tag = "svg")
           /\ ForeignRules(o, tag) => Current(o) = o[Len(o)]
<1>1. Element("g", "html").ns = "html"
  BY DEF Element
<1> QED
  BY <1>1, CurrentIsLast DEF ForeignRules, Foreign

\* One element more, unless it closed itself.
LEMMA Opens ==
    ASSUME open \in Seq(Elements), NEW tag \in Tags, tag \notin BreaksOut, InPlace(tag),
           NEW closed \in BOOLEAN, tag = "title" => ForeignRules(open, tag)
    PROVE  /\ OpenTag(open, tag, closed) =
                IF closed /\ (ForeignRules(open, tag) \/ tag \in {"svg", "math"}) THEN open
                ELSE Append(open, Element(tag, Space(tag)))
           /\ Element(tag, Space(tag)) \in Elements
           /\ Element(tag, Space(tag)).tag = tag /\ Element(tag, Space(tag)).ns = Space(tag)
           /\ Fits(open, Element(tag, Space(tag)))
<1> DEFINE n == Len(open)
           e == Element(tag, Space(tag))
<1>1. n \in Nat /\ DOMAIN open = 1 .. n /\ (open # <<>> <=> n # 0) /\ (n # 0 => open[n] \in Elements)
  OBVIOUS
<1>2. e.tag = tag /\ e.ns = Space(tag)
  BY DEF Element
<1>3. Space(tag) \in {"html", "svg", "math"}
  BY <1>1, RulesAt DEF Space, Elements
<1>4. e \in Elements
  BY <1>3 DEF Element, Elements
<1>5. OpenTag(open, tag, closed) =
        IF closed /\ (ForeignRules(open, tag) \/ tag \in {"svg", "math"}) THEN open ELSE Append(open, e)
  <2>1. CASE ForeignRules(open, tag)
    BY <2>1 DEF OpenTag, Space
  <2>2. CASE ~ForeignRules(open, tag)
    BY <2>2 DEF OpenTag, OpenInBody, Space, BreaksOut
  <2> QED
    BY <2>1, <2>2
<1> HIDE DEF e
<1>6. Root(e) => Foreign(e)
  BY <1>2, RulesAt DEF Space, Root, Foreign
<1>7. Foreign(e) /\ ~Root(e) =>
       /\ open # <<>> /\ Foreign(open[n]) /\ open[n].ns = e.ns /\ ~HtmlPoint(open[n])
       /\ TextPoint(open[n]) => e.tag = "mglyph"
  <2>1. Foreign(e) /\ ~Root(e) => ForeignRules(open, tag)
    BY <1>2 DEF Space, Root, Foreign
  <2> QED
    BY <1>2, <2>1, RulesAt DEF Space
<1>8. ~Foreign(e) => open = <<>> \/ ~Foreign(open[n]) \/ Point(open[n])
  <2>1. ~Foreign(e) => ~ForeignRules(open, tag) /\ tag # "svg"
    BY <1>2, RulesAt DEF Space, Foreign
  <2> QED
    BY <2>1, RulesAt DEF Point
<1>9. /\ tag \in {"desc", "title"} => e.ns = "svg"
      /\ tag \in {"mi", "annotation-xml", "annotation-html"} => e.ns = "math"
  <2>1. tag = "title" => ~ \A i \in DOMAIN open : open[i].ns = "html"
    BY <1>1, RulesAt DEF Foreign
  <2> QED
    BY <1>2, <2>1 DEF InPlace, Space
<1>10. Fits(open, e)
  BY <1>2, <1>6, <1>7, <1>8, <1>9 DEF Fits
<1> QED
  BY <1>2, <1>4, <1>5, <1>10 DEF e

\* Everything above the last of HTML and the points is closed.
LEMMA Breaks ==
    ASSUME NEW o \in Seq(Elements), NEW tag \in BreaksOut, NEW closed \in BOOLEAN
    PROVE  \E c \in 0 .. Len(o) :
             /\ c > 0 => ~Foreign(o[c]) \/ Point(o[c])
             /\ \A i \in c + 1 .. Len(o) : Foreign(o[i]) /\ ~Point(o[i])
             /\ OpenTag(o, tag, closed) \in
                  {SubSeq(o, 1, c), Append(SubSeq(o, 1, c), Element("div", "html"))}
<1> DEFINE n == Len(o)
<1>1. n \in Nat /\ DOMAIN o = 1 .. n /\ (o # <<>> <=> n # 0) /\ o = SubSeq(o, 1, n)
  OBVIOUS
<1>2. \A u : OpenInBody(u, tag, closed) \in {u, Append(u, Element("div", "html"))}
  BY DEF OpenInBody, BreaksOut
<1>3. CASE ~ForeignRules(o, tag)
  <2>1. OpenTag(o, tag, closed) \in {o, Append(o, Element("div", "html"))}
    BY <1>2, <1>3 DEF OpenTag
  <2>2. n > 0 => ~Foreign(o[n]) \/ Point(o[n])
    BY <1>1, <1>3, RulesAt DEF Point, BreaksOut
  <2> QED
    BY <1>1, <2>1, <2>2
<1>4. CASE ForeignRules(o, tag)
  <2> DEFINE T == {i \in DOMAIN o : o[i].ns = "html" \/ Point(o[i])}
             k == CHOOSE i \in T : \A j \in T : j <= i
             u == IF T = {} THEN <<>> ELSE SubSeq(o, 1, k)
  <2>1. UpTo(o, LAMBDA x : x.ns = "html" \/ Point(x)) = u
    BY DEF UpTo
  <2>2. OpenTag(o, tag, closed) = OpenInBody(u, tag, closed)
    BY <1>4, <2>1 DEF OpenTag
  <2>3. T \subseteq 1 .. n
    BY <1>1
  <2> HIDE DEF u
  <2>4. CASE T = {}
    <3>1. u = SubSeq(o, 1, 0)
      BY <2>4 DEF u
    <3>2. \A i \in 0 + 1 .. n : Foreign(o[i]) /\ ~Point(o[i])
      BY <1>1, <2>4 DEF Foreign
    <3>3. OpenTag(o, tag, closed) \in {SubSeq(o, 1, 0), Append(SubSeq(o, 1, 0), Element("div", "html"))}
      BY <1>2, <2>2, <3>1
    <3>4. 0 \in 0 .. n
      BY <1>1
    <3>5. 0 > 0 => ~Foreign(o[0]) \/ Point(o[0])
      OBVIOUS
    <3> QED
      BY <3>2, <3>3, <3>4, <3>5, Zenon
  <2>5. CASE T # {}
    <3>1. u = SubSeq(o, 1, k)
      BY <2>5 DEF u
    <3> HIDE DEF T
    <3>2. k \in T /\ \A j \in T : j <= k
      BY <1>1, <2>3, <2>5, Latest
    <3> HIDE DEF k
    <3>3. k \in 1 .. n /\ (~Foreign(o[k]) \/ Point(o[k]))
      BY <2>3, <3>2 DEF T, Foreign
    <3>4. \A i \in k + 1 .. n : Foreign(o[i]) /\ ~Point(o[i])
      <4> SUFFICES ASSUME NEW i \in k + 1 .. n, ~Foreign(o[i]) \/ Point(o[i]) PROVE FALSE
        OBVIOUS
      <4>1. i \in T
        BY <1>1, <3>3 DEF T, Foreign
      <4> QED
        BY <3>2, <3>3, <4>1
    <3>5. OpenTag(o, tag, closed) \in {SubSeq(o, 1, k), Append(SubSeq(o, 1, k), Element("div", "html"))}
      BY <1>2, <2>2, <3>1
    <3> QED
      BY <1>1, <3>3, <3>4, <3>5
  <2> QED
    BY <2>4, <2>5
<1> QED
  BY <1>3, <1>4

-----------------------------------------------------------------------------
(* A cut, a push and neither, as steps of both. *)

LEMMA CutFollows ==
    ASSUME NEW o \in Seq(Elements), NEW c \in 0 .. Len(o), NEW r \in Rewriters, NEW s \in Rewriters,
           NEW x, NEW y, AtMost(x, y), NEW pos, NEW p, NEW q, Beside(o, r, x, pos, p, q),
           NEW m \in 0 .. Len(r.foreignNS), s.foreignNS = SubSeq(r.foreignNS, 1, m),
           \A k \in 1 .. m : pos[k] <= c,
           s.mathTextPoint = r.mathTextPoint,
           s.foreignObjectAt = 0 \/ (s.foreignObjectAt = r.foreignObjectAt /\ p <= c),
           s.rawText => r.rawText /\ q <= c,
           y # "lost" =>
             /\ \A k \in 1 .. Len(r.foreignNS) : pos[k] <= c => k <= m
             /\ Titles(SubSeq(o, 1, c), s),
           y = "clear" =>
             \A i \in 1 .. c : Point(o[i]) /\ Seen(o, i) /\ r.foreignObjectAt > 0 =>
               s.foreignObjectAt > 0
    PROVE  Follows(SubSeq(o, 1, c), s, y)
<1>1. /\ pos \in [DOMAIN r.foreignNS -> DOMAIN o] /\ p \in Nat /\ q \in Nat
      /\ Held(o, r, pos, p, q)
      /\ x # "lost" => Full(o, r, pos)
      /\ x = "clear" => Clear(o, r)
  BY DEF Beside
<1>0. PICK at : Shorter(at, pos, m, c, o)
  <2> DEFINE at == [k \in 1 .. m |-> pos[k]]
  <2>1. \A k \in 1 .. m : k \in DOMAIN r.foreignNS
    BY DEF Rewriters
  <2>2. at \in [1 .. m -> DOMAIN o] /\ \A k \in 1 .. m : at[k] = pos[k] /\ pos[k] <= c
    BY <1>1, <2>1
  <2> QED
    BY <2>2 DEF Shorter
<1>2. /\ at \in [DOMAIN s.foreignNS -> DOMAIN SubSeq(o, 1, c)]
      /\ Held(SubSeq(o, 1, c), s, at, p, q)
  BY <1>0, <1>1, CutHeld
<1>3. ASSUME y # "lost" PROVE Full(SubSeq(o, 1, c), s, at)
  <2>1. \A k \in 1 .. Len(r.foreignNS) : k <= m <=> pos[k] <= c
    BY <1>3
  <2>2. Full(o, r, pos)
    BY <1>1, <1>3 DEF AtMost
  <2> QED
    BY <1>0, <1>1, <2>1, <2>2, CutFull
<1>4. ASSUME y = "clear" PROVE Clear(SubSeq(o, 1, c), s)
  <2>1. Clear(o, r)
    BY <1>1, <1>4 DEF AtMost
  <2> QED
    BY <1>4, <2>1, CutClear
<1>5. Beside(SubSeq(o, 1, c), s, y, at, p, q)
  BY <1>1, <1>2, <1>3, <1>4 DEF Beside
<1> QED
  BY <1>5 DEF Follows

\* Nothing is opened or closed; the mark may be given up.
LEMMA StayFollows ==
    ASSUME NEW o \in Seq(Elements), NEW r \in Rewriters, NEW s \in Rewriters,
           NEW x, NEW y, AtMost(x, y), Follows(o, r, x), s.foreignNS = r.foreignNS,
           s.mathTextPoint = r.mathTextPoint, s.rawText = r.rawText,
           s.swallowed.depth >= r.swallowed.depth,
           s.foreignObjectAt = r.foreignObjectAt \/ (s.foreignObjectAt = 0 /\ y # "clear")
    PROVE  Follows(o, s, y)
<1>1. PICK pos, p, q : Beside(o, r, x, pos, p, q)
  BY DEF Follows
<1>2. /\ pos \in [DOMAIN r.foreignNS -> DOMAIN o] /\ p \in Nat /\ q \in Nat
      /\ Held(o, r, pos, p, q)
      /\ x # "lost" => Full(o, r, pos) /\ Titles(o, r)
      /\ x = "clear" => Clear(o, r)
  BY <1>1 DEF Beside
<1>3. Held(o, s, pos, p, q)
  <2>1. s.foreignObjectAt > 0 => r.foreignObjectAt > 0 /\ s.foreignObjectAt = r.foreignObjectAt
    OBVIOUS
  <2> QED
    BY <1>2, <2>1 DEF Held
<1>4. y # "lost" => Full(o, s, pos)
  BY <1>2 DEF Full, AtMost
<1>5. ASSUME y # "lost" PROVE Titles(o, s)
  <2>1. Titles(o, r)
    BY <1>2, <1>5 DEF AtMost
  <2>2. Cardinality(Unseen(o)) \in Nat /\ r.swallowed.depth \in Int /\ s.swallowed.depth \in Int
    BY UnseenFinite DEF Rewriters
  <2>3. s.rawText => s.swallowed.depth >= Cardinality(Unseen(o))
    BY <2>1, <2>2 DEF Titles
  <2> QED
    BY <2>1, <2>3 DEF Titles
<1>6. y = "clear" => Clear(o, s)
  BY <1>2 DEF Clear, AtMost
<1>7. Beside(o, s, y, pos, p, q)
  BY <1>2, <1>3, <1>4, <1>5, <1>6 DEF Beside
<1> QED
  BY <1>7 DEF Follows

LEMMA PushFollows ==
    ASSUME NEW o \in Seq(Elements), NEW e \in Elements, NEW r \in Rewriters, Marked(r), NEW s \in Rewriters,
           NEW x, NEW y, AtMost(x, y), NEW pos, NEW p, NEW q, Beside(o, r, x, pos, p, q),
           s.foreignNS = r.foreignNS, NEW p1 \in Nat, NEW q1 \in Nat,
           s.foreignObjectAt > 0 =>
             \/ /\ p1 = p /\ s.foreignObjectAt = r.foreignObjectAt
                /\ s.mathTextPoint = r.mathTextPoint
                /\ p = Len(o) => Root(e) \/ ~Foreign(e)
             \/ /\ p1 = Len(o) + 1 /\ Point(e)
                /\ s.foreignObjectAt = Len(r.foreignNS)
                /\ TextPoint(e) => s.mathTextPoint,
           s.rawText =>
             \/ q1 = q /\ r.rawText /\ (s.foreignObjectAt > 0 => p1 = p /\ r.foreignObjectAt > 0)
             \/ q1 = Len(o) + 1 /\ e.tag = "title",
           Root(e) => r.rawText,
           y # "lost" => Titles(Append(o, e), s),
           y = "clear" =>
             /\ r.foreignObjectAt > 0 => s.foreignObjectAt > 0
             /\ \/ r.rawText
                \/ /\ NameOf(e.tag) \in Placed => \A i \in DOMAIN o : ~Point(o[i])
                   /\ Point(e) => s.foreignObjectAt > 0
    PROVE  Follows(Append(o, e), s, y)
<1>1. /\ pos \in [DOMAIN r.foreignNS -> DOMAIN o] /\ p \in Nat /\ q \in Nat
      /\ Held(o, r, pos, p, q)
      /\ x # "lost" => Full(o, r, pos) /\ Titles(o, r)
      /\ x = "clear" => Clear(o, r)
  BY DEF Beside
<1>2. /\ pos \in [DOMAIN s.foreignNS -> DOMAIN Append(o, e)]
      /\ Held(Append(o, e), s, pos, p1, q1)
  BY <1>1, PushHeld
<1>3. r.rawText => \E i \in DOMAIN o : o[i].tag = "title"
  BY <1>1 DEF Held
<1>4. ASSUME y # "lost" PROVE Full(Append(o, e), s, pos)
  <2>1. Full(o, r, pos)
    BY <1>1, <1>4 DEF AtMost
  <2> QED
    BY <1>1, <1>3, <2>1, PushFull
<1>5. ASSUME y = "clear" PROVE Clear(Append(o, e), s)
  <2>1. Clear(o, r)
    BY <1>1, <1>5 DEF AtMost
  <2> QED
    BY <1>3, <1>5, <2>1, PushClear
<1>6. Beside(Append(o, e), s, y, pos, p1, q1)
  BY <1>1, <1>2, <1>4, <1>5 DEF Beside
<1> QED
  BY <1>6 DEF Follows

\* An element that is none of the rewriter's concern.
LEMMA PassFollows ==
    ASSUME NEW o \in Seq(Elements), Nested(o), NEW e \in Elements, Fits(o, e),
           NEW r \in Rewriters, Marked(r), NEW s \in Rewriters,
           NEW x, NEW y, AtMost(x, y), Follows(o, r, x),
           s.foreignNS = r.foreignNS, s.foreignObjectAt = r.foreignObjectAt,
           s.mathTextPoint = r.mathTextPoint, s.rawText = r.rawText,
           s.swallowed.depth >= r.swallowed.depth,
           Root(e) => r.rawText /\ s.swallowed.depth >= r.swallowed.depth + 1,
           e.tag = "title" => y = "lost",
           r.rawText \/ (e.tag # "mglyph" /\ ~Point(e)),
           y = "clear" => r.rawText \/ NameOf(e.tag) \notin Placed \/ \A i \in DOMAIN o : ~Point(o[i])
    PROVE  Follows(Append(o, e), s, y)
<1>1. PICK pos, p, q : Beside(o, r, x, pos, p, q)
  BY DEF Follows
<1>2. /\ pos \in [DOMAIN r.foreignNS -> DOMAIN o] /\ p \in Nat /\ q \in Nat
      /\ Held(o, r, pos, p, q)
      /\ x # "lost" => Titles(o, r)
  BY <1>1 DEF Beside
<1>3. ASSUME s.foreignObjectAt > 0, p = Len(o), ~Root(e), Foreign(e) PROVE FALSE
  <2>1. p \in DOMAIN o /\ Point(o[p])
    BY <1>2, <1>3 DEF Held
  <2>2. TextPoint(o[p]) /\ ~HtmlPoint(o[p]) /\ e.tag = "mglyph"
    BY <1>3, <2>1 DEF Fits, Point
  <2>3. r.rawText
    BY <2>2
  <2>4. q \in DOMAIN o /\ o[q].tag = "title" /\ p <= q
    BY <1>2, <1>3, <2>3 DEF Held
  <2>5. q = p
    BY <1>3, <2>4
  <2> QED
    BY <2>2, <2>4, <2>5, TitlesArePoints
<1>4. ASSUME y # "lost" PROVE Titles(Append(o, e), s)
  <2>1. Titles(o, r) /\ e.tag # "title"
    BY <1>2, <1>4 DEF AtMost
  <2> QED
    BY <2>1, PushTitles
<1>5. s.rawText => r.rawText /\ (s.foreignObjectAt > 0 => r.foreignObjectAt > 0)
  OBVIOUS
<1>6. s.foreignObjectAt > 0 =>
        /\ p = p /\ s.foreignObjectAt = r.foreignObjectAt
        /\ s.mathTextPoint = r.mathTextPoint
        /\ p = Len(o) => Root(e) \/ ~Foreign(e)
  BY <1>3
<1>7. s.rawText => q = q /\ r.rawText /\ (s.foreignObjectAt > 0 => p = p /\ r.foreignObjectAt > 0)
  BY <1>5
<1>8. y = "clear" =>
        /\ r.foreignObjectAt > 0 => s.foreignObjectAt > 0
        /\ \/ r.rawText
           \/ /\ NameOf(e.tag) \in Placed => \A i \in DOMAIN o : ~Point(o[i])
              /\ Point(e) => s.foreignObjectAt > 0
  OBVIOUS
<1> QED
  BY <1>1, <1>2, <1>4, <1>6, <1>7, <1>8, PushFollows, Zenon

-----------------------------------------------------------------------------
(* The steps. *)

LEMMA SwallowSame ==
    ASSUME NEW r \in Rewriters, NEW tag
    PROVE  /\ Swallow(r, tag).foreignNS = r.foreignNS
           /\ Swallow(r, tag).foreignObjectAt = r.foreignObjectAt
           /\ Swallow(r, tag).mathTextPoint = r.mathTextPoint
           /\ Swallow(r, tag).rawText = r.rawText
           /\ Swallow(r, tag).swallowed.depth =
                IF tag \in {"svg", "math"} THEN r.swallowed.depth + 1 ELSE r.swallowed.depth
           /\ Swallow(r, tag).swallowed.depth >= r.swallowed.depth
<1>1. r.swallowed.depth \in Int
  BY DEF Rewriters
<1>2. Swallow(r, tag).swallowed.depth =
        IF tag \in {"svg", "math"} THEN r.swallowed.depth + 1 ELSE r.swallowed.depth
  BY DEF Swallow, Rewriters
<1>3. Swallow(r, tag).swallowed.depth >= r.swallowed.depth
  BY <1>1, <1>2
<1>4. /\ Swallow(r, tag).foreignNS = r.foreignNS
      /\ Swallow(r, tag).foreignObjectAt = r.foreignObjectAt
      /\ Swallow(r, tag).mathTextPoint = r.mathTextPoint
      /\ Swallow(r, tag).rawText = r.rawText
  BY DEF Swallow, Rewriters
<1> QED
  BY <1>2, <1>3, <1>4

\* Where all is HTML nothing is on the rewriter's stack.
LEMMA NothingIn ==
    ASSUME NEW o \in Seq(Elements), Nested(o), NEW r \in Rewriters, NEW x, Follows(o, r, x),
           \A i \in DOMAIN o : ~Foreign(o[i])
    PROVE  Empty(r) /\ ~r.rawText
<1>1. PICK pos, p, q : Beside(o, r, x, pos, p, q)
  BY DEF Follows
<1>2. pos \in [DOMAIN r.foreignNS -> DOMAIN o] /\ Held(o, r, pos, p, q)
  BY <1>1 DEF Beside
<1>3. r.foreignNS = <<>>
  <2> SUFFICES ASSUME r.foreignNS # <<>> PROVE FALSE
    OBVIOUS
  <2>1. 1 \in DOMAIN r.foreignNS
    BY DEF Rewriters
  <2>2. pos[1] \in DOMAIN o /\ Root(o[pos[1]])
    BY <1>2, <2>1 DEF Held
  <2> QED
    BY <2>2 DEF Nested
<1>4. ~(r.foreignObjectAt > 0)
  BY <1>2, PointsForeign DEF Held
<1>5. r.foreignObjectAt = 0
  BY <1>4 DEF Rewriters
<1>6. ~r.rawText
  BY <1>2, TitlesArePoints DEF Held
<1> QED
  BY <1>3, <1>5, <1>6 DEF Empty

\* And then there is nothing to follow.
LEMMA NothingOpen ==
    ASSUME NEW o \in Seq(Elements), Nested(o), NEW r \in Rewriters, Empty(r), ~r.rawText, NEW y,
           \A i \in DOMAIN o : ~Foreign(o[i])
    PROVE  Follows(o, r, y)
<1> DEFINE pos == [k \in {} |-> 0]
<1>1. DOMAIN r.foreignNS = {} /\ r.foreignObjectAt = 0
  BY DEF Empty
<1>2. pos \in [DOMAIN r.foreignNS -> DOMAIN o]
  BY <1>1
<1> HIDE DEF pos
<1>3. Held(o, r, pos, 0, 0)
  BY <1>1 DEF Held
<1>4. Full(o, r, pos)
  BY <1>1 DEF Full, Nested
<1>5. Titles(o, r)
  BY TitlesArePoints DEF Titles
<1>6. Clear(o, r)
  <2>1. \A i \in DOMAIN o : ~Point(o[i])
    BY PointsForeign
  <2>2. \A i \in DOMAIN o : \A j \in 1 .. i - 1 : j \in DOMAIN o
    OBVIOUS
  <2> QED
    BY <2>1, <2>2 DEF Clear
<1>7. Beside(o, r, y, pos, 0, 0)
  BY <1>2, <1>3, <1>4, <1>5, <1>6 DEF Beside
<1> QED
  BY <1>7 DEF Follows

\* A tag that breaks out closes what is above the last of HTML and the points,
\* and may open an element of HTML there.
LEMMA Breaking ==
    ASSUME NEW o \in Seq(Elements), Nested(o), NEW tag \in BreaksOut, NEW closed \in BOOLEAN,
           NEW s \in Rewriters, Marked(s), NEW y, AtMost(y, y),
           \A c \in 0 .. Len(o) :
             /\ c > 0 => ~Foreign(o[c]) \/ Point(o[c])
             /\ \A i \in c + 1 .. Len(o) : Foreign(o[i]) /\ ~Point(o[i])
             => Follows(SubSeq(o, 1, c), s, y)
    PROVE  Follows(OpenTag(o, tag, closed), s, y)
<1> DEFINE e == Element("div", "html")
<1>1. PICK c \in 0 .. Len(o) :
        /\ c > 0 => ~Foreign(o[c]) \/ Point(o[c])
        /\ \A i \in c + 1 .. Len(o) : Foreign(o[i]) /\ ~Point(o[i])
        /\ OpenTag(o, tag, closed) \in {SubSeq(o, 1, c), Append(SubSeq(o, 1, c), e)}
  BY Breaks
<1> DEFINE u == SubSeq(o, 1, c)
<1>2. Follows(u, s, y)
  BY <1>1
<1>3. /\ u \in Seq(Elements) /\ Nested(u) /\ Len(u) = c
      /\ c > 0 => u[c] = o[c]
  BY CutSame, CutNested
<1>4. OpenTag(o, tag, closed) = u \/ OpenTag(o, tag, closed) = Append(u, e)
  BY <1>1
<1>5. u = <<>> \/ ~Foreign(u[Len(u)]) \/ Point(u[Len(u)])
  BY <1>1, <1>3
<1> HIDE DEF u
<1>6. e.tag = "div" /\ e.ns = "html" /\ e \in Elements
  BY DEF Element, Elements, Tags
<1> HIDE DEF e
<1>7. Fits(u, e)
  BY <1>5, <1>6 DEF Fits, Root, Foreign
<1>8. ~Root(e) /\ e.tag # "title" /\ e.tag # "mglyph" /\ ~Point(e) /\ NameOf(e.tag) \notin Placed
  BY <1>6 DEF Root, Point, TextPoint, HtmlPoint, NameOf, Placed
<1>9. s.swallowed.depth >= s.swallowed.depth
  BY DEF Rewriters
<1>10. Follows(Append(u, e), s, y)
  BY <1>2, <1>3, <1>6, <1>7, <1>8, <1>9, PassFollows, Zenon
<1> QED
  BY <1>2, <1>4, <1>10 DEF u

\* In a title of svg the rewriter goes on as it is; a title in it ends the claim.
LEMMA StartSwallows ==
    ASSUME Sound(open, w, FALSE), w.rawText, NEW x, NEW y, AtMost(x, y), Follows(open, w, x),
           NEW tag \in Tags, NEW closed \in BOOLEAN, InPlace(tag),
           tag = "title" /\ ~closed => y = "lost"
    PROVE  Follows(OpenTag(open, tag, closed), StartTag(w, tag, closed), y)
<1> DEFINE s == Swallow(w, tag)
<1>1. /\ open \in Seq(Elements) /\ Nested(open) /\ w \in Rewriters /\ Marked(w)
      /\ StartTag(w, tag, closed) = s
  BY DEF Sound, StartTag
<1>2. /\ s.foreignNS = w.foreignNS /\ s.foreignObjectAt = w.foreignObjectAt
      /\ s.mathTextPoint = w.mathTextPoint /\ s.rawText = w.rawText
      /\ s.swallowed.depth >= w.swallowed.depth
      /\ s.swallowed.depth = IF tag \in {"svg", "math"} THEN w.swallowed.depth + 1 ELSE w.swallowed.depth
  BY <1>1, SwallowSame
<1>3. s \in Rewriters /\ Marked(s)
  BY <1>1, StartTagKeeps
<1> HIDE DEF s
<1>4. PICK pos, p, q : Beside(open, w, x, pos, p, q)
  BY DEF Follows
<1>5. /\ pos \in [DOMAIN w.foreignNS -> DOMAIN open] /\ p \in Nat /\ q \in Nat
      /\ Held(open, w, pos, p, q)
      /\ x # "lost" => Titles(open, w)
  BY <1>4 DEF Beside
<1>6. /\ q \in DOMAIN open /\ open[q].tag = "title" /\ Point(open[q]) /\ Foreign(open[q])
      /\ \A k \in DOMAIN w.foreignNS : pos[k] < q
      /\ w.foreignObjectAt > 0 => p <= q
  BY <1>1, <1>5, TitlesArePoints DEF Held
<1>7. tag = "title" => ForeignRules(open, tag)
  BY <1>6 DEF InPlace, Foreign
<1>8. AtMost(y, y)
  BY DEF AtMost
<1>9. CASE tag \in BreaksOut
  <2>1. ASSUME NEW c \in 0 .. Len(open), \A i \in c + 1 .. Len(open) : Foreign(open[i]) /\ ~Point(open[i])
        PROVE  Follows(SubSeq(open, 1, c), s, y)
    <3>1. q \in 1 .. c
      BY <1>1, <1>6, <2>1
    <3>2. DOMAIN w.foreignNS = 1 .. Len(w.foreignNS) /\ Len(w.foreignNS) \in 0 .. Len(w.foreignNS)
      BY <1>1 DEF Rewriters
    <3>3. w.foreignNS = SubSeq(w.foreignNS, 1, Len(w.foreignNS))
      BY <1>1 DEF Rewriters
    <3>4. \A k \in DOMAIN w.foreignNS : pos[k] <= c
      <4> SUFFICES ASSUME NEW k \in DOMAIN w.foreignNS PROVE pos[k] <= c
        OBVIOUS
      <4>1. pos[k] \in DOMAIN open /\ pos[k] < q
        BY <1>5, <1>6
      <4> QED
        BY <1>1, <3>1, <4>1
    <3>5. w.foreignObjectAt > 0 => p <= c
      BY <1>5, <1>6, <3>1
    <3>6. s.foreignObjectAt = 0 \/ (s.foreignObjectAt = w.foreignObjectAt /\ p <= c)
      BY <1>1, <1>2, <3>5 DEF Rewriters
    <3>7. s.rawText => w.rawText /\ q <= c
      BY <3>1
    <3>8. ASSUME y # "lost" PROVE Titles(SubSeq(open, 1, c), s)
      <4>1. Titles(open, w)
        BY <1>5, <3>8 DEF AtMost
      <4>2. \E i \in 1 .. c : open[i].tag = "title"
        BY <1>6, <3>1
      <4> QED
        BY <1>1, <1>2, <1>3, <4>1, <4>2, CutTitles
    <3>9. \A k \in 1 .. Len(w.foreignNS) : pos[k] <= c
      BY <3>2, <3>4
    <3>12. y # "lost" =>
             /\ \A k \in 1 .. Len(w.foreignNS) : pos[k] <= c => k <= Len(w.foreignNS)
             /\ Titles(SubSeq(open, 1, c), s)
      BY <1>1, <3>8 DEF Rewriters
    <3>13. Len(w.foreignNS) \in 0 .. Len(w.foreignNS)
      BY <3>2
    <3>10. s.foreignNS = SubSeq(w.foreignNS, 1, Len(w.foreignNS))
      BY <1>2, <3>3
    <3>11. y = "clear" => \A i \in 1 .. c : Point(open[i]) /\ Seen(open, i) /\ w.foreignObjectAt > 0 =>
             s.foreignObjectAt > 0
      BY <1>2
    <3> QED
      BY <1>1, <1>2, <1>3, <1>4, <3>6, <3>7, <3>9, <3>10, <3>11, <3>12, <3>13, CutFollows
  <2> QED
    BY <1>1, <1>3, <1>8, <1>9, <2>1, Breaking
<1>10. CASE tag \notin BreaksOut
  <2> DEFINE e == Element(tag, Space(tag))
  <2>1. /\ OpenTag(open, tag, closed) =
             IF closed /\ (ForeignRules(open, tag) \/ tag \in {"svg", "math"}) THEN open
             ELSE Append(open, e)
        /\ e \in Elements /\ e.tag = tag /\ Fits(open, e)
    BY <1>1, <1>7, <1>10, Opens
  <2> HIDE DEF e
  <2>2. CASE closed /\ (ForeignRules(open, tag) \/ tag \in {"svg", "math"})
    <3>1. Follows(open, s, y)
      BY <1>1, <1>2, <1>3, StayFollows, Zenon
    <3> QED
      BY <1>1, <2>1, <2>2, <3>1
  <2>3. CASE ~(closed /\ (ForeignRules(open, tag) \/ tag \in {"svg", "math"}))
    <3>1. Root(e) => s.swallowed.depth >= w.swallowed.depth + 1
      BY <1>1, <1>2, <2>1 DEF Root, Rewriters
    <3>2. e.tag = "title" => y = "lost"
      BY <1>7, <2>1, <2>3
    <3>3. Follows(Append(open, e), s, y)
      BY <1>1, <1>2, <1>3, <2>1, <3>1, <3>2, PassFollows, Zenon
    <3> QED
      BY <1>1, <2>1, <2>3, <3>3
  <2> QED
    BY <2>2, <2>3
<1> QED
  BY <1>9, <1>10

\* The title of the page.
LEMMA PageTitle ==
    ASSUME Sound(open, w, FALSE), NEW x, Follows(open, w, x), NEW closed \in BOOLEAN,
           \A i \in DOMAIN open : ~Foreign(open[i])
    PROVE  Empty(StartTag(w, "title", closed)) /\ StartTag(w, "title", closed).rawText
<1>1. open \in Seq(Elements) /\ Nested(open) /\ w \in Rewriters
  BY DEF Sound
<1>2. w.foreignNS = <<>> /\ w.foreignObjectAt = 0 /\ ~w.rawText
  BY <1>1, NothingIn DEF Empty
<1> DEFINE r == RawText(w, "title")
<1>3. r.foreignNS = <<>> /\ r.foreignObjectAt = 0 /\ r.rawText
  BY <1>1, <1>2 DEF RawText, Rewriters
<1>4. StartTag(w, "title", closed) =
        LET read == Glyph(BreakOut(r, "title"), "title") IN IF closed THEN read ELSE Enter(read, "title")
  BY <1>2 DEF StartTag
<1> HIDE DEF r
<1>5. Glyph(BreakOut(r, "title"), "title") = r
  BY DEF Glyph, BreakOut, BreaksOut
<1>6. Enter(r, "title") = r
  BY <1>3 DEF Enter, currentNS, integrationPointIn
<1> QED
  BY <1>3, <1>4, <1>5, <1>6 DEF Empty

\* While it sees clearly, what the mark cuts off is what is above an element in
\* which the rules of HTML apply.
LEMMA AtMark ==
    ASSUME NEW o \in Seq(Elements), Nested(o), NEW r \in Rewriters, Marked(r),
           NEW pos \in [DOMAIN r.foreignNS -> DOMAIN o], NEW p, NEW q, Held(o, r, pos, p, q),
           Clear(o, r), \A i \in DOMAIN o : o[i].tag # "title",
           NEW c \in 0 .. Len(o), c > 0 => ~Foreign(o[c]) \/ Point(o[c]),
           NEW k \in DOMAIN r.foreignNS, pos[k] <= c
    PROVE  k <= r.foreignObjectAt
<1> DEFINE a == pos[k]
<1>1. /\ Len(o) \in Nat /\ DOMAIN o = 1 .. Len(o) /\ a \in 1 .. Len(o) /\ a <= c
      /\ \A i \in DOMAIN o : Seen(o, i)
  BY DEF Seen
<1>2. Root(o[a]) /\ Foreign(o[a]) /\ ~Point(o[a])
  <2>1. Root(o[a])
    BY DEF Held
  <2> QED
    BY <1>1, <2>1, PointsForeign DEF Nested
<1>3. (k <= r.foreignObjectAt <=> a < p) \/ ~(r.foreignObjectAt > 0)
  BY DEF Held
<1>4. r.foreignObjectAt > 0 => p \in DOMAIN o /\ Point(o[p])
  BY DEF Held
<1> HIDE DEF a
<1>5. c \in DOMAIN o /\ (~Foreign(o[c]) \/ Point(o[c]))
  BY <1>1
<1>6. PICK i \in a + 1 .. c : Point(o[i])
  <2>1. CASE Point(o[c])
    <3>1. a # c
      BY <1>2, <2>1
    <3> QED
      BY <1>1, <2>1, <3>1
  <2>2. CASE ~Foreign(o[c])
    <3>1. a \in 1 .. c
      BY <1>1
    <3>2. PICK i \in a .. c - 1 : Point(o[i])
      BY <1>2, <1>5, <2>2, <3>1, PointBetween
    <3>3. i # a
      BY <1>2, <3>2
    <3> QED
      BY <1>1, <3>2, <3>3
  <2> QED
    BY <1>5, <2>1, <2>2
<1>7. i \in DOMAIN o /\ a < i
  BY <1>1, <1>6
<1>8. r.foreignObjectAt > 0
  BY <1>1, <1>6, <1>7 DEF Clear
<1>9. ~(p < i)
  <2> SUFFICES ASSUME p < i PROVE FALSE
    OBVIOUS
  <2>1. p \in 1 .. i - 1 /\ Point(o[p])
    BY <1>1, <1>4, <1>7, <1>8
  <2>2. NameOf(o[i].tag) \in Placed
    BY <1>6, PointsForeign
  <2> QED
    BY <1>1, <1>7, <2>1, <2>2 DEF Clear
<1>10. a < p
  BY <1>1, <1>4, <1>7, <1>8, <1>9
<1> QED
  BY <1>3, <1>8, <1>10

\* While no vocabulary and no HTML is in another, it knows the namespace.
LEMMA SameSpace ==
    ASSUME NEW o \in Seq(Elements), Nested(o), NEW r \in Rewriters,
           NEW pos \in [DOMAIN r.foreignNS -> DOMAIN o], NEW p, NEW q, Held(o, r, pos, p, q),
           Full(o, r, pos), ~Mixed(o)
    PROVE  /\ r.foreignObjectAt = 0
           /\ IF o # <<>> /\ Foreign(o[Len(o)])
              THEN r.foreignNS # <<>> /\ currentNS(r) = o[Len(o)].ns
              ELSE r.foreignNS = <<>>
<1> DEFINE n == Len(o)
           f == r.foreignNS
           m == Len(f)
<1>1. /\ n \in Nat /\ DOMAIN o = 1 .. n /\ (o # <<>> <=> n # 0)
      /\ m \in Nat /\ DOMAIN f = 1 .. m /\ (f # <<>> <=> m # 0)
  BY DEF Rewriters
<1>2. \A i \in DOMAIN o : ~Mixes(o, i) /\ ~Point(o[i])
  BY DEF Mixed, Mixes
<1>3. \A i \in DOMAIN o : o[i].tag # "title" /\ Seen(o, i)
  <2>1. \A i \in DOMAIN o : o[i].tag # "title"
    BY <1>2, TitlesArePoints
  <2> QED
    BY <1>1, <2>1 DEF Seen
<1>4. r.foreignObjectAt = 0
  BY <1>2 DEF Held, Rewriters
<1>5. \A k \in 1 .. m : pos[k] \in 1 .. n /\ Root(o[pos[k]])
  BY <1>1 DEF Held
<1>6. \A a, b \in 1 .. m : a < b => pos[a] < pos[b]
  BY <1>1 DEF Held
<1>7. ASSUME o # <<>>, Foreign(o[n]) PROVE f # <<>> /\ currentNS(r) = o[n].ns
  <2>0. n \in DOMAIN o /\ 0 \in 0 .. n - 1
    BY <1>1, <1>7
  <2>0a. 0 > 0 => ~Foreign(o[0 + 1]) \/ Root(o[0 + 1])
    OBVIOUS
  <2>1. \E j \in 0 + 1 .. n : Root(o[j]) /\ \A i \in j .. n : o[i].ns = o[n].ns
    BY <1>7, <2>0, <2>0a, RootAbove, Zenon
  <2>2. PICK j \in 1 .. n : Root(o[j]) /\ \A i \in j .. n : o[i].ns = o[n].ns
    BY <2>1
  <2>3. PICK k \in 1 .. m : pos[k] = j
    BY <1>1, <1>3, <2>2 DEF Full
  <2>4. m \in 1 .. m /\ f # <<>>
    BY <1>1, <2>3
  <2>5. pos[m] \in j .. n
    <3>1. k = m \/ pos[k] < pos[m]
      BY <1>1, <1>6, <2>3, <2>4
    <3>2. pos[m] \in 1 .. n /\ pos[k] \in 1 .. n
      BY <1>5, <2>3, <2>4
    <3> QED
      BY <1>1, <2>3, <3>1, <3>2
  <2>6. f[m].ns = o[pos[m]].ns
    <3>1. \A i \in 1 .. pos[m] : ~Mixes(o, i)
      BY <1>1, <1>2, <1>5, <2>4
    <3>2. m \in DOMAIN f
      BY <1>1, <2>4
    <3> QED
      BY <3>1, <3>2 DEF Full
  <2>7. currentNS(r) = f[m].ns
    BY <2>4 DEF currentNS, Last
  <2> QED
    BY <2>2, <2>4, <2>5, <2>6, <2>7
<1>8. ASSUME f # <<>>, ~Foreign(o[n]) PROVE FALSE
  <2>1. 1 \in 1 .. m
    BY <1>1, <1>8
  <2>2. pos[1] \in 1 .. n /\ Foreign(o[pos[1]])
    BY <1>1, <1>5, <2>1 DEF Nested
  <2>3. n \in DOMAIN o /\ pos[1] \in 1 .. n
    BY <1>1, <2>2
  <2>4. PICK i \in pos[1] .. n - 1 : Point(o[i])
    BY <1>8, <2>2, <2>3, PointBetween
  <2>5. i \in DOMAIN o
    BY <1>1, <2>2, <2>4
  <2> QED
    BY <1>2, <2>4, <2>5
<1>9. ASSUME f # <<>> PROVE o # <<>>
  BY <1>1, <1>5, <1>9
<1> QED
  BY <1>4, <1>7, <1>8, <1>9

\* A tag that breaks out, in HTML or in a vocabulary the mark is clear in.
LEMMA StartBreaks ==
    ASSUME Sound(open, w, FALSE), ~w.rawText, NEW x, NEW y, AtMost(x, y), y # "blurred",
           Follows(open, w, x), NEW tag \in BreaksOut, NEW closed \in BOOLEAN
    PROVE  Follows(OpenTag(open, tag, closed), StartTag(w, tag, closed), y)
<1> DEFINE m == w.foreignObjectAt
           s == [w EXCEPT !.foreignNS = SubSeq(w.foreignNS, 1, m)]
<1>1. open \in Seq(Elements) /\ Nested(open) /\ w \in Rewriters /\ Marked(w)
  BY DEF Sound
<1>2. /\ w.foreignNS \in Seq(Vocabulary) /\ Len(w.foreignNS) \in Nat /\ m \in 0 .. Len(w.foreignNS)
      /\ DOMAIN w.foreignNS = 1 .. Len(w.foreignNS)
  BY <1>1 DEF Rewriters, Vocabulary, Marked
<1>3. StartTag(w, tag, closed) = s
  <2>1. RawText(w, tag) = w
    BY DEF RawText, BreaksOut
  <2>2. BreakOut(w, tag) = s
    <3>1. CASE inForeignContent(w)
      BY <3>1 DEF BreakOut
    <3>2. CASE ~inForeignContent(w)
      <4>1. w.foreignNS = SubSeq(w.foreignNS, 1, m)
        <5>1. w.foreignNS = <<>> \/ Len(w.foreignNS) = m
          BY <1>2, <3>2 DEF inForeignContent
        <5> QED
          BY <1>2, <5>1
      <4>2. w = [w EXCEPT !.foreignNS = w.foreignNS]
        BY <1>1 DEF Rewriters
      <4> QED
        BY <3>2, <4>1, <4>2 DEF BreakOut
    <3> QED
      BY <3>1, <3>2
  <2> HIDE DEF s
  <2>3. Glyph(s, tag) = s /\ Enter(s, tag) = s
    BY DEF Glyph, Enter, integrationPointIn, BreaksOut
  <2> QED
    BY <2>1, <2>2, <2>3 DEF StartTag
<1>4. /\ s.foreignNS = SubSeq(w.foreignNS, 1, m) /\ s.foreignObjectAt = w.foreignObjectAt
      /\ s.mathTextPoint = w.mathTextPoint /\ s.rawText = w.rawText /\ s.swallowed = w.swallowed
  BY <1>1 DEF Rewriters
<1>5. s \in Rewriters /\ Marked(s)
  BY <1>1, <1>3, StartTagKeeps
<1> HIDE DEF s
<1>6. PICK pos, p, q : Beside(open, w, x, pos, p, q)
  BY DEF Follows
<1>7. /\ pos \in [DOMAIN w.foreignNS -> DOMAIN open] /\ p \in Nat /\ q \in Nat
      /\ Held(open, w, pos, p, q)
      /\ x # "lost" => Titles(open, w)
      /\ x = "clear" => Clear(open, w)
  BY <1>6 DEF Beside
<1>8. AtMost(y, y) /\ y \in {"clear", "lost"}
  BY DEF AtMost
<1>9. ASSUME NEW c \in 0 .. Len(open), c > 0 => ~Foreign(open[c]) \/ Point(open[c]),
             \A i \in c + 1 .. Len(open) : Foreign(open[i]) /\ ~Point(open[i])
      PROVE  Follows(SubSeq(open, 1, c), s, y)
  <2>1. w.foreignObjectAt > 0 => p \in 1 .. Len(open) /\ Point(open[p]) /\ p <= c
    <3>1. w.foreignObjectAt > 0 => p \in DOMAIN open /\ Point(open[p])
      BY <1>7 DEF Held
    <3> QED
      BY <1>1, <1>9, <3>1
  <2>2. \A k \in 1 .. m : pos[k] <= c
    <3> SUFFICES ASSUME NEW k \in 1 .. m PROVE pos[k] <= c
      OBVIOUS
    <3>1. k \in DOMAIN w.foreignNS /\ w.foreignObjectAt > 0 /\ k <= w.foreignObjectAt
      BY <1>2
    <3>2. pos[k] < p /\ pos[k] \in DOMAIN open
      BY <1>7, <3>1 DEF Held
    <3> QED
      BY <1>1, <2>1, <3>1, <3>2
  <2>3. s.foreignObjectAt = 0 \/ (s.foreignObjectAt = w.foreignObjectAt /\ p <= c)
    BY <1>2, <1>4, <2>1
  <2>4. ASSUME y # "lost"
        PROVE  /\ \A k \in 1 .. Len(w.foreignNS) : pos[k] <= c => k <= m
               /\ Titles(SubSeq(open, 1, c), s)
    <3>1. x = "clear" /\ Titles(open, w) /\ Clear(open, w)
      BY <1>7, <1>8, <2>4 DEF AtMost
    <3>2. \A i \in DOMAIN open : open[i].tag # "title"
      BY <3>1 DEF Titles
    <3>3. ASSUME NEW k \in DOMAIN w.foreignNS, pos[k] <= c PROVE k <= m
      BY <1>1, <1>7, <1>9, <3>1, <3>2, <3>3, AtMark
    <3>4. Titles(SubSeq(open, 1, c), s)
      <4>1. s.swallowed.depth >= w.swallowed.depth
        BY <1>1, <1>4 DEF Rewriters
      <4> QED
        BY <1>1, <1>4, <1>5, <3>1, <4>1, CutTitles
    <3> QED
      BY <1>2, <3>3, <3>4
  <2>5. ~s.rawText
    BY <1>4
  <2>6. y = "clear" => \A i \in 1 .. c : Point(open[i]) /\ Seen(open, i) /\ w.foreignObjectAt > 0 =>
          s.foreignObjectAt > 0
    BY <1>4
  <2> HIDE DEF m
  <2> QED
    BY <1>1, <1>2, <1>4, <1>5, <1>6, <2>2, <2>3, <2>4, <2>5, <2>6, CutFollows
<1> QED
  BY <1>1, <1>3, <1>5, <1>8, <1>9, Breaking

\* The start of an integration point, or of an annotation that is none.
LEMMA StartPoint ==
    ASSUME Sound(open, w, FALSE), ~w.rawText, NEW x, NEW y, AtMost(x, y), Follows(open, w, x),
           NEW tag \in {"desc", "title", "mi", "annotation-xml", "annotation-html"},
           InPlace(tag), ForeignRules(open, tag), y = "clear" => ~Mixed(open)
    PROVE  Follows(OpenTag(open, tag, FALSE), StartTag(w, tag, FALSE), y)
<1> DEFINE n == Len(open)
           m == Len(w.foreignNS)
           e == Element(tag, Space(tag))
           r == RawText(w, tag)
           s == Enter(r, tag)
<1>1. /\ open \in Seq(Elements) /\ Nested(open) /\ w \in Rewriters /\ Marked(w) /\ Quiet(w)
      /\ tag \in Tags /\ tag \notin BreaksOut
  BY DEF Sound, Tags, BreaksOut
<1>2. /\ n \in Nat /\ DOMAIN open = 1 .. n /\ m \in Nat
      /\ w.foreignObjectAt \in Nat /\ w.foreignNS \in Seq(Vocabulary)
  BY <1>1 DEF Rewriters, Vocabulary
<1>3. r \in Rewriters
  <2>1. inForeignContent(w) \in BOOLEAN
    BY DEF inForeignContent
  <2> QED
    BY <1>1, <2>1 DEF RawText, Rewriters
<1>4. /\ r.foreignNS = w.foreignNS /\ r.foreignObjectAt = w.foreignObjectAt
      /\ r.mathTextPoint = w.mathTextPoint /\ r.swallowed = w.swallowed
      /\ r.rawText <=> tag = "title"
  BY <1>1 DEF RawText, Rewriters
<1>5. StartTag(w, tag, FALSE) = s
  <2>1. StartTag(w, tag, FALSE) = Enter(Glyph(BreakOut(r, tag), tag), tag)
    BY DEF StartTag
  <2>2. Glyph(BreakOut(r, tag), tag) = r
    BY <1>1 DEF Glyph, BreakOut
  <2> QED
    BY <2>1, <2>2
<1> HIDE DEF r
<1>6. s \in Rewriters /\ Marked(s)
  BY <1>1, <1>5, StartTagKeeps
<1>7. currentNS(r) = currentNS(w) /\ (w.foreignNS = <<>> => currentNS(w) = "")
  BY <1>4 DEF currentNS
<1>8. s = IF tag = "annotation-html" /\ currentNS(w) = "math" /\ w.foreignObjectAt = 0
          THEN [r EXCEPT !.foreignObjectAt = m]
          ELSE IF integrationPointIn(tag, currentNS(w)) /\ w.foreignObjectAt = 0
          THEN [r EXCEPT !.foreignObjectAt = m, !.mathTextPoint = currentNS(w) = "math"]
          ELSE r
  <2>1. s = IF tag = "annotation-html" /\ currentNS(r) = "math" /\ r.foreignObjectAt = 0
            THEN [r EXCEPT !.foreignObjectAt = Len(r.foreignNS)]
            ELSE IF integrationPointIn(tag, currentNS(r)) /\ r.foreignObjectAt = 0
            THEN [r EXCEPT !.foreignObjectAt = Len(r.foreignNS), !.mathTextPoint = currentNS(r) = "math"]
            ELSE r
    <3>1. tag \notin {"svg", "math"}
      OBVIOUS
    <3>2. CASE tag = "annotation-html" /\ currentNS(r) = "math" /\ r.foreignObjectAt = 0
      BY <3>1, <3>2 DEF Enter, integrationPointIn
    <3>3. CASE /\ ~(tag = "annotation-html" /\ currentNS(r) = "math" /\ r.foreignObjectAt = 0)
               /\ integrationPointIn(tag, currentNS(r)) /\ r.foreignObjectAt = 0
      BY <3>1, <3>3 DEF Enter
    <3>4. CASE /\ ~(tag = "annotation-html" /\ currentNS(r) = "math" /\ r.foreignObjectAt = 0)
               /\ ~(integrationPointIn(tag, currentNS(r)) /\ r.foreignObjectAt = 0)
      BY <3>1, <3>4 DEF Enter
    <3> QED
      BY <3>2, <3>3, <3>4
  <2> QED
    BY <1>4, <1>7, <2>1
<1>9. /\ s.foreignNS = w.foreignNS /\ s.swallowed = w.swallowed
      /\ s.rawText <=> tag = "title"
  BY <1>3, <1>4, <1>8 DEF Rewriters
<1>10. \/ s.foreignObjectAt = w.foreignObjectAt /\ s.mathTextPoint = w.mathTextPoint
       \/ /\ s.foreignObjectAt = m
          /\ \/ tag = "annotation-html" /\ currentNS(w) = "math"
             \/ integrationPointIn(tag, currentNS(w))
          /\ tag = "mi" => s.mathTextPoint
  <2>1. CASE tag = "annotation-html" /\ currentNS(w) = "math" /\ w.foreignObjectAt = 0
    BY <1>3, <1>8, <2>1 DEF Rewriters
  <2>2. CASE /\ ~(tag = "annotation-html" /\ currentNS(w) = "math" /\ w.foreignObjectAt = 0)
             /\ integrationPointIn(tag, currentNS(w)) /\ w.foreignObjectAt = 0
    <3>1. s = [r EXCEPT !.foreignObjectAt = m, !.mathTextPoint = currentNS(w) = "math"]
      BY <1>8, <2>2
    <3>2. s.foreignObjectAt = m /\ (s.mathTextPoint <=> currentNS(w) = "math")
      BY <1>3, <3>1 DEF Rewriters
    <3>3. tag = "mi" => currentNS(w) = "math"
      BY <2>2 DEF integrationPointIn
    <3> QED
      BY <2>2, <3>2, <3>3
  <2>3. CASE /\ ~(tag = "annotation-html" /\ currentNS(w) = "math" /\ w.foreignObjectAt = 0)
             /\ ~(integrationPointIn(tag, currentNS(w)) /\ w.foreignObjectAt = 0)
    BY <1>4, <1>8, <2>3
  <2> QED
    BY <2>1, <2>2, <2>3
<1>11. w.foreignObjectAt > 0 => s.foreignObjectAt > 0
  <2>1. w.foreignObjectAt > 0 => s = r
    BY <1>2, <1>8
  <2> QED
    BY <1>4, <2>1
<1>12. tag = "annotation-html" \/ integrationPointIn(tag, currentNS(w)) => tag # "annotation-xml"
  BY DEF integrationPointIn
<1>13. /\ OpenTag(open, tag, FALSE) = Append(open, e)
       /\ e \in Elements /\ e.tag = tag /\ e.ns = Space(tag) /\ Fits(open, e)
  BY <1>1, Opens
<1> HIDE DEF s, e
<1>14. open # <<>> /\ Foreign(open[n]) /\ ~Point(open[n]) /\ Current(open) = open[n] /\ e.ns = open[n].ns
  <2>1. tag # "mglyph"
    OBVIOUS
  <2> QED
    BY <1>1, <1>13, <2>1, RulesAt DEF Point, Space
<1>15. /\ tag \in {"desc", "title"} => e.ns = "svg"
       /\ tag \in {"mi", "annotation-xml", "annotation-html"} => e.ns = "math"
  BY <1>13 DEF Fits
<1>16. /\ ~Root(e) /\ NameOf(e.tag) \in Placed
       /\ Point(e) <=> tag # "annotation-xml"
       /\ TextPoint(e) => tag = "mi"
  BY <1>13, <1>15 DEF Root, NameOf, Placed, Point, TextPoint, HtmlPoint
<1>17. PICK pos, p, q : Beside(open, w, x, pos, p, q)
  BY DEF Follows
<1>18. /\ pos \in [DOMAIN w.foreignNS -> DOMAIN open] /\ p \in Nat /\ q \in Nat
       /\ Held(open, w, pos, p, q)
       /\ x # "lost" => Full(open, w, pos) /\ Titles(open, w)
       /\ x = "clear" => Clear(open, w)
  BY <1>17 DEF Beside
<1>19. w.foreignObjectAt > 0 => p # n
  <2>1. w.foreignObjectAt > 0 => Point(open[p])
    BY <1>18 DEF Held
  <2> QED
    BY <1>14, <2>1
<1> DEFINE p1 == IF s.foreignObjectAt = w.foreignObjectAt /\ s.mathTextPoint = w.mathTextPoint
                 THEN p ELSE n + 1
<1>20. s.foreignObjectAt > 0 =>
         \/ /\ p1 = p /\ s.foreignObjectAt = w.foreignObjectAt
            /\ s.mathTextPoint = w.mathTextPoint
            /\ p = Len(open) => Root(e) \/ ~Foreign(e)
         \/ /\ p1 = Len(open) + 1 /\ Point(e)
            /\ s.foreignObjectAt = Len(w.foreignNS)
            /\ TextPoint(e) => s.mathTextPoint
  <2>1. CASE s.foreignObjectAt = w.foreignObjectAt /\ s.mathTextPoint = w.mathTextPoint
    BY <1>19, <2>1
  <2>2. CASE ~(s.foreignObjectAt = w.foreignObjectAt /\ s.mathTextPoint = w.mathTextPoint)
    BY <1>10, <1>12, <1>16, <2>2
  <2> QED
    BY <2>1, <2>2
<1>21. p1 \in Nat /\ n + 1 \in Nat
  BY <1>2, <1>18
<1> HIDE DEF p1
<1>22. s.rawText => n + 1 = Len(open) + 1 /\ e.tag = "title"
  BY <1>9, <1>13
<1>23. ASSUME y # "lost" PROVE Titles(Append(open, e), s)
  <2>1. Titles(open, w)
    BY <1>18, <1>23 DEF AtMost
  <2>2. CASE tag # "title"
    <3>1. s.swallowed.depth >= w.swallowed.depth
      BY <1>1, <1>9 DEF Rewriters
    <3>2. s.rawText = w.rawText /\ (Root(e) /\ w.rawText => s.swallowed.depth >= w.swallowed.depth + 1)
      BY <1>1, <1>6, <1>9, <2>2 DEF Rewriters
    <3> QED
      BY <1>1, <1>6, <1>13, <1>16, <2>1, <2>2, <3>1, <3>2, PushTitles
  <2>3. CASE tag = "title"
    <3> DEFINE u == Append(open, e)
    <3>1. /\ DOMAIN u = 1 .. n + 1 /\ u[n + 1] = e
          /\ \A i \in 1 .. n : u[i] = open[i] /\ (Seen(u, i) <=> Seen(open, i))
      BY <1>1, <1>13, PushSame
    <3> HIDE DEF u
    <3>2. \A i \in 1 .. n : open[i].tag # "title" /\ Seen(open, i)
      <4>1. \A i \in 1 .. n : open[i].tag # "title"
        BY <1>2, <2>1 DEF Titles
      <4> QED
        BY <1>2, <4>1 DEF Seen
    <3>3. \A i \in DOMAIN u : i = n + 1 \/ i \in 1 .. n
      BY <1>2, <3>1
    <3>4. Cardinality(Unseen(u)) = 0
      <4>1. \A i \in DOMAIN u : Root(u[i]) => Seen(u, i)
        BY <1>16, <3>1, <3>2, <3>3
      <4> QED
        BY <4>1, NoneUnseen
    <3>5. s.swallowed.depth = 0
      BY <1>1, <1>9 DEF Quiet
    <3>6. n + 1 \in DOMAIN u /\ u[n + 1].tag = "title" /\ s.rawText
      BY <1>2, <1>9, <1>13, <2>3, <3>1
    <3>7. \A i, j \in DOMAIN u : u[i].tag = "title" /\ u[j].tag = "title" => i = j
      BY <3>1, <3>2, <3>3
    <3>8. Titles(u, s)
      BY <3>4, <3>5, <3>6, <3>7 DEF Titles
    <3> QED
      BY <3>8 DEF u
  <2> QED
    BY <2>2, <2>3
<1>24. ASSUME y = "clear"
       PROVE  /\ w.foreignObjectAt > 0 => s.foreignObjectAt > 0
              /\ NameOf(e.tag) \in Placed => \A i \in DOMAIN open : ~Point(open[i])
              /\ Point(e) => s.foreignObjectAt > 0
  <2>1. Full(open, w, pos) /\ ~Mixed(open)
    BY <1>18, <1>24 DEF AtMost
  <2>2. \A i \in DOMAIN open : ~Point(open[i])
    BY <2>1 DEF Mixed, Mixes
  <2>3. w.foreignObjectAt = 0 /\ w.foreignNS # <<>> /\ currentNS(w) = e.ns
    BY <1>1, <1>14, <1>18, <2>1, SameSpace
  <2>4. Point(e) => s.foreignObjectAt = m
    <3>1. CASE tag = "annotation-html"
      BY <1>3, <1>8, <1>15, <2>3, <3>1 DEF Rewriters
    <3>2. CASE tag \in {"desc", "title", "mi"}
      <4>1. integrationPointIn(tag, currentNS(w)) /\ tag # "annotation-html"
        BY <1>15, <2>3, <3>2 DEF integrationPointIn
      <4>2. s = [r EXCEPT !.foreignObjectAt = m, !.mathTextPoint = currentNS(w) = "math"]
        BY <1>8, <2>3, <4>1
      <4> QED
        BY <1>3, <4>2 DEF Rewriters
    <3> QED
      BY <1>16, <3>1, <3>2
  <2>5. m > 0
    BY <1>2, <2>3
  <2> QED
    BY <1>11, <2>2, <2>4, <2>5
<1>25. Follows(Append(open, e), s, y)
  BY <1>1, <1>6, <1>9, <1>13, <1>16, <1>17, <1>20, <1>21, <1>22, <1>23, <1>24, PushFollows
<1> QED
  BY <1>5, <1>13, <1>25

\* A root goes on both stacks, in the same namespace if it can be known.
LEMMA StartRoot ==
    ASSUME Sound(open, w, FALSE), ~w.rawText, NEW x, NEW y, AtMost(x, y), Follows(open, w, x),
           NEW tag \in {"svg", "math"}, InPlace(tag)
    PROVE  Follows(OpenTag(open, tag, FALSE), StartTag(w, tag, FALSE), y)
<1> DEFINE n == Len(open)
           e == Element(tag, Space(tag))
           v == IF inForeignContent(w) THEN currentNS(w) ELSE tag
           s == Enter(w, tag)
<1>1. /\ open \in Seq(Elements) /\ Nested(open) /\ w \in Rewriters /\ Marked(w)
      /\ tag \in Tags /\ tag \notin BreaksOut /\ tag # "title"
  BY DEF Sound, Tags, BreaksOut
<1>2. n \in Nat /\ DOMAIN open = 1 .. n /\ (open # <<>> <=> n # 0)
  BY <1>1
<1>3. StartTag(w, tag, FALSE) = s
  <2>1. RawText(w, tag) = w /\ BreakOut(w, tag) = w /\ Glyph(w, tag) = w
    BY <1>1 DEF RawText, BreakOut, Glyph
  <2> QED
    BY <2>1 DEF StartTag
<1>4. s \in Rewriters /\ Marked(s)
  BY <1>1, <1>3, StartTagKeeps
<1>5. s = [w EXCEPT !.foreignNS = Append(w.foreignNS, [name |-> tag, ns |-> v])]
  BY DEF Enter, integrationPointIn
<1> HIDE DEF s, v
<1>6. /\ s.foreignNS = Append(w.foreignNS, [name |-> tag, ns |-> v])
      /\ s.foreignObjectAt = w.foreignObjectAt /\ s.mathTextPoint = w.mathTextPoint
      /\ s.rawText = w.rawText /\ s.swallowed = w.swallowed
  BY <1>1, <1>5 DEF Rewriters
<1>7. /\ OpenTag(open, tag, FALSE) = Append(open, e)
      /\ e \in Elements /\ e.tag = tag /\ e.ns = Space(tag) /\ Fits(open, e)
  BY <1>1, Opens
<1> HIDE DEF e
<1>8. /\ Root(e) /\ NameOf(e.tag) \notin Placed /\ ~Point(e)
  BY <1>7 DEF Root, NameOf, Placed, Point, TextPoint, HtmlPoint
<1>9. PICK pos, p, q : Beside(open, w, x, pos, p, q)
  BY DEF Follows
<1>10. /\ pos \in [DOMAIN w.foreignNS -> DOMAIN open] /\ p \in Nat /\ q \in Nat
       /\ Held(open, w, pos, p, q)
       /\ x # "lost" => Full(open, w, pos) /\ Titles(open, w)
       /\ x = "clear" => Clear(open, w)
  BY <1>9 DEF Beside
<1>11. ASSUME Full(open, w, pos), \A j \in 1 .. n + 1 : ~Mixes(Append(open, e), j)
       PROVE  v = e.ns
  <2>1. \A i \in 1 .. n : ~Mixes(open, i)
    <3>1. \A i \in 1 .. n : Mixes(Append(open, e), i) <=> Mixes(open, i)
      BY <1>1, PushSame
    <3> QED
      BY <1>2, <1>11, <3>1
  <2>2. ~Mixed(open)
    BY <1>2, <2>1 DEF Mixed
  <2>3. CASE open # <<>> /\ Foreign(open[n])
    <3>1. w.foreignObjectAt = 0 /\ w.foreignNS # <<>> /\ currentNS(w) = open[n].ns
      BY <1>1, <1>10, <1>11, <2>2, <2>3, SameSpace
    <3>2. v = open[n].ns
      BY <3>1 DEF v, inForeignContent
    <3>3. n \in 1 .. n /\ open[n] \in Elements
      BY <1>1, <1>2, <2>3
    <3>4. ~Point(open[n])
      BY <2>1, <3>3 DEF Mixes
    <3>5. CASE ForeignRules(open, tag)
      <4>1. Current(open) = open[n]
        BY <1>1, <3>5, RulesAt
      <4> QED
        BY <1>7, <3>2, <3>5, <4>1 DEF Space
    <3>6. CASE ~ForeignRules(open, tag)
      <4>1. open[n].ns = "math" /\ tag = "svg"
        BY <1>1, <2>3, <3>4, <3>6, RulesAt DEF Point
      <4>2. e.ns = "svg"
        BY <1>7, <3>6, <4>1 DEF Space
      <4> DEFINE u == Append(open, e)
      <4>3. u[n + 1] = e /\ u[n] = open[n]
        BY <1>1, <3>3, PushSame
      <4> HIDE DEF u
      <4>4. n + 1 \in 1 .. n + 1 /\ n + 1 > 1 /\ n + 1 - 1 = n
        BY <1>2, <3>3
      <4>5. {u[n].ns, u[n + 1].ns} = {"svg", "math"}
        BY <4>1, <4>2, <4>3
      <4>6. Mixes(u, n + 1)
        BY <4>4, <4>5 DEF Mixes
      <4> QED
        BY <1>11, <4>4, <4>6 DEF u
    <3> QED
      BY <3>5, <3>6
  <2>4. CASE ~(open # <<>> /\ Foreign(open[n]))
    <3>1. w.foreignNS = <<>>
      BY <1>1, <1>10, <1>11, <2>2, <2>4, SameSpace
    <3>2. v = tag
      BY <3>1 DEF v, inForeignContent
    <3>3. ~ForeignRules(open, tag)
      BY <1>1, <2>4, RulesAt
    <3> QED
      BY <1>7, <3>2, <3>3 DEF Space
  <2> QED
    BY <2>3, <2>4
<1>12. PICK at : at = Longer(pos, Len(w.foreignNS), Len(open) + 1)
  OBVIOUS
<1>13. s.foreignNS = Append(w.foreignNS, [name |-> e.tag, ns |-> v]) /\ ~s.rawText
  BY <1>6, <1>7
<1>14. (\A j \in 1 .. Len(open) + 1 : ~Mixes(Append(open, e), j)) /\ Full(open, w, pos) => v = e.ns
  BY <1>11
<1>15. /\ at \in [DOMAIN s.foreignNS -> DOMAIN Append(open, e)]
       /\ Held(Append(open, e), s, at, p, q)
       /\ Full(open, w, pos) => Full(Append(open, e), s, at)
  <2>1. /\ at \in [DOMAIN s.foreignNS -> DOMAIN Append(open, e)]
        /\ Held(Append(open, e), s, at, p, q)
        /\ Full(open, w, pos) /\ ((\A j \in 1 .. Len(open) + 1 : ~Mixes(Append(open, e), j)) => v = e.ns) =>
             Full(Append(open, e), s, at)
    BY <1>1, <1>6, <1>8, <1>10, <1>12, <1>13, PushRoot
  <2> QED
    BY <1>14, <2>1
<1>16. ASSUME y # "lost" PROVE Titles(Append(open, e), s)
  <2>1. Titles(open, w) /\ e.tag # "title"
    BY <1>1, <1>7, <1>10, <1>16 DEF AtMost
  <2>2. s.swallowed.depth >= w.swallowed.depth
    BY <1>1, <1>6 DEF Rewriters
  <2> QED
    BY <1>1, <1>4, <1>6, <1>7, <2>1, <2>2, PushTitles
<1>17. ASSUME y = "clear" PROVE Clear(Append(open, e), s)
  <2>1. Clear(open, w)
    BY <1>10, <1>17 DEF AtMost
  <2> QED
    BY <1>1, <1>6, <1>8, <2>1, PushClear
<1>18. y # "lost" => x # "lost"
  BY DEF AtMost
<1>19. Beside(Append(open, e), s, y, at, p, q)
  BY <1>10, <1>15, <1>16, <1>17, <1>18 DEF Beside
<1> QED
  BY <1>3, <1>7, <1>19 DEF Follows

\* An mglyph in a text point: the rewriter gives up a mark it has there.
LEMMA StartGlyph ==
    ASSUME Sound(open, w, FALSE), ~w.rawText, NEW x, NEW y, AtMost(x, y), y # "clear",
           Follows(open, w, x), NEW closed \in BOOLEAN, InPlace("mglyph")
    PROVE  Follows(OpenTag(open, "mglyph", closed), StartTag(w, "mglyph", closed), y)
<1> DEFINE n == Len(open)
           e == Element("mglyph", Space("mglyph"))
           s == Glyph(w, "mglyph")
<1>1. /\ open \in Seq(Elements) /\ Nested(open) /\ w \in Rewriters /\ Marked(w)
      /\ "mglyph" \in Tags /\ "mglyph" \notin BreaksOut /\ "mglyph" # "title"
  BY DEF Sound, Tags, BreaksOut
<1>2. n \in Nat /\ DOMAIN open = 1 .. n /\ (open # <<>> <=> n # 0)
  BY <1>1
<1>3. StartTag(w, "mglyph", closed) = s
  <2>1. RawText(w, "mglyph") = w /\ BreakOut(w, "mglyph") = w /\ Enter(s, "mglyph") = s
    BY <1>1 DEF RawText, BreakOut, Enter, integrationPointIn
  <2> QED
    BY <2>1 DEF StartTag
<1>4. s \in Rewriters /\ Marked(s)
  BY <1>1, <1>3, StartTagKeeps
<1>5. /\ s.foreignNS = w.foreignNS /\ s.mathTextPoint = w.mathTextPoint
      /\ s.rawText = w.rawText /\ s.swallowed = w.swallowed
      /\ s.foreignObjectAt = 0 \/ s.foreignObjectAt = w.foreignObjectAt
      /\ w.foreignObjectAt > 0 /\ w.mathTextPoint /\ Len(w.foreignNS) = w.foreignObjectAt =>
           s.foreignObjectAt = 0
  <2>1. CASE w.foreignObjectAt > 0 /\ w.mathTextPoint /\ Len(w.foreignNS) = w.foreignObjectAt
    BY <1>1, <2>1 DEF Glyph, Rewriters
  <2>2. CASE ~(w.foreignObjectAt > 0 /\ w.mathTextPoint /\ Len(w.foreignNS) = w.foreignObjectAt)
    <3>1. s = w
      BY <2>2 DEF Glyph
    <3> QED
      BY <2>2, <3>1
  <2> QED
    BY <2>1, <2>2
<1> HIDE DEF s
<1>6. open # <<>> /\ TextPoint(open[n])
  <2>1. ~TextPoint(Element("g", "html"))
    BY DEF TextPoint, Element
  <2> QED
    BY <1>1, <2>1, CurrentIsLast DEF InPlace
<1>7. ForeignRules(open, "mglyph") /\ Current(open) = open[n] /\ open[n].ns = "math"
  <2>1. Foreign(open[n]) /\ ~HtmlPoint(open[n]) /\ open[n].ns = "math"
    BY <1>6 DEF TextPoint, HtmlPoint, Foreign
  <2> QED
    BY <1>1, <1>6, <2>1, RulesAt
<1>8. /\ OpenTag(open, "mglyph", closed) = IF closed THEN open ELSE Append(open, e)
      /\ e \in Elements /\ e.tag = "mglyph" /\ e.ns = "math" /\ Fits(open, e)
  BY <1>1, <1>7, Opens DEF Space
<1> HIDE DEF e
<1>9. s.swallowed.depth >= w.swallowed.depth
  BY <1>1, <1>5 DEF Rewriters
<1>10. CASE closed
  <2>1. Follows(open, s, y)
    BY <1>1, <1>4, <1>5, <1>9, StayFollows
  <2> QED
    BY <1>3, <1>8, <1>10, <2>1
<1>11. CASE ~closed
  <2>1. PICK pos, p, q : Beside(open, w, x, pos, p, q)
    BY DEF Follows
  <2>2. /\ pos \in [DOMAIN w.foreignNS -> DOMAIN open] /\ p \in Nat /\ q \in Nat
        /\ Held(open, w, pos, p, q)
        /\ x # "lost" => Titles(open, w)
    BY <2>1 DEF Beside
  <2>3. ASSUME s.foreignObjectAt > 0, p = n PROVE FALSE
    <3>1. w.foreignObjectAt > 0 /\ w.foreignObjectAt = s.foreignObjectAt
      BY <1>5, <2>3
    <3>2. w.mathTextPoint
      BY <1>6, <2>2, <2>3, <3>1 DEF Held
    <3>3. \A k \in DOMAIN w.foreignNS : k <= w.foreignObjectAt
      <4> SUFFICES ASSUME NEW k \in DOMAIN w.foreignNS PROVE k <= w.foreignObjectAt
        OBVIOUS
      <4>1. Root(open[pos[k]]) /\ (k <= w.foreignObjectAt <=> pos[k] < p)
        BY <2>2, <3>1 DEF Held
      <4>2. pos[k] # n
        BY <1>6, <4>1 DEF Root, TextPoint
      <4>3. pos[k] \in 1 .. n
        BY <1>2, <2>2
      <4> QED
        BY <1>2, <2>3, <4>1, <4>2, <4>3
    <3>4. Len(w.foreignNS) = w.foreignObjectAt
      <4>1. DOMAIN w.foreignNS = 1 .. Len(w.foreignNS) /\ Len(w.foreignNS) \in Nat
        BY <1>1 DEF Rewriters
      <4>2. w.foreignObjectAt <= Len(w.foreignNS) /\ w.foreignObjectAt \in Nat
        BY <1>1 DEF Marked, Rewriters
      <4>3. Len(w.foreignNS) \in DOMAIN w.foreignNS
        BY <3>1, <4>1, <4>2
      <4>4. Len(w.foreignNS) <= w.foreignObjectAt
        BY <3>3, <4>3
      <4> QED
        BY <4>1, <4>2, <4>4
    <3> QED
      BY <1>5, <2>3, <3>1, <3>2, <3>4
  <2>4. s.foreignObjectAt > 0 =>
          \/ /\ p = p /\ s.foreignObjectAt = w.foreignObjectAt
             /\ s.mathTextPoint = w.mathTextPoint
             /\ p = Len(open) => Root(e) \/ ~Foreign(e)
          \/ /\ p = Len(open) + 1 /\ Point(e)
             /\ s.foreignObjectAt = Len(w.foreignNS)
             /\ TextPoint(e) => s.mathTextPoint
    BY <1>5, <2>3
  <2>5. ~s.rawText /\ ~Root(e) /\ e.tag # "title"
    BY <1>5, <1>8 DEF Root
  <2>6. ASSUME y # "lost" PROVE Titles(Append(open, e), s)
    <3>1. Titles(open, w)
      BY <2>2, <2>6 DEF AtMost
    <3> QED
      BY <1>1, <1>4, <1>5, <1>8, <1>9, <2>5, <3>1, PushTitles
  <2>7. Follows(Append(open, e), s, y)
    BY <1>1, <1>4, <1>5, <1>8, <2>1, <2>2, <2>4, <2>5, <2>6, PushFollows
  <2> QED
    BY <1>3, <1>8, <1>11, <2>7
<1> QED
  BY <1>10, <1>11

\* A tag that means nothing to the rewriter, or that closes itself.
LEMMA StartOther ==
    ASSUME Sound(open, w, FALSE), ~w.rawText, NEW x, NEW y, AtMost(x, y), Follows(open, w, x),
           NEW tag \in Tags \ (BreaksOut \cup {"title", "mglyph"}), NEW closed \in BOOLEAN, InPlace(tag),
           tag # "g" => closed
    PROVE  Follows(OpenTag(open, tag, closed), StartTag(w, tag, closed), y)
<1> DEFINE e == Element(tag, Space(tag))
<1>1. open \in Seq(Elements) /\ Nested(open) /\ w \in Rewriters /\ Marked(w)
  BY DEF Sound
<1>2. StartTag(w, tag, closed) = w
  <2>1. RawText(w, tag) = w /\ BreakOut(w, tag) = w /\ Glyph(w, tag) = w
    BY DEF RawText, BreakOut, Glyph
  <2>2. tag = "g" => Enter(w, tag) = w
    BY DEF Enter, integrationPointIn
  <2> QED
    BY <2>1, <2>2 DEF StartTag
<1>3. /\ OpenTag(open, tag, closed) =
           IF closed /\ (ForeignRules(open, tag) \/ tag \in {"svg", "math"}) THEN open
           ELSE Append(open, e)
      /\ e \in Elements /\ e.tag = tag /\ Fits(open, e)
  BY <1>1, Opens
<1> HIDE DEF e
<1>4. w.swallowed.depth >= w.swallowed.depth
  BY <1>1 DEF Rewriters
<1>5. CASE closed /\ (ForeignRules(open, tag) \/ tag \in {"svg", "math"})
  <2>1. Follows(open, w, y)
    BY <1>1, <1>4, StayFollows
  <2> QED
    BY <1>2, <1>3, <1>5, <2>1
<1>6. CASE ~(closed /\ (ForeignRules(open, tag) \/ tag \in {"svg", "math"}))
  <2>1. tag = "g"
    BY <1>6 DEF InPlace, Tags, BreaksOut
  <2>2. ~Root(e) /\ e.tag # "title" /\ e.tag # "mglyph" /\ ~Point(e) /\ NameOf(e.tag) \notin Placed
    BY <1>3, <2>1 DEF Root, Point, TextPoint, HtmlPoint, NameOf, Placed
  <2>3. Follows(Append(open, e), w, y)
    BY <1>1, <1>3, <1>4, <2>2, PassFollows, Zenon
  <2> QED
    BY <1>2, <1>3, <1>6, <2>3
<1> QED
  BY <1>5, <1>6

\* The end tag of what is innermost.
LEMMA EndTop ==
    ASSUME Sound(open, w, FALSE), NEW y \in {"clear", "blurred", "lost"}, Follows(open, w, y),
           NEW name \in Names \ {"svg", "math"}, open # <<>>, NameOf(open[Len(open)].tag) = name
    PROVE  Follows(CloseTag(open, name), EndTag(w, name), y)
<1> DEFINE n == Len(open)
           m == Len(w.foreignNS)
           s == EndTag(w, name)
<1>1. /\ open \in Seq(Elements) /\ Nested(open) /\ w \in Rewriters /\ Marked(w) /\ Quiet(w)
  BY DEF Sound
<1>2. /\ n \in Nat /\ n \in 1 .. n /\ DOMAIN open = 1 .. n /\ n - 1 \in 0 .. n
      /\ m \in Nat /\ m \in 0 .. m /\ DOMAIN w.foreignNS = 1 .. m
      /\ open[n] \in Elements
  BY <1>1 DEF Rewriters
<1>2b. n - 1 \in 0 .. Len(open) /\ m \in 0 .. Len(w.foreignNS)
  BY <1>2
<1>2a. w.foreignNS = SubSeq(w.foreignNS, 1, m)
  BY <1>1 DEF Rewriters
<1>3. CloseTag(open, name) = SubSeq(open, 1, n - 1)
  BY <1>1, ClosesTop
<1>4. s \in Rewriters /\ Marked(s)
  BY <1>1, EndTagKeeps
<1>5. /\ s.foreignNS = w.foreignNS /\ s.mathTextPoint = w.mathTextPoint
      /\ w.rawText /\ name # "title" =>
           s.rawText /\ s.foreignObjectAt = w.foreignObjectAt /\ s.swallowed = w.swallowed
      /\ ~w.rawText \/ name = "title" => ~s.rawText /\ s.swallowed.depth = 0
      /\ s.foreignObjectAt = IF name \in Placed /\ (~w.rawText \/ name = "title")
                             THEN 0 ELSE w.foreignObjectAt
  <2> DEFINE r == [w EXCEPT !.rawText = FALSE, !.swallowed = NothingSwallowed]
  <2>1. CASE w.rawText /\ name # "title"
    <3>1. s = [w EXCEPT !.swallowed.depth = w.swallowed.depth]
      BY <2>1 DEF EndTag
    <3>2. s = w
      BY <1>1, <3>1 DEF Rewriters
    <3> QED
      BY <2>1, <3>2
  <2>2. CASE ~w.rawText \/ name = "title"
    <3>0. NothingSwallowed \in [depth : Int, rcdata : BOOLEAN] /\ NothingSwallowed.depth = 0
      BY DEF NothingSwallowed
    <3>1. /\ r.foreignNS = w.foreignNS /\ r.mathTextPoint = w.mathTextPoint
          /\ r.foreignObjectAt = w.foreignObjectAt /\ ~r.rawText /\ r.swallowed.depth = 0
      BY <1>1, <3>0 DEF Rewriters
    <3>1a. r \in Rewriters
      BY <1>1, <3>0 DEF Rewriters
    <3>2. s = IF name \in Placed THEN [r EXCEPT !.foreignObjectAt = 0] ELSE r
      BY <2>2 DEF EndTag, Placed
    <3> HIDE DEF r
    <3>3. CASE name \in Placed
      BY <2>2, <3>1, <3>1a, <3>2, <3>3 DEF Rewriters
    <3>4. CASE name \notin Placed
      BY <2>2, <3>1, <3>2, <3>4
    <3> QED
      BY <3>3, <3>4
  <2> QED
    BY <2>1, <2>2
<1>5a. Point(open[n]) => NameOf(open[n].tag) \in Placed
  BY PointsForeign
<1>5b. NameOf(open[n].tag) = name
  OBVIOUS
<1> HIDE DEF s, n, m
<1>6. PICK pos, p, q : Beside(open, w, y, pos, p, q)
  BY DEF Follows
<1>7. /\ pos \in [DOMAIN w.foreignNS -> DOMAIN open] /\ p \in Nat /\ q \in Nat
      /\ Held(open, w, pos, p, q)
      /\ y # "lost" => Titles(open, w)
      /\ y = "clear" => Clear(open, w)
  BY <1>6 DEF Beside
<1>8. /\ ~Root(open[n]) /\ (open[n].tag = "title" <=> name = "title")
      /\ Point(open[n]) => name \in Placed
  <2>1. open[n].tag \in Tags
    BY <1>2 DEF Elements
  <2> QED
    BY <1>5a, <1>5b, <2>1 DEF Root, NameOf
<1>9. \A k \in 1 .. m : pos[k] <= n - 1
  <2> SUFFICES ASSUME NEW k \in 1 .. m PROVE pos[k] <= n - 1
    OBVIOUS
  <2>1. pos[k] \in 1 .. n /\ Root(open[pos[k]])
    BY <1>2, <1>7 DEF Held
  <2>2. pos[k] # n
    BY <1>8, <2>1
  <2> QED
    BY <1>2, <2>1, <2>2
<1>10. s.rawText => w.rawText /\ q <= n - 1
  <2> SUFFICES ASSUME s.rawText PROVE w.rawText /\ q <= n - 1
    OBVIOUS
  <2>1. w.rawText /\ name # "title"
    BY <1>5
  <2>2. q \in 1 .. n /\ open[q].tag = "title"
    BY <1>2, <1>7, <2>1 DEF Held
  <2>3. q # n
    BY <1>8, <2>1, <2>2
  <2> QED
    BY <1>2, <2>1, <2>2, <2>3
<1>11. s.foreignObjectAt = 0 \/ (s.foreignObjectAt = w.foreignObjectAt /\ p <= n - 1)
  <2> SUFFICES ASSUME s.foreignObjectAt # 0 PROVE s.foreignObjectAt = w.foreignObjectAt /\ p <= n - 1
    OBVIOUS
  <2>1. s.foreignObjectAt = w.foreignObjectAt /\ w.foreignObjectAt > 0
    BY <1>4, <1>5 DEF Rewriters
  <2>2. p \in 1 .. n /\ Point(open[p])
    BY <1>2, <1>7, <2>1 DEF Held
  <2>3. CASE s.rawText
    <3>1. w.rawText
      BY <1>10, <2>3
    <3>2. p <= q /\ q <= n - 1
      BY <1>7, <1>10, <2>1, <2>3, <3>1 DEF Held
    <3> QED
      BY <1>2, <1>7, <2>1, <3>2
  <2>4. CASE ~s.rawText
    <3>1. name \notin Placed
      BY <1>5, <2>1, <2>4
    <3>2. p # n
      BY <1>8, <2>2, <3>1
    <3> QED
      BY <1>2, <2>1, <2>2, <3>2
  <2> QED
    BY <2>3, <2>4
<1>12. ASSUME y # "lost" PROVE Titles(SubSeq(open, 1, n - 1), s)
  <2>1. Titles(open, w)
    BY <1>7, <1>12
  <2>2. CASE w.rawText /\ name = "title"
    <3> DEFINE u == SubSeq(open, 1, n - 1)
    <3>1. DOMAIN u = 1 .. n - 1 /\ \A i \in 1 .. n - 1 : u[i] = open[i]
      BY <1>1, <1>2b, CutSame
    <3> HIDE DEF u
    <3>2. \A i \in DOMAIN u : u[i].tag # "title"
      <4> SUFFICES ASSUME NEW i \in DOMAIN u, u[i].tag = "title" PROVE FALSE
        OBVIOUS
      <4>1. i \in DOMAIN open /\ i # n /\ open[i].tag = "title"
        BY <1>2, <3>1
      <4> QED
        BY <1>2, <1>8, <2>1, <2>2, <4>1 DEF Titles
    <3>3. ~s.rawText
      BY <1>5, <2>2
    <3> QED
      BY <3>2, <3>3 DEF Titles, u
  <2>3. CASE ~(w.rawText /\ name = "title")
    <3>1. s.rawText = w.rawText
      BY <1>1, <1>4, <1>5, <2>3 DEF Rewriters
    <3>2. s.swallowed.depth >= w.swallowed.depth
      BY <1>1, <1>5, <2>3 DEF Quiet, Rewriters
    <3>3. w.rawText => \E i \in 1 .. n - 1 : open[i].tag = "title"
      <4>1. w.rawText => q \in 1 .. n - 1 /\ open[q].tag = "title"
        BY <1>2, <1>7, <1>10, <3>1 DEF Held
      <4> QED
        BY <4>1
    <3> QED
      BY <1>1, <1>2b, <1>4, <2>1, <3>1, <3>2, <3>3, CutTitles
  <2> QED
    BY <2>2, <2>3
<1>13. ASSUME y = "clear", NEW i \in 1 .. n - 1, Point(open[i]), Seen(open, i), w.foreignObjectAt > 0
       PROVE  s.foreignObjectAt > 0
  <2> SUFFICES ASSUME ~(s.foreignObjectAt > 0) PROVE FALSE
    OBVIOUS
  <2>1. name \in Placed /\ (~w.rawText \/ name = "title")
    BY <1>5, <1>13
  <2>2. Clear(open, w) /\ Titles(open, w)
    BY <1>7, <1>13
  <2>3. ~Seen(open, n)
    BY <1>2, <1>13, <2>1, <2>2 DEF Clear
  <2>4. PICK j \in 1 .. n - 1 : open[j].tag = "title"
    BY <2>3 DEF Seen
  <2>5. j \in DOMAIN open /\ j # n
    BY <1>2
  <2>6. w.rawText
    BY <2>2, <2>4, <2>5 DEF Titles
  <2>7. open[n].tag = "title"
    BY <1>8, <2>1, <2>6
  <2> QED
    BY <1>2, <2>2, <2>4, <2>5, <2>7 DEF Titles
<1>14. y # "lost" =>
         /\ \A k \in 1 .. Len(w.foreignNS) : pos[k] <= n - 1 => k <= m
         /\ Titles(SubSeq(open, 1, n - 1), s)
  BY <1>2, <1>12 DEF m
<1>15. AtMost(y, y) /\ s.foreignNS = SubSeq(w.foreignNS, 1, m)
  BY <1>2a, <1>5 DEF AtMost
<1>15a. s.mathTextPoint = w.mathTextPoint
  BY <1>5
<1>15b. y = "clear" =>
          \A i \in 1 .. n - 1 : Point(open[i]) /\ Seen(open, i) /\ w.foreignObjectAt > 0 =>
            s.foreignObjectAt > 0
  BY <1>13
<1>16. Follows(SubSeq(open, 1, n - 1), s, y)
  BY <1>1, <1>2b, <1>4, <1>6, <1>9, <1>10, <1>11, <1>14, <1>15, <1>15a, <1>15b, CutFollows
<1> QED
  BY <1>3, <1>16 DEF s

\* What popForeign takes off: all from the innermost element of the name on.
Pops(r, name, s, m) ==
  LET f == r.foreignNS
  IN  /\ s.foreignNS = SubSeq(f, 1, m)
      /\ s.foreignObjectAt = IF m < r.foreignObjectAt THEN 0 ELSE r.foreignObjectAt
      /\ s.mathTextPoint = r.mathTextPoint /\ s.rawText = r.rawText /\ s.swallowed = r.swallowed
      /\ m < Len(f) => f[m + 1].name = name
      /\ \A k \in DOMAIN f : f[k].name = name => k <= m + 1 /\ m < Len(f)

LEMMA PopCutsAt ==
    ASSUME NEW r \in Rewriters, Marked(r), NEW name
    PROVE  \E m \in 0 .. Len(r.foreignNS) : Pops(r, name, popForeign(r, name), m)
<1> DEFINE f == r.foreignNS
           last == {i \in DOMAIN f : f[i].name = name}
           k == CHOOSE i \in last : \A j \in last : j <= i
           s == popForeign(r, name)
<1>1. /\ f \in Seq(Vocabulary) /\ Len(f) \in Nat /\ DOMAIN f = 1 .. Len(f)
      /\ r.foreignObjectAt \in Nat /\ r.foreignObjectAt <= Len(f)
  BY DEF Rewriters, Vocabulary, Marked
<1>2. UpTo(f, LAMBDA e : e.name = name) = IF last = {} THEN <<>> ELSE SubSeq(f, 1, k)
  BY DEF UpTo
<1>3. CASE last = {}
  <2>1. s = r
    BY <1>2, <1>3 DEF popForeign
  <2>2. \A j \in DOMAIN f : f[j].name # name
    BY <1>3
  <2>3. f = SubSeq(f, 1, Len(f))
    BY <1>1
  <2> HIDE DEF s
  <2>4. Pops(r, name, s, Len(f))
    BY <1>1, <2>1, <2>2, <2>3 DEF Pops
  <2>5. Len(f) \in 0 .. Len(f)
    BY <1>1
  <2> QED
    BY <2>4, <2>5 DEF s
<1>4. CASE last # {}
  <2>1. last \subseteq 1 .. Len(f)
    BY <1>1
  <2> HIDE DEF last
  <2>2. k \in last /\ \A j \in last : j <= k
    BY <1>1, <1>4, <2>1, Latest
  <2> HIDE DEF k
  <2>3. /\ k \in DOMAIN f /\ f[k].name = name /\ \A j \in DOMAIN f : f[j].name = name => j <= k
    BY <2>2 DEF last
  <2>4. /\ Below(SubSeq(f, 1, k)) = SubSeq(f, 1, k - 1)
        /\ SubSeq(f, 1, k) # <<>>
    BY <1>1, <2>3, BelowCut
  <2>5. Len(SubSeq(f, 1, k)) = k
    BY <1>1, <2>3
  <2>6. s = [r EXCEPT !.foreignNS = SubSeq(f, 1, k - 1),
                      !.foreignObjectAt = IF k - 1 < r.foreignObjectAt THEN 0 ELSE r.foreignObjectAt]
    BY <1>2, <1>4, <2>4, <2>5 DEF popForeign
  <2>7. /\ s.foreignNS = SubSeq(f, 1, k - 1)
        /\ s.foreignObjectAt = IF k - 1 < r.foreignObjectAt THEN 0 ELSE r.foreignObjectAt
        /\ s.mathTextPoint = r.mathTextPoint /\ s.rawText = r.rawText /\ s.swallowed = r.swallowed
    BY <2>6 DEF Rewriters
  <2> HIDE DEF s
  <2>8. k - 1 \in 0 .. Len(f) /\ k - 1 + 1 = k /\ k - 1 < Len(f)
    BY <1>1, <2>3
  <2>9. Pops(r, name, s, k - 1)
    BY <2>3, <2>7, <2>8 DEF Pops
  <2> QED
    BY <2>8, <2>9 DEF s
<1> QED
  BY <1>3, <1>4

\* The end tag of a vocabulary, with no HTML left open in it.
LEMMA EndRoot ==
    ASSUME Sound(open, w, FALSE), NEW y \in {"clear", "blurred", "lost"}, Follows(open, w, y),
           NEW name \in {"svg", "math"}, NEW i \in DOMAIN open, open[i].tag = name,
           \A j \in i .. Len(open) : Foreign(open[j]) /\ open[j].tag # "title",
           y = "lost" =>
             \A j \in Len(CloseTag(open, name)) + 2 .. Len(open) : ~Point(open[j]) /\ ~Root(open[j])
    PROVE  Follows(CloseTag(open, name), EndTag(w, name), y)
<1> DEFINE n == Len(open)
           f == w.foreignNS
           s == EndTag(w, name)
<1>1. /\ open \in Seq(Elements) /\ Nested(open) /\ w \in Rewriters /\ Marked(w) /\ Quiet(w)
  BY DEF Sound
<1>2. /\ n \in Nat /\ DOMAIN open = 1 .. n /\ Len(f) \in Nat /\ DOMAIN f = 1 .. Len(f)
      /\ w.foreignObjectAt \in Nat /\ w.swallowed.depth \in Int
  BY <1>1 DEF Rewriters
<1>3. PICK b \in DOMAIN open :
        /\ open[b].tag = name
        /\ \A j \in b + 1 .. n : open[j].tag # name
        /\ CloseTag(open, name) = SubSeq(open, 1, b - 1)
  BY <1>1, ClosesRoot
<1>4. b \in i .. n
  <2>1. i \in 1 .. n /\ b \in 1 .. n
    BY <1>2
  <2> QED
    BY <1>2, <1>3, <2>1
<1>5. b - 1 \in 0 .. Len(open) /\ Root(open[b]) /\ ~Point(open[b])
  <2>1. Root(open[b])
    BY <1>3 DEF Root
  <2> QED
    BY <1>2, <2>1, PointsForeign
<1>6. Len(SubSeq(open, 1, b - 1)) = b - 1
  BY <1>1, <1>5, CutSame
<1>7. y = "lost" => \A j \in b + 1 .. n : ~Point(open[j]) /\ ~Root(open[j])
  BY <1>3, <1>6
<1>8. \A j \in b .. n : open[j].tag # "title"
  BY <1>2, <1>4
<1>9. s \in Rewriters /\ Marked(s)
  BY <1>1, EndTagKeeps
<1>10. PICK pos, p, q : Beside(open, w, y, pos, p, q)
  BY DEF Follows
<1>11. /\ pos \in [DOMAIN w.foreignNS -> DOMAIN open] /\ p \in Nat /\ q \in Nat
       /\ Held(open, w, pos, p, q)
       /\ y # "lost" => Full(open, w, pos) /\ Titles(open, w)
       /\ y = "clear" => Clear(open, w)
  BY <1>10 DEF Beside
<1>12. AtMost(y, y)
  BY DEF AtMost
<1> HIDE DEF n, f
<1>13. /\ \A k \in 1 .. Len(f) : pos[k] \in 1 .. n /\ Root(open[pos[k]]) /\ f[k].name = open[pos[k]].tag
       /\ \A k, l \in 1 .. Len(f) : k < l => pos[k] < pos[l]
  <2>1. \A k \in DOMAIN f : pos[k] \in DOMAIN open
    BY <1>11 DEF f
  <2> QED
    BY <1>2, <1>11, <2>1 DEF Held, f
<1>14. w.foreignObjectAt > 0 =>
         /\ p \in 1 .. n /\ Point(open[p])
         /\ \A k \in 1 .. Len(f) : k <= w.foreignObjectAt <=> pos[k] < p
  BY <1>2, <1>11 DEF Held, f
<1>15. CASE w.rawText
  <2>1. s = [w EXCEPT !.swallowed.depth = w.swallowed.depth - 1]
    BY <1>15 DEF EndTag
  <2>2. /\ s.foreignNS = w.foreignNS /\ s.foreignObjectAt = w.foreignObjectAt
        /\ s.mathTextPoint = w.mathTextPoint /\ s.rawText = w.rawText
        /\ s.swallowed.depth = w.swallowed.depth - 1
    BY <1>1, <2>1 DEF Rewriters
  <2> HIDE DEF s
  <2>3. /\ q \in 1 .. n /\ open[q].tag = "title"
        /\ \A k \in 1 .. Len(f) : pos[k] < q
        /\ w.foreignObjectAt > 0 => p <= q
    BY <1>2, <1>11, <1>15 DEF Held, f
  <2>4. q <= b - 1 /\ q \in 1 .. b - 1
    BY <1>2, <1>4, <1>8, <2>3
  <2>5. \A k \in 1 .. Len(f) : pos[k] <= b - 1
    <3> SUFFICES ASSUME NEW k \in 1 .. Len(f) PROVE pos[k] <= b - 1
      OBVIOUS
    <3>1. pos[k] < q /\ pos[k] \in 1 .. n
      BY <1>13, <2>3
    <3> QED
      BY <1>2, <2>4, <3>1
  <2>6. s.foreignObjectAt = 0 \/ (s.foreignObjectAt = w.foreignObjectAt /\ p <= b - 1)
    BY <1>2, <1>11, <2>2, <2>3, <2>4
  <2>7. ASSUME y # "lost" PROVE Titles(SubSeq(open, 1, b - 1), s)
    <3>1. b \in Unseen(open)
      BY <1>5, <2>3, <2>4 DEF Unseen, Seen
    <3>2. b \in b - 1 + 1 .. Len(open)
      BY <1>2, <1>4 DEF n
    <3>3. s.swallowed.depth >= w.swallowed.depth - 1
      BY <1>2, <2>2
    <3>4. \E j \in 1 .. b - 1 : open[j].tag = "title"
      BY <2>3, <2>4
    <3>5. \E j \in b - 1 + 1 .. Len(open) : j \in Unseen(open)
      BY <3>1, <3>2
    <3>6. Titles(open, w)
      BY <1>11, <2>7
    <3> QED
      BY <1>1, <1>5, <1>9, <2>2, <3>3, <3>4, <3>5, <3>6, CutTitles
  <2>8. Len(f) \in 0 .. Len(w.foreignNS) /\ s.foreignNS = SubSeq(w.foreignNS, 1, Len(f))
    BY <1>1, <1>2, <2>2 DEF Rewriters, f
  <2>9. y # "lost" =>
          /\ \A k \in 1 .. Len(w.foreignNS) : pos[k] <= b - 1 => k <= Len(f)
          /\ Titles(SubSeq(open, 1, b - 1), s)
    BY <1>2, <2>7 DEF f
  <2>10. y = "clear" =>
           \A j \in 1 .. b - 1 : Point(open[j]) /\ Seen(open, j) /\ w.foreignObjectAt > 0 =>
             s.foreignObjectAt > 0
    BY <2>2
  <2>11. s.rawText => w.rawText /\ q <= b - 1
    BY <1>15, <2>4
  <2>12. s.mathTextPoint = w.mathTextPoint
    BY <2>2
  <2>13. Follows(SubSeq(open, 1, b - 1), s, y)
    BY <1>1, <1>5, <1>9, <1>10, <1>12, <2>5, <2>6, <2>8, <2>9, <2>10, <2>11, <2>12, CutFollows
  <2> QED
    BY <1>3, <2>13 DEF s
<1>16. CASE ~w.rawText
  <2> DEFINE r == [w EXCEPT !.rawText = FALSE, !.swallowed = NothingSwallowed]
  <2>1. s = popForeign(r, name)
    BY <1>16 DEF EndTag
  <2>2. NothingSwallowed \in [depth : Int, rcdata : BOOLEAN] /\ NothingSwallowed.depth = 0
    BY DEF NothingSwallowed
  <2>3. r \in Rewriters
    BY <1>1, <2>2 DEF Rewriters
  <2>4. /\ r.foreignNS = f /\ r.foreignObjectAt = w.foreignObjectAt
        /\ r.mathTextPoint = w.mathTextPoint /\ ~r.rawText /\ r.swallowed.depth = 0
    BY <1>1, <2>2 DEF Rewriters, f
  <2> HIDE DEF r
  <2>5. Marked(r)
    BY <1>1, <2>4 DEF Marked, f
  <2>6. PICK m \in 0 .. Len(r.foreignNS) : Pops(r, name, s, m)
    BY <2>1, <2>3, <2>5, PopCutsAt
  <2> HIDE DEF s
  <2>7. /\ m \in 0 .. Len(f) /\ s.foreignNS = SubSeq(f, 1, m)
        /\ s.foreignObjectAt = IF m < w.foreignObjectAt THEN 0 ELSE w.foreignObjectAt
        /\ s.mathTextPoint = w.mathTextPoint /\ ~s.rawText /\ s.swallowed.depth = 0
        /\ m < Len(f) => f[m + 1].name = name
        /\ \A k \in 1 .. Len(f) : f[k].name = name => k <= m + 1 /\ m < Len(f)
    BY <1>2, <2>4, <2>6 DEF Pops
  \* The root the browser closes is not below the cut, nor the one it is cut at above it.
  <2>8. \A k \in 1 .. m : pos[k] <= b - 1
    <3> SUFFICES ASSUME NEW k \in 1 .. m PROVE pos[k] <= b - 1
      OBVIOUS
    <3>1. k \in 1 .. Len(f) /\ pos[k] \in 1 .. n /\ Root(open[pos[k]])
      BY <1>2, <1>13, <2>7
    <3>2. CASE m < Len(f)
      <4>1. m + 1 \in 1 .. Len(f) /\ k < m + 1
        BY <1>2, <2>7, <3>2
      <4>2. pos[k] < pos[m + 1] /\ pos[m + 1] \in 1 .. n
        BY <1>13, <3>1, <4>1
      <4>3. open[pos[m + 1]].tag = name
        BY <1>13, <2>7, <3>2, <4>1
      <4>4. pos[m + 1] <= b
        BY <1>2, <1>3, <4>2, <4>3
      <4> QED
        BY <1>2, <3>1, <4>2, <4>4
    <3>3. CASE ~(m < Len(f))
      <4>1. f[k].name # name
        BY <2>7, <3>1, <3>3
      <4>2. pos[k] # b
        BY <1>3, <1>13, <3>1, <4>1
      <4>3. pos[k] <= b
        <5>1. CASE y = "lost"
          BY <1>2, <1>7, <3>1, <5>1
        <5>2. CASE y # "lost"
          <6>1. \A j \in DOMAIN open : open[j].tag # "title"
            BY <1>11, <1>16, <5>2 DEF Titles
          <6>2. Seen(open, b)
            BY <1>2, <6>1 DEF Seen
          <6>3. PICK l \in DOMAIN w.foreignNS : pos[l] = b
            BY <1>5, <1>11, <5>2, <6>2 DEF Full
          <6>4. l \in 1 .. Len(f) /\ f[l].name = name
            BY <1>2, <1>3, <1>13, <6>3 DEF f
          <6> QED
            BY <2>7, <3>3, <6>4
        <5> QED
          BY <5>1, <5>2
      <4> QED
        BY <1>2, <3>1, <4>2, <4>3
    <3> QED
      BY <3>2, <3>3
  \* If it is not lost, that is where both are cut.
  <2>9. ASSUME y # "lost"
        PROVE  /\ m + 1 \in 1 .. Len(f) /\ pos[m + 1] = b
               /\ \A j \in DOMAIN open : open[j].tag # "title" /\ Seen(open, j)
    <3>1. \A j \in DOMAIN open : open[j].tag # "title"
      BY <1>11, <1>16, <2>9 DEF Titles
    <3>2. \A j \in DOMAIN open : Seen(open, j)
      BY <1>2, <3>1 DEF Seen
    <3>3. PICK l \in DOMAIN w.foreignNS : pos[l] = b
      BY <1>5, <1>11, <2>9, <3>2 DEF Full
    <3>4. l \in 1 .. Len(f) /\ f[l].name = name
      BY <1>2, <1>3, <1>13, <3>3 DEF f
    <3>5. l <= m + 1 /\ m < Len(f)
      BY <2>7, <3>4
    <3>6. m + 1 \in 1 .. Len(f)
      BY <1>2, <2>7, <3>5
    <3>7. ~(l \in 1 .. m)
      BY <1>2, <2>8, <3>3
    <3>8. l = m + 1
      BY <1>2, <2>7, <3>4, <3>5, <3>7
    <3> QED
      BY <3>1, <3>2, <3>3, <3>6, <3>8
  <2>10. w.foreignObjectAt > 0 /\ w.foreignObjectAt <= m => p <= b - 1
    <3> SUFFICES ASSUME w.foreignObjectAt > 0, w.foreignObjectAt <= m PROVE p <= b - 1
      OBVIOUS
    <3>1. p \in 1 .. n /\ Point(open[p]) /\ p # b
      BY <1>5, <1>14
    <3>2. CASE y = "lost"
      BY <1>2, <1>7, <3>1, <3>2
    <3>3. CASE y # "lost"
      <4>1. m + 1 \in 1 .. Len(f) /\ pos[m + 1] = b /\ ~(m + 1 <= w.foreignObjectAt)
        BY <1>2, <2>7, <2>9, <3>3
      <4>2. ~(b < p)
        BY <1>14, <4>1
      <4> QED
        BY <1>2, <3>1, <4>2
    <3> QED
      BY <3>2, <3>3
  <2>11. s.foreignObjectAt = 0 \/ (s.foreignObjectAt = w.foreignObjectAt /\ p <= b - 1)
    BY <1>2, <2>7, <2>10
  <2>12. y # "lost" => \A k \in 1 .. Len(f) : pos[k] <= b - 1 => k <= m
    <3> SUFFICES ASSUME y # "lost", NEW k \in 1 .. Len(f), ~(k <= m) PROVE ~(pos[k] <= b - 1)
      OBVIOUS
    <3>1. m + 1 \in 1 .. Len(f) /\ pos[m + 1] = b
      BY <2>9
    <3>2. k = m + 1 \/ m + 1 < k
      BY <1>2, <2>7
    <3>3. pos[k] \in 1 .. n /\ (k = m + 1 \/ b < pos[k])
      BY <1>13, <3>1, <3>2
    <3> QED
      BY <1>2, <3>1, <3>3
  <2>13. ASSUME y # "lost" PROVE Titles(SubSeq(open, 1, b - 1), s)
    <3>1. Titles(open, w)
      BY <1>11, <2>13
    <3>2. s.rawText = w.rawText
      BY <1>1, <1>9, <1>16, <2>7 DEF Rewriters
    <3>3. s.swallowed.depth >= w.swallowed.depth
      BY <1>1, <1>16, <2>7 DEF Quiet
    <3> QED
      BY <1>1, <1>5, <1>9, <1>16, <3>1, <3>2, <3>3, CutTitles
  <2>14. ASSUME y = "clear", NEW j \in 1 .. b - 1, Point(open[j]), Seen(open, j), w.foreignObjectAt > 0
         PROVE  s.foreignObjectAt > 0
    <3> SUFFICES ASSUME ~(s.foreignObjectAt > 0) PROVE FALSE
      OBVIOUS
    <3>1. m < w.foreignObjectAt
      BY <1>2, <2>7, <2>14
    <3>2. m + 1 \in 1 .. Len(f) /\ pos[m + 1] = b /\ m + 1 <= w.foreignObjectAt
      BY <1>2, <2>7, <2>9, <2>14, <3>1
    <3>3. b < p /\ p \in DOMAIN open /\ Point(open[p])
      BY <1>2, <1>14, <2>14, <3>2
    <3>4. j \in 1 .. p - 1
      BY <1>2, <3>3
    <3>5. Clear(open, w) /\ NameOf(open[p].tag) \in Placed /\ Seen(open, p)
      BY <1>11, <2>9, <2>14, <3>3, PointsForeign
    <3> QED
      BY <2>14, <3>3, <3>4, <3>5 DEF Clear
  <2>15. y # "lost" =>
           /\ \A k \in 1 .. Len(w.foreignNS) : pos[k] <= b - 1 => k <= m
           /\ Titles(SubSeq(open, 1, b - 1), s)
    BY <2>12, <2>13 DEF f
  <2>16. y = "clear" =>
           \A j \in 1 .. b - 1 : Point(open[j]) /\ Seen(open, j) /\ w.foreignObjectAt > 0 =>
             s.foreignObjectAt > 0
    BY <2>14
  <2>17. /\ m \in 0 .. Len(w.foreignNS) /\ s.foreignNS = SubSeq(w.foreignNS, 1, m)
         /\ s.mathTextPoint = w.mathTextPoint /\ ~s.rawText
    BY <2>7 DEF f
  <2>18. Follows(SubSeq(open, 1, b - 1), s, y)
    BY <1>1, <1>5, <1>9, <1>10, <1>12, <2>8, <2>11, <2>15, <2>16, <2>17, CutFollows
  <2> QED
    BY <1>3, <2>18 DEF s
<1> QED
  BY <1>15, <1>16

-----------------------------------------------------------------------------
(* The two of them, a tag at a time, in a document whose tags are in place. *)

Tidy == ~Astray

Followed3 == {"clear", "blurred", "lost"}

LEMMA StartFollows ==
    ASSUME Sound(open, w, FALSE), NEW x \in Followed3, x = track, Follows(open, w, x),
           NEW tag \in Tags, NEW closed \in BOOLEAN, InPlace(tag),
           tag = "title" => ForeignRules(open, tag), NEW y, y = Led(tag, closed), y # "gone"
    PROVE  y \in Followed3 /\ Follows(OpenTag(open, tag, closed), StartTag(w, tag, closed), y)
<1> DEFINE titled == \E i \in DOMAIN open : open[i].tag = "title"
           waits  == tag = "title" /\ closed /\ ForeignRules(open, tag)
           blurs  == tag = "mglyph" \/ (~closed /\ NameOf(tag) \in Placed /\ Mixed(open))
<1>1. /\ x = "lost" => y = "lost" /\ ~waits
      /\ x \in {"clear", "blurred"} /\ titled =>
           y = IF tag = "title" /\ ~closed THEN "lost" ELSE x
      /\ x \in {"clear", "blurred"} /\ ~titled =>
           /\ ~waits
           /\ y = IF x = "blurred" /\ tag \in BreaksOut THEN "lost"
                  ELSE IF blurs THEN "blurred" ELSE x
  <2>1. CASE x = "lost"
    BY <2>1 DEF Led
  <2>2. CASE x \in {"clear", "blurred"} /\ titled
    <3>1. x # "gone" /\ x # "lost"
      BY <2>2
    <3>2. y = IF tag = "title" /\ ~closed THEN "lost" ELSE x
      BY <2>2, <3>1 DEF Led
    <3> QED
      BY <2>2, <3>1, <3>2
  <2>3. CASE x \in {"clear", "blurred"} /\ ~titled
    <3>1. x # "gone" /\ x # "lost"
      BY <2>3
    <3>2. y = IF waits THEN "gone"
              ELSE IF x = "blurred" /\ tag \in BreaksOut THEN "lost"
              ELSE IF blurs THEN "blurred" ELSE x
      BY <2>3, <3>1 DEF Led
    <3>3. ~waits
      BY <3>2
    <3> QED
      BY <2>3, <3>1, <3>2, <3>3
  <2> QED
    BY <2>1, <2>2, <2>3 DEF Followed3
<1> HIDE DEF waits, blurs
<1>2. y \in Followed3 /\ AtMost(x, y)
  BY <1>1 DEF Followed3, AtMost
<1>3. PICK pos, p, q : Beside(open, w, x, pos, p, q)
  BY DEF Follows
<1>4. /\ w.rawText => titled
      /\ x # "lost" => (w.rawText <=> titled)
  BY <1>3 DEF Beside, Held, Titles
<1> HIDE DEF titled
<1>5. CASE w.rawText
  <2>1. tag = "title" /\ ~closed => y = "lost"
    BY <1>1, <1>4, <1>5 DEF Followed3
  <2> QED
    BY <1>2, <1>5, <2>1, StartSwallows
<1>6. CASE ~w.rawText
  <2>0. x = "lost" \/ (x \in {"clear", "blurred"} /\ ~titled)
    BY <1>4, <1>6 DEF Followed3
  <2>1. CASE tag \in BreaksOut
    <3>1. y # "blurred"
      <4>1. ~blurs
        BY <2>1 DEF BreaksOut, NameOf, Placed, blurs
      <4> QED
        BY <1>1, <2>0, <2>1, <4>1
    <3> QED
      BY <1>2, <1>6, <2>1, <3>1, StartBreaks
  <2>2. CASE tag = "mglyph"
    <3>1. y # "clear"
      BY <1>1, <2>0, <2>2 DEF blurs
    <3> QED
      BY <1>2, <1>6, <2>2, <3>1, StartGlyph
  <2>3. CASE tag \in {"desc", "title", "mi", "annotation-xml", "annotation-html"} /\ ~closed
    <3>1. NameOf(tag) \in Placed
      BY <2>3 DEF NameOf, Placed
    <3>2. y = "clear" => ~Mixed(open)
      BY <1>1, <2>0, <2>3, <3>1 DEF blurs
    <3>3. ForeignRules(open, tag)
      BY <2>3 DEF InPlace
    <3>4. closed = FALSE
      BY <2>3
    <3> QED
      BY <1>2, <1>6, <2>3, <3>2, <3>3, <3>4, StartPoint
  <2>4. CASE tag \in {"svg", "math"} /\ ~closed
    <3>1. closed = FALSE
      BY <2>4
    <3> QED
      BY <1>2, <1>6, <2>4, <3>1, StartRoot
  <2>5. CASE tag = "g" \/ (closed /\ tag \notin BreaksOut /\ tag # "mglyph")
    <3>1. tag # "title"
      BY <1>1, <2>0, <2>5 DEF waits
    <3>2. tag \in Tags \ (BreaksOut \cup {"title", "mglyph"})
      BY <2>5, <3>1 DEF BreaksOut
    <3>3. tag # "g" => closed
      BY <2>5
    <3> QED
      BY <1>2, <1>6, <3>2, <3>3, StartOther
  <2> QED
    BY <2>1, <2>2, <2>3, <2>4, <2>5 DEF Tags, BreaksOut
<1> QED
  BY <1>5, <1>6

LEMMA EndFollows ==
    ASSUME Sound(open, w, FALSE), NEW x \in Followed3, Follows(open, w, x),
           NEW name \in Names, Closes(name),
           x = "lost" =>
             \A j \in Len(CloseTag(open, name)) + 2 .. Len(open) :
               ~Point(open[j]) /\ open[j].tag \notin {"svg", "math"}
    PROVE  Follows(CloseTag(open, name), EndTag(w, name), x)
<1>1. open \in Seq(Elements) /\ Nested(open)
  BY DEF Sound
<1>2. PICK i \in DOMAIN open :
        /\ NameOf(open[i].tag) = name
        /\ \/ i = Len(open)
           \/ /\ name \in {"svg", "math"}
              /\ \A j \in i .. Len(open) : open[j].ns # "html" /\ open[j].tag # "title"
  BY DEF Closes
<1>3. x \in {"clear", "blurred", "lost"}
  BY DEF Followed3
<1>4. CASE name \in {"svg", "math"}
  <2>1. open[i].tag = name
    BY <1>2, <1>4 DEF NameOf
  <2>2. Foreign(open[i]) /\ open[i].tag # "title"
    BY <1>1, <1>4, <2>1 DEF Nested, Root
  <2>3. \A j \in i .. Len(open) : Foreign(open[j]) /\ open[j].tag # "title"
    <3>1. CASE i = Len(open)
      <4>1. \A j \in i .. Len(open) : j = i
        BY <1>1, <3>1
      <4> QED
        BY <2>2, <4>1
    <3>2. CASE i # Len(open)
      BY <1>2, <3>2 DEF Foreign
    <3> QED
      BY <3>1, <3>2
  <2>4. x = "lost" =>
          \A j \in Len(CloseTag(open, name)) + 2 .. Len(open) : ~Point(open[j]) /\ ~Root(open[j])
    BY DEF Root
  <2> QED
    BY <1>3, <1>4, <2>1, <2>3, <2>4, EndRoot
<1>5. CASE name \notin {"svg", "math"}
  <2>1. i = Len(open) /\ open # <<>> /\ NameOf(open[Len(open)].tag) = name
    BY <1>1, <1>2, <1>5
  <2> QED
    BY <1>3, <1>5, <2>1, EndTop
<1> QED
  BY <1>4, <1>5

\* It is on its way again where what it lost is closed.
LEMMA FoundFollows ==
    ASSUME NEW o \in Seq(Elements), Nested(o), NEW r \in Rewriters, NEW x, Follows(o, r, x),
           \/ x = "lost" /\ \A i \in DOMAIN o : o[i].ns = "html"
           \/ x = "blurred" /\ ~Mixed(o)
    PROVE  Follows(o, r, "clear")
<1>1. CASE x = "lost" /\ \A i \in DOMAIN o : o[i].ns = "html"
  <2>1. \A i \in DOMAIN o : ~Foreign(o[i])
    BY <1>1 DEF Foreign
  <2>2. Empty(r) /\ ~r.rawText
    BY <2>1, NothingIn
  <2> QED
    BY <2>1, <2>2, NothingOpen
<1>2. CASE x = "blurred" /\ ~Mixed(o)
  <2>1. PICK pos, p, q : Beside(o, r, x, pos, p, q)
    BY DEF Follows
  <2>2. \A i \in DOMAIN o : ~Point(o[i])
    BY <1>2 DEF Mixed, Mixes
  <2>3. \A i \in DOMAIN o : \A j \in 1 .. i - 1 : j \in DOMAIN o
    OBVIOUS
  <2>4. Clear(o, r)
    BY <2>2, <2>3 DEF Clear
  <2>5. Beside(o, r, "clear", pos, p, q)
    BY <1>2, <2>1, <2>4 DEF Beside
  <2> QED
    BY <2>5 DEF Follows
<1> QED
  BY <1>1, <1>2

LEMMA QuietStart ==
    ASSUME NEW r \in Rewriters, Marked(r), Quiet(r), NEW tag, NEW closed \in BOOLEAN
    PROVE  Quiet(StartTag(r, tag, closed)) /\ (r.rawText => StartTag(r, tag, closed).rawText)
<1>1. CASE r.rawText
  <2>1. StartTag(r, tag, closed) = Swallow(r, tag)
    BY <1>1 DEF StartTag
  <2> QED
    BY <1>1, <2>1, SwallowSame DEF Quiet
<1>2. CASE ~r.rawText
  <2> DEFINE a == RawText(r, tag)
             b == BreakOut(a, tag)
             c == Glyph(b, tag)
             d == Enter(c, tag)
  <2>1. a \in Rewriters /\ Marked(a) /\ a.swallowed = r.swallowed
    <3>1. inForeignContent(r) \in BOOLEAN
      BY DEF inForeignContent
    <3>2. a \in Rewriters /\ a.swallowed = r.swallowed
      BY <3>1 DEF RawText, Rewriters
    <3>3. Marked(a)
      BY DEF RawText, Rewriters, Marked
    <3> QED
      BY <3>2, <3>3
  <2> HIDE DEF a
  <2>2. b \in Rewriters /\ Marked(b) /\ b.swallowed = a.swallowed
    <3>1. b = a \/ b = [a EXCEPT !.foreignNS = SubSeq(a.foreignNS, 1, a.foreignObjectAt)]
      BY DEF BreakOut
    <3>2. b.swallowed = a.swallowed
      BY <2>1, <3>1 DEF Rewriters
    <3> QED
      BY <2>1, <3>2, BreakOutKeeps
  <2> HIDE DEF b
  <2>3. c \in Rewriters /\ Marked(c) /\ c.swallowed = b.swallowed
    <3>1. c = b \/ c = [b EXCEPT !.foreignObjectAt = 0]
      BY DEF Glyph
    <3>2. c.swallowed = b.swallowed
      BY <2>2, <3>1 DEF Rewriters
    <3> QED
      BY <2>2, <3>2, GlyphKeeps
  <2> HIDE DEF c
  <2>4. d.swallowed = c.swallowed
    <3>1. \/ d = c
          \/ \E f : d = [c EXCEPT !.foreignNS = f]
          \/ \E n, v : d = [c EXCEPT !.foreignObjectAt = n, !.mathTextPoint = v]
      <4>1. c = [c EXCEPT !.mathTextPoint = c.mathTextPoint]
        BY <2>3 DEF Rewriters
      <4>2. CASE tag \in {"svg", "math"}
        BY <4>2 DEF Enter, integrationPointIn
      <4>3. CASE tag \notin {"svg", "math"}
        <5>1. \/ d = c
              \/ d = [c EXCEPT !.foreignObjectAt = Len(c.foreignNS)]
              \/ d = [c EXCEPT !.foreignObjectAt = Len(c.foreignNS), !.mathTextPoint = currentNS(c) = "math"]
          BY <4>3 DEF Enter
        <5>2. [c EXCEPT !.foreignObjectAt = Len(c.foreignNS)] =
                [c EXCEPT !.foreignObjectAt = Len(c.foreignNS), !.mathTextPoint = c.mathTextPoint]
          BY <2>3 DEF Rewriters
        <5> QED
          BY <5>1, <5>2
      <4> QED
        BY <4>2, <4>3
    <3> QED
      BY <2>3, <3>1 DEF Rewriters
  <2> HIDE DEF d
  <2>5. StartTag(r, tag, closed) = IF closed THEN c ELSE d
    BY <1>2 DEF StartTag, a, b, c, d
  <2>6. StartTag(r, tag, closed).swallowed = r.swallowed
    BY <2>1, <2>2, <2>3, <2>4, <2>5
  <2> QED
    BY <1>2, <2>6 DEF Quiet
<1> QED
  BY <1>1, <1>2

LEMMA QuietEnd ==
    ASSUME NEW r \in Rewriters, Marked(r), Quiet(r), NEW name
    PROVE  /\ Quiet(EndTag(r, name))
           /\ r.rawText /\ name # "title" =>
                /\ EndTag(r, name).rawText
                /\ EndTag(r, name).foreignNS = r.foreignNS
                /\ EndTag(r, name).foreignObjectAt = r.foreignObjectAt
           /\ name = "title" /\ Empty(r) => Empty(EndTag(r, name)) /\ ~EndTag(r, name).rawText
<1>1. CASE r.rawText /\ name # "title"
  <2>1. \E d : EndTag(r, name) = [r EXCEPT !.swallowed.depth = d]
    BY <1>1 DEF EndTag
  <2> QED
    BY <1>1, <2>1 DEF Quiet, Rewriters
<1>2. CASE ~(r.rawText /\ name # "title")
  <2> DEFINE t == [r EXCEPT !.rawText = FALSE, !.swallowed = NothingSwallowed]
             s == EndTag(r, name)
  <2>0. NothingSwallowed \in [depth : Int, rcdata : BOOLEAN] /\ NothingSwallowed.depth = 0
    BY DEF NothingSwallowed
  <2>1. t \in Rewriters
    BY <2>0 DEF Rewriters
  <2>2. Marked(t) /\ t.swallowed.depth = 0 /\ t.foreignNS = r.foreignNS
    BY <2>0 DEF Rewriters, Marked
  <2>3. s = IF name \in {"svg", "math"} THEN popForeign(t, name)
            ELSE IF name \in {"desc", "title", "mi", "annotation-xml"} THEN [t EXCEPT !.foreignObjectAt = 0]
            ELSE t
    BY <1>2 DEF EndTag
  <2> HIDE DEF t, s
  <2>4. s.swallowed.depth = 0
    <3>1. CASE name \in {"svg", "math"}
      BY <2>1, <2>2, <2>3, <3>1, PopCutsAt DEF Pops
    <3>2. CASE name \notin {"svg", "math"}
      BY <2>1, <2>2, <2>3, <3>2 DEF Rewriters
    <3> QED
      BY <3>1, <3>2
  <2>5. ASSUME name = "title", Empty(r) PROVE Empty(s) /\ ~s.rawText
    <3>1. s = [t EXCEPT !.foreignObjectAt = 0]
      BY <2>3, <2>5
    <3>2. ~t.rawText
      BY DEF t, Rewriters
    <3> QED
      BY <2>1, <2>2, <2>5, <3>1, <3>2 DEF Empty, Rewriters
  <2>6. Quiet(s)
    BY <2>4 DEF Quiet
  <2> QED
    BY <1>2, <2>5, <2>6 DEF s
<1> QED
  BY <1>1, <1>2

LEMMA SoundStart ==
    ASSUME Tidy, Sound(open, w, text), NEW tag \in Tags, NEW closed \in BOOLEAN, Start(tag, closed)
    PROVE  Sound(open', w', text')
<1>1. /\ open \in Seq(Elements) /\ text \in BOOLEAN /\ Nested(open)
      /\ w \in Rewriters /\ Marked(w) /\ Quiet(w)
      /\ text => w.rawText /\ \A i \in DOMAIN open : ~Foreign(open[i])
      /\ w' = StartTag(w, tag, closed) /\ (text \/ InPlace(tag))
  BY DEF Sound, Start, Tidy
<1>2. w' \in Rewriters /\ Marked(w') /\ Quiet(w') /\ (w.rawText => w'.rawText)
  BY <1>1, StartTagKeeps, QuietStart
<1>3. CASE text
  <2>1. open' = open /\ text' = text
    BY <1>3 DEF Start
  <2> QED
    BY <1>1, <1>2, <1>3, <2>1 DEF Sound
<1>4. CASE ~text /\ tag = "title" /\ ~ForeignRules(open, tag)
  <2>1. open' = open /\ text' = TRUE
    BY <1>4 DEF Start
  <2>2. \A i \in DOMAIN open : ~Foreign(open[i])
    BY <1>1, <1>4 DEF InPlace, Foreign
  <2>3. w'.rawText
    <3>1. CASE w.rawText
      BY <1>2, <3>1
    <3>2. CASE ~w.rawText
      <4> DEFINE r == RawText(w, tag)
      <4>1. r.rawText /\ r \in Rewriters
        <5>1. inForeignContent(w) \in BOOLEAN
          BY DEF inForeignContent
        <5> QED
          BY <1>1, <1>4, <5>1 DEF RawText, Rewriters
      <4> HIDE DEF r
      <4>2. Glyph(BreakOut(r, tag), tag) = r
        BY <1>4 DEF Glyph, BreakOut, BreaksOut
      <4>3. w' = IF closed THEN r ELSE Enter(r, tag)
        BY <1>1, <3>2, <4>2 DEF StartTag, r
      <4>4. \/ Enter(r, tag) = r
            \/ Enter(r, tag) = [r EXCEPT !.foreignObjectAt = Len(r.foreignNS)]
            \/ Enter(r, tag) = [r EXCEPT !.foreignObjectAt = Len(r.foreignNS), !.mathTextPoint = currentNS(r) = "math"]
        BY <1>4 DEF Enter
      <4> QED
        BY <4>1, <4>3, <4>4 DEF Rewriters
    <3> QED
      BY <3>1, <3>2
  <2> QED
    BY <1>1, <1>2, <2>1, <2>2, <2>3 DEF Sound
<1>5. CASE ~text /\ ~(tag = "title" /\ ~ForeignRules(open, tag))
  <2>1. open' = OpenTag(open, tag, closed) /\ text' = FALSE
    BY <1>1, <1>5 DEF Start
  <2>2. OpenTag(open, tag, closed) \in Seq(Elements) /\ Nested(OpenTag(open, tag, closed))
    <3>1. CASE tag \notin BreaksOut
      <4> DEFINE e == Element(tag, Space(tag))
      <4>1. /\ OpenTag(open, tag, closed) = open \/ OpenTag(open, tag, closed) = Append(open, e)
            /\ e \in Elements /\ Fits(open, e)
        BY <1>1, <1>5, <3>1, Opens
      <4> HIDE DEF e
      <4>2. Append(open, e) \in Seq(Elements) /\ Nested(Append(open, e))
        BY <1>1, <4>1, PushNested
      <4> QED
        BY <1>1, <4>1, <4>2
    <3>2. CASE tag \in BreaksOut
      <4> DEFINE e == Element("div", "html")
      <4>1. PICK c \in 0 .. Len(open) :
              /\ c > 0 => ~Foreign(open[c]) \/ Point(open[c])
              /\ OpenTag(open, tag, closed) \in {SubSeq(open, 1, c), Append(SubSeq(open, 1, c), e)}
        BY <1>1, <3>2, Breaks
      <4> DEFINE u == SubSeq(open, 1, c)
      <4>2. u \in Seq(Elements) /\ Nested(u) /\ Len(u) = c /\ (c > 0 => u[c] = open[c])
        BY <1>1, CutSame, CutNested
      <4>3. OpenTag(open, tag, closed) = u \/ OpenTag(open, tag, closed) = Append(u, e)
        BY <4>1
      <4>4. u = <<>> \/ ~Foreign(u[Len(u)]) \/ Point(u[Len(u)])
        BY <4>1, <4>2
      <4>5. e \in Elements /\ e.tag = "div" /\ e.ns = "html"
        BY DEF Element, Elements, Tags
      <4> HIDE DEF u, e
      <4>6. Fits(u, e)
        BY <4>4, <4>5 DEF Fits, Root, Foreign
      <4>7. Append(u, e) \in Seq(Elements) /\ Nested(Append(u, e))
        BY <4>2, <4>5, <4>6, PushNested
      <4> QED
        BY <4>2, <4>3, <4>7
    <3> QED
      BY <3>1, <3>2
  <2> QED
    BY <1>2, <2>1, <2>2 DEF Sound
<1> QED
  BY <1>3, <1>4, <1>5

LEMMA SoundEnd ==
    ASSUME Tidy, Sound(open, w, text), NEW name \in Names, End(name)
    PROVE  Sound(open', w', text')
<1>1. /\ open \in Seq(Elements) /\ text \in BOOLEAN /\ Nested(open)
      /\ w \in Rewriters /\ Marked(w) /\ Quiet(w)
      /\ text => w.rawText /\ \A i \in DOMAIN open : ~Foreign(open[i])
      /\ w' = EndTag(w, name) /\ (text \/ Closes(name))
  BY DEF Sound, End, Tidy
<1>2. w' \in Rewriters /\ Marked(w') /\ Quiet(w') /\ (w.rawText /\ name # "title" => w'.rawText)
  BY <1>1, EndTagKeeps, QuietEnd
<1>3. CASE text
  <2>1. open' = open /\ text' = (name # "title")
    BY <1>3 DEF End
  <2> QED
    BY <1>1, <1>2, <1>3, <2>1 DEF Sound
<1>4. CASE ~text
  <2>1. open' = CloseTag(open, name) /\ text' = FALSE
    BY <1>1, <1>4 DEF End
  <2>2. \E c \in 0 .. Len(open) : CloseTag(open, name) = SubSeq(open, 1, c)
    <3>1. PICK i \in DOMAIN open :
            /\ NameOf(open[i].tag) = name
            /\ \/ i = Len(open)
               \/ /\ name \in {"svg", "math"}
                  /\ \A j \in i .. Len(open) : open[j].ns # "html" /\ open[j].tag # "title"
      BY <1>1, <1>4 DEF Closes
    <3>2. Len(open) \in Nat /\ DOMAIN open = 1 .. Len(open)
      BY <1>1
    <3>3. CASE i = Len(open)
      <4>1. open # <<>> /\ CloseTag(open, name) = SubSeq(open, 1, Len(open) - 1)
        BY <1>1, <3>1, <3>3, ClosesTop
      <4>2. Len(open) - 1 \in 0 .. Len(open)
        BY <3>2, <3>3
      <4> QED
        BY <4>1, <4>2
    <3>4. CASE i # Len(open)
      <4>1. name \in {"svg", "math"} /\ \A j \in i .. Len(open) : Foreign(open[j])
        BY <3>1, <3>4 DEF Foreign
      <4>2. open[i].tag = name
        BY <3>1, <4>1 DEF NameOf
      <4>3. PICK b \in DOMAIN open : CloseTag(open, name) = SubSeq(open, 1, b - 1)
        BY <1>1, <4>1, <4>2, ClosesRoot
      <4>4. b - 1 \in 0 .. Len(open)
        BY <3>2
      <4> QED
        BY <4>3, <4>4
    <3> QED
      BY <3>3, <3>4
  <2>3. CloseTag(open, name) \in Seq(Elements) /\ Nested(CloseTag(open, name))
    BY <1>1, <2>2, CutSame, CutNested
  <2> QED
    BY <1>2, <2>1, <2>3 DEF Sound
<1> QED
  BY <1>3, <1>4

LEMMA FoundKeeps ==
    ASSUME Sound(open', w', text'), NEW x \in Followed3,
           ~text' => Follows(open', w', x)
    PROVE  /\ Found(x) \in Followed3
           /\ ~text' => Follows(open', w', Found(x))
<1>1. open' \in Seq(Elements) /\ Nested(open') /\ w' \in Rewriters
  BY DEF Sound
<1>2. CASE x = "lost" /\ \A i \in DOMAIN open' : open'[i].ns = "html"
  <2>1. Found(x) = "clear"
    BY <1>2 DEF Found
  <2>2. ~text' => Follows(open', w', "clear")
    BY <1>1, <1>2, FoundFollows
  <2> QED
    BY <2>1, <2>2 DEF Followed3
<1>3. CASE x = "blurred" /\ ~Mixed(open')
  <2>1. Found(x) = "clear"
    BY <1>3 DEF Found
  <2>2. ~text' => Follows(open', w', "clear")
    BY <1>1, <1>3, FoundFollows
  <2> QED
    BY <2>1, <2>2 DEF Followed3
<1>4. CASE /\ ~(x = "lost" /\ \A i \in DOMAIN open' : open'[i].ns = "html")
           /\ ~(x = "blurred" /\ ~Mixed(open'))
  <2>1. Found(x) = x
    BY <1>4 DEF Found
  <2> QED
    BY <2>1
<1> QED
  BY <1>2, <1>3, <1>4

LEMMA FoundGone ==
    Found("gone") = "gone"
BY DEF Found

LEMMA StartStep ==
    ASSUME Tidy, Side, NEW tag \in Tags, NEW closed \in BOOLEAN, Start(tag, closed)
    PROVE  Side'
<1>1. /\ Sound(open, w, text)
      /\ track \in {"clear", "blurred", "lost", "gone"}
      /\ track # "gone" => IF text THEN Empty(w) ELSE Follows(open, w, track)
      /\ w' = StartTag(w, tag, closed) /\ (text \/ InPlace(tag))
  BY DEF Side, Agree, Start, Tidy
<1>2. Sound(open', w', text')
  BY <1>1, SoundStart
<1>3. text \in BOOLEAN
  BY <1>1 DEF Sound
<1>4. CASE text
  <2>1. UNCHANGED <<open, text, track>>
    BY <1>4 DEF Start
  <2>2. Empty(w) => Empty(w')
    <3>1. w' = Swallow(w, tag) /\ w \in Rewriters
      BY <1>1, <1>4 DEF Sound, StartTag
    <3> QED
      BY <3>1, SwallowSame DEF Empty
  <2> QED
    BY <1>1, <1>2, <1>4, <2>1, <2>2 DEF Side, Agree
<1>5. CASE ~text
  <2> DEFINE y == Led(tag, closed)
  <2>1. Sound(open, w, FALSE) /\ track' = Found(y) /\ InPlace(tag)
    <3>1. text = FALSE
      BY <1>3, <1>5
    <3> QED
      BY <1>1, <1>5, <3>1 DEF Start
  <2> HIDE DEF y
  <2>2. CASE track = "gone"
    <3>1. track' = "gone"
      BY <2>1, <2>2, FoundGone DEF Led, y
    <3> QED
      BY <1>2, <3>1 DEF Side, Agree
  <2>3. CASE track # "gone" /\ y = "gone"
    BY <1>2, <2>1, <2>3, FoundGone DEF Side, Agree
  <2>4. CASE track # "gone" /\ y # "gone"
    <3>1. track \in Followed3 /\ Follows(open, w, track)
      BY <1>1, <1>5, <2>4 DEF Followed3
    <3>2. CASE tag = "title" /\ ~ForeignRules(open, tag)
      <4>1. open' = open /\ text' = TRUE
        BY <1>5, <3>2 DEF Start
      <4>2. \A i \in DOMAIN open : ~Foreign(open[i])
        BY <2>1, <3>2 DEF InPlace, Foreign
      <4>3. Empty(w')
        BY <1>1, <2>1, <3>1, <3>2, <4>2, PageTitle
      <4>4. y \in Followed3
        <5>1. \A i \in DOMAIN open : open[i].tag # "title"
          BY <2>1, <4>2, TitlesArePoints DEF Sound
        <5> QED
          BY <2>4, <3>1, <3>2, <5>1 DEF Led, y, Followed3
      <4>5. Found(y) \in Followed3
        BY <1>2, <4>1, <4>4, FoundKeeps
      <4> QED
        BY <1>2, <2>1, <4>1, <4>3, <4>5 DEF Side, Agree, Followed3
    <3>3. CASE tag = "title" => ForeignRules(open, tag)
      <4>1. open' = OpenTag(open, tag, closed) /\ text' = FALSE
        <5>1. UNCHANGED text
          BY <1>5, <3>3 DEF Start
        <5> QED
          BY <1>3, <1>5, <3>3, <5>1 DEF Start
      <4>2. y \in Followed3 /\ Follows(open', w', y)
        BY <1>1, <2>1, <2>4, <3>1, <3>3, <4>1, StartFollows DEF y
      <4>3. Found(y) \in Followed3 /\ Follows(open', w', Found(y))
        BY <1>2, <4>1, <4>2, FoundKeeps
      <4> QED
        BY <1>2, <2>1, <4>1, <4>3 DEF Side, Agree, Followed3
    <3> QED
      BY <3>2, <3>3
  <2> QED
    BY <2>2, <2>3, <2>4
<1> QED
  BY <1>4, <1>5

LEMMA EndStep ==
    ASSUME Tidy, Side, NEW name \in Names, End(name)
    PROVE  Side'
<1>1. /\ Sound(open, w, text) /\ Nested(open) /\ open \in Seq(Elements)
      /\ w \in Rewriters /\ Marked(w) /\ Quiet(w)
      /\ text \in BOOLEAN /\ (text => w.rawText /\ \A i \in DOMAIN open : ~Foreign(open[i]))
      /\ track \in {"clear", "blurred", "lost", "gone"}
      /\ track # "gone" => IF text THEN Empty(w) ELSE Follows(open, w, track)
      /\ w' = EndTag(w, name) /\ (text \/ Closes(name))
      /\ track' = IF track = "lost" /\ LeftOpen THEN "gone" ELSE Found(track)
  BY DEF Side, Agree, Sound, End, Tidy
<1>2. Sound(open', w', text')
  BY <1>1, SoundEnd
<1>3. CASE track' = "gone"
  BY <1>2, <1>3 DEF Side, Agree
<1>4. CASE track' # "gone"
  <2>1. track \in Followed3 /\ ~(track = "lost" /\ LeftOpen) /\ track' = Found(track)
    BY <1>1, <1>4, FoundGone DEF Followed3
  <2>2. ~text' => Follows(open', w', track)
    <3>1. CASE text /\ name # "title"
      BY <3>1 DEF End
    <3>2. CASE text /\ name = "title"
      <4>1. Empty(w') /\ ~w'.rawText /\ open' = open
        BY <1>1, <2>1, <3>2, QuietEnd DEF End, Followed3
      <4>2. w' \in Rewriters
        BY <1>2 DEF Sound
      <4> QED
        BY <1>1, <3>2, <4>1, <4>2, NothingOpen
    <3>3. CASE ~text
      <4>1. open' = CloseTag(open, name) /\ text = FALSE /\ Closes(name)
        BY <1>1, <3>3 DEF End
      <4>2. track = "lost" =>
              \A j \in Len(CloseTag(open, name)) + 2 .. Len(open) :
                ~Point(open[j]) /\ open[j].tag \notin {"svg", "math"}
        BY <2>1, <4>1 DEF LeftOpen
      <4>3. Sound(open, w, FALSE) /\ Follows(open, w, track)
        BY <1>1, <2>1, <4>1 DEF Followed3
      <4> QED
        BY <1>1, <2>1, <4>1, <4>2, <4>3, EndFollows
    <3> QED
      BY <3>1, <3>2, <3>3
  <2>3. Found(track) \in Followed3 /\ (~text' => Follows(open', w', Found(track)))
    BY <1>2, <2>1, <2>2, FoundKeeps
  <2>4. text' => Empty(w')
    <3> SUFFICES ASSUME text' PROVE Empty(w')
      OBVIOUS
    <3>1. text /\ name # "title"
      BY <1>1 DEF End
    <3> QED
      BY <1>1, <2>1, <3>1, QuietEnd DEF Empty, Followed3
  <2>5. text' \in BOOLEAN
    BY <1>2 DEF Sound
  <2> QED
    BY <1>2, <2>1, <2>3, <2>4, <2>5 DEF Side, Agree, Followed3
<1> QED
  BY <1>3, <1>4

\* What the browser has open and what the rewriter knows of it, for every document
\* whose tags are in place.
THEOREM SideBySide ==
    ASSUME Tidy
    PROVE  Spec => []Side
<1>1. Init => Side
  <2> SUFFICES ASSUME Init PROVE Side
    OBVIOUS
  <2>1. w \in Rewriters /\ Marked(w) /\ Quiet(w) /\ Empty(w) /\ ~w.rawText
    BY DEF Init, Rewriters, Marked, Quiet, Empty, NothingSwallowed
  <2>2. open \in Seq(Elements) /\ Nested(open) /\ DOMAIN open = {}
    BY DEF Init, Nested
  <2>3. Follows(open, w, "clear")
    BY <2>1, <2>2, NothingOpen
  <2> QED
    BY <2>1, <2>2, <2>3 DEF Init, Side, Agree, Sound
<1>2. Side /\ [Next]_vars => Side'
  <2> SUFFICES ASSUME Side, [Next]_vars PROVE Side'
    OBVIOUS
  <2>1. ASSUME NEW tag \in Starts, Start(tag, FALSE) PROVE Side'
    BY <2>1, StartStep, DocumentAssumption
  <2>2. ASSUME NEW tag \in Closed, Start(tag, TRUE) PROVE Side'
    BY <2>2, StartStep, DocumentAssumption
  <2>3. ASSUME NEW name \in Ends, End(name) PROVE Side'
    BY <2>3, EndStep, DocumentAssumption
  <2>4. CASE UNCHANGED vars
    <3>1. open' = open /\ w' = w /\ text' = text /\ track' = track
      BY <2>4 DEF vars
    <3>2. Agree(open, w, text, track)
      BY DEF Side
    <3>3. Agree(open', w', text', track')
      BY <3>1, <3>2
    <3> QED
      BY <3>3 DEF Side
  <2> QED
    BY <2>1, <2>2, <2>3, <2>4 DEF Next
<1> QED
  BY <1>1, <1>2, PTL DEF Spec

\* Where the browser reads what is not HTML a vocabulary is open, and the
\* rewriter knows of one that its mark does not cover.
LEMMA ForeignSeen ==
    ASSUME NEW o \in Seq(Elements), Nested(o), NEW r \in Rewriters, Marked(r),
           NEW pos \in [DOMAIN r.foreignNS -> DOMAIN o], NEW p \in Nat, NEW q \in Nat,
           Held(o, r, pos, p, q), Full(o, r, pos), \A i \in DOMAIN o : Seen(o, i),
           ForeignRules(o, "g")
    PROVE  inForeignContent(r)
<1> DEFINE n == Len(o)
           f == r.foreignNS
<1>1. /\ n \in Nat /\ DOMAIN o = 1 .. n /\ (o # <<>> <=> n # 0)
      /\ Len(f) \in Nat /\ DOMAIN f = 1 .. Len(f) /\ (f # <<>> <=> Len(f) # 0)
      /\ r.foreignObjectAt \in Nat
  BY DEF Rewriters
<1>2. n # 0 /\ Foreign(o[n]) /\ ~Point(o[n])
  <2>1. "g" # "mglyph"
    OBVIOUS
  <2> QED
    BY <1>1, <2>1, RulesAt DEF Point
<1>3. /\ r.foreignObjectAt > 0 =>
           /\ p \in DOMAIN o /\ Point(o[p])
           /\ \A k \in DOMAIN f : k <= r.foreignObjectAt <=> pos[k] < p
           /\ p < n => Root(o[p + 1]) \/ ~Foreign(o[p + 1])
  BY DEF Held
<1>4. \A i \in DOMAIN o : Root(o[i]) => \E k \in DOMAIN f : pos[k] = i
  BY DEF Full
<1> HIDE DEF f, n
<1>5. PICK a \in Nat : a = IF r.foreignObjectAt > 0 THEN p ELSE 0
  BY <1>1, <1>3
<1>6. a \in 0 .. n - 1 /\ (a > 0 => ~Foreign(o[a + 1]) \/ Root(o[a + 1]))
  <2>1. CASE r.foreignObjectAt > 0
    <3>1. p \in 1 .. n /\ p # n
      BY <1>1, <1>2, <1>3, <2>1
    <3> QED
      BY <1>1, <1>3, <1>5, <2>1, <3>1
  <2>2. CASE ~(r.foreignObjectAt > 0)
    BY <1>1, <1>2, <1>5, <2>2
  <2> QED
    BY <2>1, <2>2
<1>7. n \in DOMAIN o
  BY <1>1, <1>2
<1>8. PICK j \in a + 1 .. n : Root(o[j])
  BY <1>2, <1>6, <1>7, RootAbove
<1>9. j \in DOMAIN o /\ j > a
  BY <1>1, <1>5, <1>8
<1>10. PICK k \in DOMAIN f : pos[k] = j
  BY <1>4, <1>8, <1>9
<1>11. f # <<>>
  BY <1>1, <1>10
<1>12. r.foreignObjectAt > 0 => k > r.foreignObjectAt
  <2> SUFFICES ASSUME r.foreignObjectAt > 0 PROVE k > r.foreignObjectAt
    OBVIOUS
  <2>1. ~(pos[k] < p)
    BY <1>1, <1>3, <1>5, <1>9, <1>10
  <2>2. ~(k <= r.foreignObjectAt)
    BY <1>3, <1>10, <2>1
  <2> QED
    BY <1>1, <1>10, <2>2
<1>13. r.foreignObjectAt = 0 \/ Len(f) > r.foreignObjectAt
  BY <1>1, <1>10, <1>12
<1> QED
  BY <1>11, <1>13 DEF inForeignContent, f

\* In a title of svg it knows of one by counting what is in the text.
LEMMA TitleCounts ==
    ASSUME NEW o \in Seq(Elements), Nested(o), NEW r \in Rewriters,
           NEW q \in DOMAIN o, o[q].tag = "title", r.swallowed.depth >= Cardinality(Unseen(o)),
           ForeignRules(o, "g")
    PROVE  r.swallowed.depth > 0
<1> DEFINE n == Len(o)
<1>1. n \in Nat /\ DOMAIN o = 1 .. n /\ (o # <<>> <=> n # 0) /\ q \in 1 .. n
  OBVIOUS
<1>2. n # 0 /\ Foreign(o[n]) /\ ~Point(o[n])
  <2>1. "g" # "mglyph"
    OBVIOUS
  <2> QED
    BY <1>1, <2>1, RulesAt DEF Point
<1>3. Point(o[q]) /\ HtmlPoint(o[q])
  BY TitlesArePoints
<1> HIDE DEF n
<1>4. q # n /\ q + 1 \in DOMAIN o /\ q \in 0 .. n - 1 /\ n \in DOMAIN o
  BY <1>1, <1>2, <1>3
<1>5. ~Foreign(o[q + 1]) \/ Root(o[q + 1])
  <2> SUFFICES ASSUME Foreign(o[q + 1]), ~Root(o[q + 1]) PROVE FALSE
    OBVIOUS
  <2>1. PICK k \in DOMAIN o : k = q + 1
    BY <1>4
  <2>2. k - 1 = q
    BY <1>1, <2>1
  <2>3. ~HtmlPoint(o[k - 1])
    BY <2>1 DEF Nested
  <2> QED
    BY <1>3, <2>2, <2>3
<1>6. PICK j \in q + 1 .. n : Root(o[j])
  BY <1>2, <1>4, <1>5, RootAbove
<1>7. j \in DOMAIN o /\ q \in 1 .. j - 1
  BY <1>1, <1>6
<1>8. j \in Unseen(o)
  BY <1>6, <1>7 DEF Unseen, Seen
<1>9. IsFiniteSet(Unseen(o)) /\ Cardinality(Unseen(o)) \in Nat
  BY UnseenFinite
<1>10. Cardinality(Unseen(o)) # 0
  BY <1>8, <1>9, FS_EmptySet
<1>11. r.swallowed.depth \in Int
  BY DEF Rewriters
<1> QED
  BY <1>9, <1>10, <1>11

LEMMA ResolvesSeen ==
    ASSUME Side
    PROVE  WithholdsOnlyLost
<1> SUFFICES ASSUME track \in {"clear", "blurred"}, Resolves, NEW el \in {"script", "style"}
             PROVE  Decodes(w, el)
  BY DEF WithholdsOnlyLost, NeverWithholds, Side, Agree
<1>1. /\ Sound(open, w, text)
      /\ IF text THEN Empty(w) ELSE Follows(open, w, track)
  BY DEF Side, Agree
<1>2. open \in Seq(Elements) /\ Nested(open) /\ w \in Rewriters /\ Marked(w)
  BY <1>1 DEF Sound
<1>3. CASE text
  <2>1. w.rawText /\ currentNS(w) = ""
    BY <1>1, <1>3 DEF Sound, Empty, currentNS
  <2>2. ~StyleInTitle(w)
    BY <2>1 DEF StyleInTitle, integrationPointIn
  <2> QED
    BY <2>1, <2>2 DEF Decodes
<1>4. CASE ~text
  <2>1. ForeignRules(open, "g")
    BY <1>4 DEF Resolves
  <2>2. PICK pos, p, q : Beside(open, w, track, pos, p, q)
    BY <1>1, <1>4 DEF Follows
  <2>3. /\ pos \in [DOMAIN w.foreignNS -> DOMAIN open] /\ p \in Nat /\ q \in Nat
        /\ Held(open, w, pos, p, q) /\ Full(open, w, pos) /\ Titles(open, w)
    BY <2>2 DEF Beside
  <2>4. CASE ~w.rawText
    <3>1. \A i \in DOMAIN open : open[i].tag # "title"
      BY <2>3, <2>4 DEF Titles
    <3>2. \A i \in DOMAIN open : \A j \in 1 .. i - 1 : j \in DOMAIN open
      BY <1>2
    <3>3. \A i \in DOMAIN open : Seen(open, i)
      BY <3>1, <3>2 DEF Seen
    <3>4. inForeignContent(w)
      BY <1>2, <2>1, <2>3, <3>3, ForeignSeen
    <3> QED
      BY <3>4 DEF Decodes
  <2>5. CASE w.rawText
    <3>1. PICK i \in DOMAIN open : open[i].tag = "title"
      BY <2>3, <2>5 DEF Titles
    <3>2. w.swallowed.depth >= Cardinality(Unseen(open))
      BY <2>3, <2>5 DEF Titles
    <3>3. w.swallowed.depth > 0
      BY <1>2, <2>1, <3>1, <3>2, TitleCounts
    <3> QED
      BY <2>5, <3>3 DEF Decodes
  <2> QED
    BY <2>4, <2>5
<1> QED
  BY <1>3, <1>4

LEMMA OnlyWhatIsForeign ==
    ASSUME Side
    PROVE  OnlyWhatResolves
<1> SUFFICES ASSUME track = "clear", ~w.rawText, inForeignContent(w), ~text, ~ForeignRules(open, "g")
             PROVE  FALSE
  BY DEF OnlyWhatResolves, Resolves
<1> DEFINE n == Len(open)
           m == Len(w.foreignNS)
<1>1. /\ Sound(open, w, text) /\ Follows(open, w, track)
  BY DEF Side, Agree
<1>2. open \in Seq(Elements) /\ Nested(open) /\ w \in Rewriters /\ Marked(w)
  BY <1>1 DEF Sound
<1>3. PICK pos, p, q : Beside(open, w, track, pos, p, q)
  BY <1>1 DEF Follows
<1>4. /\ pos \in [DOMAIN w.foreignNS -> DOMAIN open]
      /\ Held(open, w, pos, p, q) /\ Titles(open, w) /\ Clear(open, w)
  BY <1>3 DEF Beside
<1>5. \A i \in DOMAIN open : open[i].tag # "title"
  BY <1>4 DEF Titles
<1>6. /\ n \in Nat /\ DOMAIN open = 1 .. n /\ (open # <<>> <=> n # 0)
      /\ m \in Nat /\ DOMAIN w.foreignNS = 1 .. m /\ w.foreignObjectAt \in Nat
      /\ m # 0 /\ (w.foreignObjectAt = 0 \/ m > w.foreignObjectAt)
  BY <1>2 DEF Rewriters, inForeignContent
<1>7. pos[m] \in DOMAIN open /\ m \in DOMAIN w.foreignNS
  BY <1>4, <1>6
<1>8. n > 0 => ~Foreign(open[n]) \/ Point(open[n])
  BY <1>2, <1>6, RulesAt DEF Point
<1>9. n \in 0 .. Len(open) /\ pos[m] <= n
  BY <1>6, <1>7
<1> HIDE DEF n, m
<1>10. m <= w.foreignObjectAt
  BY <1>2, <1>4, <1>5, <1>7, <1>8, <1>9, AtMark
<1> QED
  BY <1>6, <1>10

LEMMA NothingLeft ==
    ASSUME Side
    PROVE  NothingLeftBehind
<1> SUFFICES ASSUME track # "gone", open = <<>>, ~text PROVE Empty(w)
  BY DEF NothingLeftBehind, Empty
<1>1. Sound(open, w, text) /\ Follows(open, w, track)
  BY DEF Side, Agree
<1>2. \A i \in DOMAIN open : ~Foreign(open[i])
  OBVIOUS
<1> QED
  BY <1>1, <1>2, NothingIn DEF Sound

\* On every valid document, however long and however deep, a script or a style
\* that the browser decodes the references of is decoded by the rewriter too
\* (HTML.inForeignContent and openForeignBefore), but while the rewriter is lost.
THEOREM WithholdsNothing ==
    ASSUME Tidy
    PROVE  Spec => []WithholdsOnlyLost
BY SideBySide, ResolvesSeen, PTL

\* And while it sees clearly nothing else is decoded, but the text of a title.
THEOREM DecodesNothingElse ==
    ASSUME Tidy
    PROVE  Spec => []OnlyWhatResolves
BY SideBySide, OnlyWhatIsForeign, PTL

\* Lost or not, once all is closed the rewriter's stack is empty and its mark is
\* gone (HTML.popForeign, and the end tags that clear foreignObjectAt), unless a
\* title that closed itself, or what was left open, is still waited for.
THEOREM LeavesNothing ==
    ASSUME Tidy
    PROVE  Spec => []NothingLeftBehind
BY SideBySide, NothingLeft, PTL
=============================================================================
