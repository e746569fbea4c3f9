----------------------------- MODULE Serialized -----------------------------
(***************************************************************************)
(* The PHP-serialized repair of internal/rewrite/serialized.go: a host     *)
(* rewritten inside a serialized string changes how many bytes the string  *)
(* has, so the length prefix in front of it has to change with it, in      *)
(* whatever spelling the value travels.                                    *)
(*                                                                         *)
(* The module follows one row of the shared database through a view and a  *)
(* save.  The application writes the row into a page under some layers of  *)
(* escaping; the proxy rewrites the page; an editor reads the value, posts *)
(* it back under other layers; the proxy rewrites the request; the         *)
(* application decodes it and stores it.                                   *)
(***************************************************************************)
EXTENDS SerializedText

CONSTANTS
    Rows,               \* the values a row may hold
    Pages,              \* how a page carries a value: [layers, before, after], and
                        \* whether it fills its field and its spelling is read
    Posts,              \* how an editor sends it back: [layers, form]
    maxSerializedDepth  \* how deep a value may nest before it is left alone

ASSUME DepthAssumption == maxSerializedDepth \in Nat

VARIABLES
    row,    \* the value the row was created with
    db,     \* the row's bytes in the shared database
    page,   \* the page the value is on, or NoPage
    text,   \* the value as the page or the editor holds it
    phase,  \* "idle", "served" or "held"
    stale   \* history: an editor took the value, an http mention in it, off a
            \* page that had left its lengths alone

vars == <<row, db, page, text, phase, stale>>

NoPage == [layers |-> <<>>, before |-> <<>>, after |-> <<>>,
           fills |-> FALSE, read |-> FALSE]

-----------------------------------------------------------------------------
(* The rewriter the repair is wrapped around: every host, in the escaping   *)
(* it stands in.  The variant is longer by the port, and under percent      *)
(* encoding the port's colon is three bytes for the one it decodes to.      *)
(* Either scheme goes out as the variant's origin, and that comes back as   *)
(* the declared one, over https: an http mention returns a byte longer.     *)
Rewrite(dir, b) ==
    CASE dir = "forward" ->
           FlattenSeq([i \in DOMAIN b |-> CASE b[i] \in {"g", "h"}   -> <<"v", ":">>
                                            [] b[i] \in {"%g", "%h"} -> <<"%v", "%:">>
                                            [] OTHER                 -> <<b[i]>>])
      [] dir = "reverse" ->
           FoldLeft(LAMBDA acc, t :
                        CASE t = ":"  /\ acc # <<>> /\ Last(acc) = "v"  -> Append(Front(acc), "h")
                          [] t = "%:" /\ acc # <<>> /\ Last(acc) = "%v" -> Append(Front(acc), "%h")
                          [] OTHER -> Append(acc, t),
                    <<>>, b)
      [] dir = "none" -> b

-----------------------------------------------------------------------------
(* The nine spellings a value is read in.  quotes: what spells a quote of   *)
(* the value; marks: what may precede its other delimiters, and writes what *)
(* a repaired container puts there; exact: its length has one reading only; *)
(* written: its first reading counts a reference as it is written.          *)
Syntax(name, quotes, marks, writes) ==
    [name |-> name, quotes |-> quotes, marks |-> marks, writes |-> writes,
     exact |-> FALSE, written |-> FALSE]

HexQuote == <<"\\", "u22">>

LiteralSyntax  == [Syntax("literal", {<<"\"">>}, {""}, "") EXCEPT !.exact = TRUE]
PercentSyntax  == [Syntax("percent", {<<"%\"">>}, {"%"}, "%") EXCEPT !.exact = TRUE]
HTMLSyntax     == [Syntax("html", {<<"&quot;">>}, {""}, "") EXCEPT !.written = TRUE]
JSONSyntax     == [Syntax("json", {<<"\\", "\"">>, HexQuote}, {""}, "") EXCEPT !.exact = TRUE]
JSONHTMLSyntax ==
    [Syntax("jsonHTML", {<<"\\", "&quot;">>, HexQuote}, {""}, "") EXCEPT !.written = TRUE]
PercentHTMLSyntax == Syntax("percentHTML", {<<"&quot;">>, <<"%&quot;">>}, {"%"}, "%")
PercentJSONSyntax ==
    Syntax("percentJSON", {<<s, q>> : s \in {"\\", "%\\"}, q \in {"\"", "%\""}}, {"", "%"}, "%")
HTMLJSONSyntax   == Syntax("htmlJSON", {<<"&quot;">>}, {""}, "")
JSONDoubleSyntax == Syntax("jsonDouble", {<<"\\", "\\", "\\", "\"">>}, {""}, "")

\* In the order they are tried.
Spellings == <<LiteralSyntax, PercentSyntax, HTMLSyntax, JSONSyntax, JSONHTMLSyntax,
               PercentHTMLSyntax, PercentJSONSyntax, HTMLJSONSyntax, JSONDoubleSyntax>>

At(b, i, s) == i >= 1 /\ i + Len(s) - 1 <= Len(b) /\ SubSeq(b, i, i + Len(s) - 1) = s
In(b, i, S) == i \in DOMAIN b /\ b[i] \in S

\* How many tokens at i stand for the delimiter c in the spelling; 0: none.
Match(syn, b, i, c) ==
    IF c = "\"" THEN Max({0} \cup {Len(q) : q \in {s \in syn.quotes : At(b, i, s)}})
    ELSE IF In(b, i, {m \o c : m \in syn.marks}) THEN 1 ELSE 0

Emit(syn, c) == <<syn.writes \o c>>

-----------------------------------------------------------------------------
(* A unit: so many tokens and what they decode to, or, where they are a     *)
(* character reference, also the reference as it is written.                *)
Unit(src, t) == [src |-> src, dec |-> t, alt |-> t]
Reference(t) == [src |-> 1, dec |-> "&", alt |-> t]
NoUnit       == Unit(0, " ")

\* A backslash and what it escapes.
EscapeUnit(b, i) ==
    CASE i = Len(b)                    -> NoUnit
      [] In(b, i + 1, DOMAIN Unescape) -> Unit(2, Unescape[b[i + 1]])
      [] OTHER                         -> Unit(2, b[i + 1])

LiteralUnit(b, i) == Unit(1, b[i])

\* A token with one layer of percent encoding taken off.
PctByte(b, i) == IF b[i] = "+" THEN "+" ELSE FormDecode(<<b[i]>>)[1]

PercentUnit(b, i) == LiteralUnit(<<PctByte(b, i)>>, 1)

HTMLUnit(b, i) ==
    CASE b[i] = "&quot;" -> Unit(1, "\"")
      [] b[i] = "&amp;"  -> Reference(b[i])
      [] OTHER           -> LiteralUnit(b, i)

JSONUnit(b, i) ==
    IF b[i] = "\\" /\ i < Len(b) THEN EscapeUnit(b, i) ELSE LiteralUnit(b, i)

JSONHTMLUnit(b, i) ==
    CASE At(b, i, <<"\\", "&quot;">>) -> Unit(2, "\"")
      [] b[i] = "\\"                  -> EscapeUnit(b, i)
      [] b[i] \in Refs                -> Reference(b[i])
      [] OTHER                        -> LiteralUnit(b, i)

PercentHTMLUnit(b, i) == HTMLUnit(<<PctByte(b, i)>>, 1)

PercentJSONUnit(b, i) ==
    IF PctByte(b, i) = "\\" THEN EscapeUnit([k \in DOMAIN b |-> PctByte(b, k)], i)
    ELSE PercentUnit(b, i)

HTMLJSONUnit(b, i) == IF b[i] = "\\" THEN EscapeUnit(b, i) ELSE HTMLUnit(b, i)

\* Every escape of the inner encoder, escaped again by the outer one.
JSONDoubleUnit(b, i) ==
    CASE At(b, i, <<"\\", "\\", "\\">>) ->
           IF i + 3 > Len(b) THEN NoUnit ELSE Unit(4, b[i + 3])
      [] ~At(b, i, <<"\\", "\\">>) -> LiteralUnit(b, i)
      [] In(b, i + 2, DOMAIN Unescape) -> Unit(3, Unescape[b[i + 2]])
      [] OTHER -> Unit(2, "\\")

Decoded(syn, b, i) ==
    CASE syn.name = "literal"     -> LiteralUnit(b, i)
      [] syn.name = "percent"     -> PercentUnit(b, i)
      [] syn.name = "html"        -> HTMLUnit(b, i)
      [] syn.name = "json"        -> JSONUnit(b, i)
      [] syn.name = "jsonHTML"    -> JSONHTMLUnit(b, i)
      [] syn.name = "percentHTML" -> PercentHTMLUnit(b, i)
      [] syn.name = "percentJSON" -> PercentJSONUnit(b, i)
      [] syn.name = "htmlJSON"    -> HTMLJSONUnit(b, i)
      [] syn.name = "jsonDouble"  -> JSONDoubleUnit(b, i)

\* The unit at i, in bytes.
Measured(u) == [src |-> u.src, dec |-> Width[u.dec], alt |-> Width[u.alt]]
UnitAt(syn, b, i) == Measured(Decoded(syn, b, i))

Reading(syn, u) == IF syn.written THEN u.alt ELSE u.dec

\* Where n decoded bytes from i end; 0: nowhere.
RECURSIVE Advance(_, _, _, _)
Advance(syn, b, i, n) ==
    LET Past(u) == IF u.src = 0 THEN 0 ELSE Advance(syn, b, i + u.src, n - Reading(syn, u))
    IN  IF n = 0 THEN i
        ELSE IF n < 0 \/ i > Len(b) THEN 0
        ELSE Past(UnitAt(syn, b, i))

\* Where they may end when every reference may be read both ways.
RECURSIVE AdvanceReadings(_, _, _, _)
AdvanceReadings(syn, b, i, n) ==
    LET Past(u) ==
            IF u.src = 0 THEN {}
            ELSE UNION {AdvanceReadings(syn, b, i + u.src, n - d) : d \in {u.dec, u.alt}}
    IN  IF n = 0 THEN {i}
        ELSE IF n < 0 \/ i > Len(b) THEN {}
        ELSE Past(UnitAt(syn, b, i))

RECURSIVE UnitLen(_, _, _)
UnitLen(syn, b, i) ==
    LET Count(u) ==
            IF u.src = 0 THEN 1 + UnitLen(syn, b, i + 1) ELSE u.dec + UnitLen(syn, b, i + u.src)
    IN  IF i > Len(b) THEN 0 ELSE Count(UnitAt(syn, b, i))

\* Bug: the difference in the bytes of the page, not in those they decode to.
EmitSourceDelta(syn, n, data, repaired) ==
    IF syn.exact THEN UnitLen(syn, repaired, 1)
    ELSE n + ByteLen(repaired) - ByteLen(data)

\* The length to declare for repaired, where data was declared as n.
EmitLen(syn, n, data, repaired) ==
    UnitLen(syn, repaired, 1) + (IF syn.exact THEN 0 ELSE n - UnitLen(syn, data, 1))

-----------------------------------------------------------------------------
(* Spans: where the data of a string, or of a C: payload, ends.             *)
Closes(syn, b, e, closer) ==
    LET w == Match(syn, b, e, Head(closer))
    IN w > 0 /\ (Len(closer) = 1 \/ Match(syn, b, e + w, closer[2]) > 0)

\* More than one reading may close; pick says which one to take, and tie
\* that there was one to make.
SpanEnd(syn, b, at, n, closer, pick) ==
    LET Closing(S) == {e \in S \ {0} : Closes(syn, b, e, closer)}
        Unreferenced(e) == syn.exact \/ \A k \in at..(e - 1) : b[k] \notin Refs \cup {"&"}
        Picked(closers) ==
            IF closers = {} THEN [e |-> 0, tie |-> FALSE]
            ELSE [e |-> IF pick = "last" THEN Max(closers) ELSE Min(closers),
                  tie |-> Cardinality(closers) > 1]
        Found(plain, read) == Picked(IF plain # {} \/ syn.exact THEN plain ELSE read)
    IN  Found({e \in Closing({Advance(syn, b, at, n)}) : Unreferenced(e)},
              Closing(AdvanceReadings(syn, b, at, n)))

-----------------------------------------------------------------------------
(* The grammar.  A parse result: whether the value parses, what replaces    *)
(* it, where it ends, and whether a span in it had a tie to break.          *)
Fail(tie)           == [ok |-> FALSE, out |-> <<>>, end |-> 0, tie |-> tie]
Parsed(out, end, tie) == [ok |-> TRUE, out |-> out, end |-> end, tie |-> tie]

\* Where the run of digits at i ends.
DigitsEnd(b, i) ==
    Min({j \in i..(Len(b) + 1) : j > Len(b) \/ b[j] \notin Digits})

Atoi(ds) == FoldLeft(LAMBDA n, d : 10 * n + (CHOOSE k \in 0..9 : ToString(k) = d), 0, ds)

\* The ":<digits>:" of a length or an arity; at is 0 when there is none.
LengthOf(b, i, start, j, w, n) ==
    [first |-> start, last |-> j] @@
        (IF start = i \/ j = start \/ w = 0 \/ n > ByteLen(b) THEN [n |-> 0, at |-> 0]
         ELSE [n |-> n, at |-> j + w])

LengthTo(syn, b, i, start, j) ==
    LengthOf(b, i, start, j, Match(syn, b, j, ":"), Atoi(SubSeq(b, start, j - 1)))

LengthFrom(syn, b, i, start) == LengthTo(syn, b, i, start, DigitsEnd(b, start))

ReadLen(syn, b, i) == LengthFrom(syn, b, i, i + Match(syn, b, i, ":"))

\* What valueShape and valuePosition ask: a type letter with its separator, and a byte
\* before it that may stand before a value.
Separators == {"{", ";", "\"", "=", "&", ":", ">", "[", "+", " "}
EndsInSemicolon == Refs \cup {"%&quot;", "%&amp;", "quot;", "amp;"}

ValueShape(b, i) ==
    \/ b[i] = "N" /\ In(b, i + 1, {";", "%;"})
    \/ b[i] \in {"s", "a", "i", "O", "C", "E"} /\ In(b, i + 1, {":", "%:"})

ValuePosition(b, i) ==
    i = 1 \/ b[i - 1] \in Separators \cup {"%" \o c : c \in Separators} \cup EndsInSemicolon

\* A length or an arity, and where what it counts begins; from is 0 when no
\* delimiter c opens that.
Header(syn, b, i, c) ==
    LET Opened(L, q) == [n |-> L.n, first |-> L.first, last |-> L.last,
                         from |-> IF q = 0 THEN 0 ELSE L.at + q]
        Read(L) == Opened(L, Match(syn, b, L.at, c))
    IN  Read(ReadLen(syn, b, i))

\* And where that ends, before and after what closes it; to is 0 for nowhere.
Span(syn, b, H, closer, pick) ==
    LET Past(e, c) == e + Match(syn, b, e, c)
        Ended(S) == H @@ [to |-> S.e, tie |-> S.tie,
                          end |-> IF Len(closer) = 1 THEN Past(S.e, closer[1])
                                  ELSE Past(Past(S.e, closer[1]), closer[2])]
    IN  Ended(IF H.from = 0 THEN [e |-> 0, tie |-> FALSE]
              ELSE SpanEnd(syn, b, H.from, H.n, closer, pick))

StringSpan(syn, b, i, pick) ==
    Span(syn, b, Header(syn, b, i + 1, "\""), <<"\"", ";">>, pick)

ScanScalar(syn, b, i) ==
    LET Scalar(start, j, w) ==
            IF start = i + 1 \/ j = start \/ w = 0 THEN Fail(FALSE)
            ELSE Parsed(SubSeq(b, i, j + w - 1), j + w, FALSE)
        To(start, j) == Scalar(start, j, Match(syn, b, j, ";"))
        From(start)  == To(start, DigitsEnd(b, start))
    IN  From(i + 1 + Match(syn, b, i + 1, ":"))

RECURSIVE Value(_, _, _, _, _, _)
RECURSIVE Values(_, _, _, _, _, _, _)
RECURSIVE Nested(_, _, _, _, _, _)

\* A value under one spelling, and whether its header committed: a length (or
\* an arity) and the delimiter that opens what it counts.
ValueC(dir, syn, pick, depth, b, i) ==
    LET Opens(L) == /\ b[i] \in {"s", "a", "O", "C", "E"}
                    /\ L.at > 0
                    /\ Match(syn, b, L.at, IF b[i] = "a" THEN "{" ELSE "\"") > 0
    IN  Value(dir, syn, pick, depth, b, i) @@ [committed |-> Opens(ReadLen(syn, b, i + 1))]

\* What is asked of a parse at the top of a buffer, where inside a string
\* nothing is: that the value fills the field it is in, or, glued to a letter,
\* that only blanks follow.
Spaces == {" ", "+"}     \* a blank, raw and as a form sends it

OnlySpaceAfter(b, end) == \A i \in end..Len(b) : b[i] \in Spaces

\* The position the field's leading white space starts at.
FieldStart(b, start) ==
    Max({k \in 1..start : k = 1 \/ b[k - 1] \notin Spaces})

\* What closes a field opened by the token: a set of tokens, {} for none, or
\* the end of the buffer for a field of its own.
OwnOpeners == {"&", "=", "%&", "%="}

CloserOf(t) ==
    CASE t \in OwnOpeners -> {"&", "&quot;", "&amp;"}
      [] t = "%\""   -> {"%\""}
      [] t = "\""    -> {"\""}
      [] t = ">"     -> {"<"}
      [] t = "["     -> {"]"}
      [] t = "&quot;" -> {"&quot;"}
      [] OTHER       -> {}

\* Bug: any parse is believed, whatever it leaves over.
OccupiesAnyField(b, start, end) == TRUE

OccupiesItsField(b, start, end) ==
    LET k      == FieldStart(b, start)
        own    == k = 1 \/ b[k - 1] \in OwnOpeners
        closer == IF k = 1 THEN CloserOf("&") ELSE CloserOf(b[k - 1])
        space  == IF own THEN Spaces ELSE {" "}
        rest   == {i \in end..Len(b) : b[i] \notin space}
    IN  /\ closer # {}
        /\ IF rest = {} THEN own ELSE b[Min(rest)] \in closer

FieldHolds(field, b, i, end) ==
    CASE field = "none"     -> TRUE
      [] field = "space"    -> OnlySpaceAfter(b, end)
      [] field = "occupies" -> OccupiesItsField(b, i, end)

\* Both readings where there was a tie: the answer is kept when they agree or
\* when only one of them parses in its field; otherwise it is ambiguous.
TryBothPicks(dir, syn, depth, b, i, field) ==
    LET InField(r) == [r EXCEPT !.ok = @ /\ FieldHolds(field, b, i, r.end)]
        Settle(r1, r2) ==
            LET differ == r1.ok /\ r2.ok /\ (r1.end # r2.end \/ r1.out # r2.out)
            IN  [IF r1.ok THEN r1 ELSE r2 EXCEPT !.ok = @ /\ ~differ,
                                                 !.committed = r1.committed \/ r2.committed]
                @@ [ambiguous |-> differ]
        Both(r1, r2) == IF ~r1.tie THEN r1 @@ [ambiguous |-> FALSE] ELSE Settle(r1, r2)
    IN  Both(InField(ValueC(dir, syn, "first", depth, b, i)),
             InField(ValueC(dir, syn, "last", depth, b, i)))

\* What a walk keeps: what is rewritten so far, and where the rest begins.
Rest(dir, b, acc) == [acc EXCEPT !.out = @ \o Rewrite(dir, SubSeq(b, acc.prev, Len(b)))]
Taken(dir, b, i, r, acc) ==
    [out |-> acc.out \o Rewrite(dir, SubSeq(b, acc.prev, i - 1)) \o r.out,
     prev |-> r.end, found |-> TRUE, declined |-> FALSE]

\* Bug: a header that commits and does not parse is stepped over.
NestedSkipsBroken(dir, syn, depth, b, i, acc) ==
    LET Step(r) ==
            IF ~ValueShape(b, i) \/ ~r.ok \/ ~r.committed
            THEN Nested(dir, syn, depth, b, i + 1, acc)
            ELSE Nested(dir, syn, depth, b, r.end, Taken(dir, b, i, r, acc))
    IN  IF i > Len(b) THEN Rest(dir, b, acc)
        ELSE Step(TryBothPicks(dir, syn, depth, b, i, "none"))

\* A payload inside a string, at whatever offset it starts.
Nested(dir, syn, depth, b, i, acc) ==
    LET Step(r) ==
            CASE r.ambiguous \/ (r.committed /\ ~r.ok) -> [acc EXCEPT !.declined = TRUE]
              [] ~r.committed /\ ~r.ambiguous -> Nested(dir, syn, depth, b, i + 1, acc)
              [] r.ok /\ r.committed /\ ~r.ambiguous ->
                   Nested(dir, syn, depth, b, r.end, Taken(dir, b, i, r, acc))
    IN  IF i > Len(b) THEN Rest(dir, b, acc)
        ELSE IF ~ValueShape(b, i) THEN Nested(dir, syn, depth, b, i + 1, acc)
        ELSE Step(TryBothPicks(dir, syn, depth, b, i, "none"))

Unstarted == [out |-> <<>>, prev |-> 1, found |-> FALSE, declined |-> FALSE]

\* A string: what it holds is repaired first, and its own length follows from
\* what that became.  Bytes that did not change are kept as they are.
StringText(syn, b, i, S, data, repaired) ==
    IF repaired = data THEN SubSeq(b, i, S.end - 1)
    ELSE SubSeq(b, i, S.first - 1) \o Itoa(EmitLen(syn, S.n, data, repaired))
             \o SubSeq(b, S.last, S.from - 1) \o repaired \o SubSeq(b, S.to, S.end - 1)

StringValue(dir, syn, b, i, S, data, N) ==
    IF S.to = 0 \/ N.declined THEN Fail(S.tie)
    ELSE Parsed(StringText(syn, b, i, S, data, IF N.found THEN N.out ELSE Rewrite(dir, data)),
                S.end, S.tie)

StringHolding(dir, syn, depth, b, i, S, data) ==
    StringValue(dir, syn, b, i, S, data, Nested(dir, syn, depth + 1, data, 1, Unstarted))

StringSpanning(dir, syn, depth, b, i, S) ==
    StringHolding(dir, syn, depth, b, i, S, SubSeq(b, S.from, S.to - 1))

RepairString(dir, syn, pick, depth, b, i) ==
    StringSpanning(dir, syn, depth, b, i, StringSpan(syn, b, i, pick))

RepairOpaqueString(syn, pick, b, i) ==
    LET Spanned(S) == IF S.to = 0 THEN Fail(FALSE)
                      ELSE Parsed(SubSeq(b, i, S.end - 1), S.end, S.tie)
    IN  Spanned(StringSpan(syn, b, i, pick))

\* The n values of a container's body, one after another.
Values(dir, syn, pick, depth, b, at, n) ==
    LET After(v, r) == [r EXCEPT !.out = v.out \o @, !.tie = @ \/ v.tie]
        First(v) == IF ~v.ok THEN v
                    ELSE After(v, Values(dir, syn, pick, depth, b, v.end, n - 1))
    IN  IF n = 0 THEN Parsed(<<>>, at, FALSE) ELSE First(Value(dir, syn, pick, depth, b, at))

\* ":<n>:{ n pairs }" from i on, after the head an array or an object has.
RepairArrayTail(dir, syn, pick, depth, b, i, head) ==
    LET Emitted(H, V, w) ==
            IF V.out = SubSeq(b, H.from, V.end - 1) THEN SubSeq(b, i, V.end + w - 1)
            ELSE Emit(syn, ":") \o Itoa(H.n) \o Emit(syn, ":") \o Emit(syn, "{")
                     \o V.out \o Emit(syn, "}")
        Closed(H, V, w) == IF ~V.ok \/ w = 0 THEN Fail(V.tie)
                           ELSE Parsed(head \o Emitted(H, V, w), V.end + w, V.tie)
        Filled(H, V) == Closed(H, V, Match(syn, b, V.end, "}"))
        Opened(H) == IF H.from = 0 THEN Fail(FALSE)
                     ELSE Filled(H, Values(dir, syn, pick, depth + 1, b, H.from, 2 * H.n))
    IN  Opened(Header(syn, b, i, "{"))

RepairArray(dir, syn, pick, depth, b, i) ==
    RepairArrayTail(dir, syn, pick, depth, b, i + 1, <<"a">>)

PastName(syn, b, H) ==
    LET Closed(e, w) == IF w = 0 THEN 0 ELSE e + w
        Named(e) == IF e = 0 THEN 0 ELSE Closed(e, Match(syn, b, e, "\""))
    IN  Named(IF H.from = 0 THEN 0 ELSE Advance(syn, b, H.from, H.n))

\* The quoted class name of an object, or of a class with its own serializer:
\* where it ends, its closing quote included; 0 when it does not parse.
NameEnd(syn, b, i) == PastName(syn, b, Header(syn, b, i + 1, "\""))

RepairObject(dir, syn, pick, depth, b, i) ==
    LET Named(k) == IF k = 0 THEN Fail(FALSE)
                    ELSE RepairArrayTail(dir, syn, pick, depth, b, k, SubSeq(b, i, k - 1))
    IN  Named(NameEnd(syn, b, i))

CustomText(syn, b, i, k, S, data, repaired) ==
    IF repaired = data THEN SubSeq(b, i, S.end - 1)
    ELSE SubSeq(b, i, k - 1) \o Emit(syn, ":") \o Itoa(EmitLen(syn, S.n, data, repaired))
             \o Emit(syn, ":") \o Emit(syn, "{") \o repaired \o Emit(syn, "}")

CustomValue(dir, syn, b, i, k, S) ==
    LET data == SubSeq(b, S.from, S.to - 1)
    IN  IF k = 0 \/ S.to = 0 THEN Fail(FALSE)
        ELSE Parsed(CustomText(syn, b, i, k, S, data, Rewrite(dir, data)), S.end, S.tie)

CustomNamed(dir, syn, pick, b, i, k) ==
    CustomValue(dir, syn, b, i, k, Span(syn, b, Header(syn, b, k, "{"), <<"}">>, pick))

RepairCustom(dir, syn, pick, b, i) == CustomNamed(dir, syn, pick, b, i, NameEnd(syn, b, i))

Value(dir, syn, pick, depth, b, i) ==
    LET Null(w) == IF w = 0 THEN Fail(FALSE)
                   ELSE Parsed(SubSeq(b, i, i + w), i + 1 + w, FALSE)
    IN  IF depth > maxSerializedDepth \/ i > Len(b) THEN Fail(FALSE)
        ELSE CASE b[i] = "N" -> Null(Match(syn, b, i + 1, ";"))
               [] b[i] = "i" -> ScanScalar(syn, b, i)
               [] b[i] = "E" -> RepairOpaqueString(syn, pick, b, i)
               [] b[i] = "s" -> RepairString(dir, syn, pick, depth, b, i)
               [] b[i] = "a" -> RepairArray(dir, syn, pick, depth, b, i)
               [] b[i] = "C" -> RepairCustom(dir, syn, pick, b, i)
               [] b[i] = "O" -> RepairObject(dir, syn, pick, depth, b, i)
               [] OTHER      -> Fail(FALSE)

-----------------------------------------------------------------------------
(* The walk over a buffer.                                                  *)
NotParsed == Fail(FALSE) @@ [committed |-> FALSE]

\* The spellings in turn, until one parses the value in its field.
RECURSIVE RepairAt(_, _, _, _, _)
RepairAt(dir, b, i, field, k) ==
    LET Else(r) == IF r.ok THEN r
                   ELSE [RepairAt(dir, b, i, field, k + 1) EXCEPT
                            !.committed = @ \/ r.committed \/ r.ambiguous]
    IN  IF k > Len(Spellings) THEN NotParsed
        ELSE Else(TryBothPicks(dir, Spellings[k], 0, b, i, field))

\* A value that follows a separator must fill its field, and a header there
\* that commits and fails leaves the whole buffer unrepaired.  A value glued to
\* a letter is taken only when it parses and nothing follows it.
RECURSIVE RepairWalk(_, _, _, _)
RepairWalk(dir, b, i, acc) ==
    LET placed == ValuePosition(b, i)
        Step(r) == CASE r.ok -> RepairWalk(dir, b, r.end, Taken(dir, b, i, r, acc))
                     [] ~r.ok /\ placed /\ r.committed -> [acc EXCEPT !.declined = TRUE]
                     [] OTHER -> RepairWalk(dir, b, i + 1, acc)
    IN  IF i > Len(b) THEN Rest(dir, b, acc)
        ELSE IF ~ValueShape(b, i) THEN RepairWalk(dir, b, i + 1, acc)
        ELSE Step(RepairAt(dir, b, i, IF placed THEN "occupies" ELSE "space", 1))

RepairField(dir, b) ==
    LET Result(w) == IF w.declined \/ ~w.found THEN [out |-> Rewrite(dir, b), found |-> FALSE]
                     ELSE [out |-> w.out, found |-> TRUE]
    IN  Result(RepairWalk(dir, b, 1, Unstarted))

RepairSerialized(dir, b) == RepairField(dir, b).out

\* Bug: a field is never decoded, so only its own spelling is rewritten.
NoPeel(dir, b) == [out |-> b, found |-> FALSE]

\* What two texts have in common at either end, the prefix first.
SamePrefix(a, b) == Len(LongestCommonPrefix({a, b}))
SameSuffix(a, b, prefix) ==
    Max({k \in 0..(Min({Len(a), Len(b)}) - prefix) :
            \A m \in 0..(k - 1) : a[Len(a) - m] = b[Len(b) - m]})

\* The repaired text rep of a field's value, where it is new: put back under
\* the encoding, and only the bytes that changed.
PutBack(b, val, dec, rep) ==
    LET p == SamePrefix(dec, rep)
        s == SameSuffix(dec, rep, p)
    IN  IF val = dec \/ rep = dec THEN [out |-> b, found |-> FALSE]
        ELSE [out |-> SubSeq(b, 1, Len(b) - Len(val)) \o SubSeq(val, 1, p)
                          \o FormEncode(SubSeq(rep, p + 1, Len(rep) - s))
                          \o SubSeq(val, Len(dec) - s + 1, Len(val)),
              found |-> TRUE]

\* One layer of form encoding taken off a field's value, and what is underneath
\* repaired.
PeelFormField(dir, b) ==
    LET eq  == Min({i \in DOMAIN b : b[i] = "="} \cup {Len(b) + 1})
        val == SubSeq(b, eq + 1, Len(b))
    IN  PutBack(b, val, FormDecode(val), RepairSerialized(dir, FormDecode(val)))

OrPeeled(dir, r) == IF r.found THEN r ELSE PeelFormField(dir, r.out)

\* A form body or a query string, field by field; a "&" opens no reference here.
FieldsOf(b) ==
    LET cuts == {i \in DOMAIN b : b[i] = "&"} \cup {0, Len(b) + 1}
        next(c) == Min({d \in cuts : d > c})
    IN  [k \in 1..(Cardinality(cuts) - 1) |->
            LET c == SetToSortSeq(cuts, <)[k] IN SubSeq(b, c + 1, next(c) - 1)]

RepairSerializedFields(dir, b) ==
    LET Join(acc, r) == acc \o <<"&">> \o r.out
        Result(done) == IF \E k \in DOMAIN done : done[k].found
                        THEN FoldLeft(Join, Head(done).out, Tail(done))
                        ELSE Rewrite(dir, b)
    IN  Result([k \in DOMAIN FieldsOf(b) |-> OrPeeled(dir, RepairField(dir, FieldsOf(b)[k]))])

-----------------------------------------------------------------------------
(* What the proxy serves for a body: the pass of the content type, then the *)
(* sweep, each wrapped in the repair.                                       *)
Served(b) == RepairSerialized("forward", RepairSerialized("forward", b))

(* The two detectors of the corpus diff.  BrokenSerialized counts headers   *)
(* that commit and parse in no spelling.                                    *)
RECURSIVE BrokenFrom(_, _)
BrokenFrom(b, i) ==
    LET Count(r) == CASE r.ok -> BrokenFrom(b, r.end)
                      [] ~r.ok /\ r.committed -> 1 + BrokenFrom(b, i + 2)
                      [] OTHER -> BrokenFrom(b, i + 1)
    IN  IF i > Len(b) THEN 0
        ELSE IF ~ValueShape(b, i) \/ ~ValuePosition(b, i) THEN BrokenFrom(b, i + 1)
        ELSE Count(RepairAt("none", b, i, "none", 1))

BrokenSerialized(b) == BrokenFrom(b, 1)

Offset(b, i) == ByteLen(SubSeq(b, 1, i - 1))

\* Bug: any unread header on a page the rewrite changed.
UnreadAnywhere(b) ==
    /\ Served(b) # b
    /\ \E i \in DOMAIN b : /\ ValueShape(b, i)
                           /\ \E k \in DOMAIN Spellings : ReadLen(Spellings[k], b, i + 1).at > 0
                           /\ ~RepairAt("none", b, i, "none", 1).ok

\* A header no spelling reads, within whose declared count the served page out
\* differs from the canonical one: between the first change on the page and
\* the last.
UnreadAgainst(b, out) ==
    LET lo   == SamePrefix(b, out)
        tail == SameSuffix(b, out, lo)
        Reads(i) == {k \in DOMAIN Spellings : ReadLen(Spellings[k], b, i + 1).at > 0}
        Reach(L) == Min({Offset(b, L.at) + L.n, ByteLen(b)})
    IN  /\ out # b
        /\ \E i \in DOMAIN b :
             /\ ValueShape(b, i)
             /\ Reads(i) # {}
             /\ ~RepairAt("none", b, i, "none", 1).ok
             /\ Offset(b, lo + 1) < Reach(ReadLen(Spellings[Min(Reads(i))], b, i + 1))
             /\ Len(b) - tail >= i

UnreadSerialized(b) == UnreadAgainst(b, Served(b))

-----------------------------------------------------------------------------
Inner(before, out, after) == SubSeq(out, Len(before) + 1, Len(out) - Len(after))

Lossless(layers, b) == Decode(layers, Encode(layers, b)) = b

Init ==
    /\ row \in Rows
    /\ db = Serialize(row)
    /\ text = <<>>
    /\ page = NoPage
    /\ phase = "idle"
    /\ stale = FALSE

\* The application writes the row into a page and the proxy rewrites it.
Serve(p) ==
    LET body == p.before \o Encode(p.layers, db) \o p.after
    IN  /\ phase = "idle"
        /\ page' = p
        /\ text' = Inner(Rewrite("forward", p.before), Served(body), Rewrite("forward", p.after))
        /\ phase' = "served"
        /\ UNCHANGED <<row, db, stale>>

Leave ==
    /\ phase = "served"
    /\ page' = NoPage /\ text' = <<>> /\ phase' = "idle"
    /\ UNCHANGED <<row, db, stale>>

\* The value on the page with its hosts rewritten and its lengths left alone.
Untouched == Rewrite("forward", Encode(page.layers, db))

\* An editor takes the value out of the page, if the page's encoding gives back
\* what went into it.
Edit ==
    /\ phase = "served"
    /\ Lossless(page.layers, db)
    /\ text' = Decode(page.layers, text)
    /\ page' = NoPage
    /\ phase' = "held"
    /\ stale' = (stale \/ (text = Untouched /\ "g" \in ToSet(db)))
    /\ UNCHANGED <<row, db>>

Sent(q, body) == IF q.form THEN RepairSerializedFields("reverse", body)
                 ELSE RepairSerialized("reverse", body)

\* The editor posts it, as one field of a form or as a value of its own; the
\* proxy rewrites the request and the application stores what it decodes.
Save(q) ==
    LET before == IF q.form THEN <<"x", "=">> ELSE <<>>
        after  == IF q.form THEN <<"&", "x", "=", "x">> ELSE <<>>
    IN  /\ phase = "held"
        /\ Lossless(q.layers, text)
        /\ db' = Decode(q.layers,
                        Inner(before, Sent(q, before \o Encode(q.layers, text) \o after), after))
        /\ text' = <<>>
        /\ phase' = "idle"
        /\ UNCHANGED <<row, page, stale>>

Next ==
    \/ \E p \in Pages : Serve(p)
    \/ Leave
    \/ Edit
    \/ \E q \in Posts : Save(q)

Spec == Init /\ [][Next]_vars

-----------------------------------------------------------------------------
RECURSIVE Sound(_), Mapped(_), Settled(_), Depth(_)

\* Every length in the value is right.
Sound(v) == CASE v.t = "s" -> v.off = 0 /\ Sound(v.sub)
              [] v.t \in {"a", "O"} -> Sound(v.sub)
              [] OTHER -> TRUE

\* The value with the variant's host in place of the canonical one.
Mapped(v) ==
    CASE v.t = "s" -> [v EXCEPT !.pre = Rewrite("forward", @), !.sub = Mapped(@),
                                !.post = Rewrite("forward", @)]
      [] v.t \in {"a", "O"} -> [v EXCEPT !.sub = Mapped(@)]
      [] v.t = "C" -> [v EXCEPT !.data = Rewrite("forward", @)]
      [] OTHER -> v

Depth(v) == IF v.t \in {"s", "a", "O"} /\ v.sub.t # "none" THEN 1 + Depth(v.sub) ELSE 0

\* What a pass there and back makes of a text: every mention over https.
Returned(b) == Rewrite("reverse", Rewrite("forward", b))

\* The value in which a pass there and back has nothing left to change.
Settled(v) ==
    CASE v.t = "s" -> [v EXCEPT !.pre = Returned(@), !.sub = Settled(@), !.post = Returned(@)]
      [] v.t \in {"a", "O"} -> [v EXCEPT !.sub = Settled(@)]
      [] v.t = "C" -> [v EXCEPT !.data = Returned(@)]
      [] OTHER -> v

WithoutLengths(b) == SelectSeq(b, LAMBDA t : t \notin Digits)

Repaired == Encode(page.layers, Serialize(Mapped(row)))

\* A served value has all of its lengths re-emitted or none: never an inner one
\* without the outer, and never from a boundary the parse got wrong.
AllOrNothing ==
    phase = "served" /\ db \in {Serialize(row), Serialize(Settled(row))}
        => text \in {Untouched} \cup (IF Sound(row) THEN {Repaired} ELSE {})

\* A value that fills its field, in any spelling the walk knows, is repaired,
\* whatever its data looks like, down to the depth limit.
FieldRepaired ==
    phase = "served" /\ page.fills /\ Sound(row) /\ ~stale /\ Depth(row) <= maxSerializedDepth
        => text = Repaired

\* A row that was right is right after any number of views and saves, whichever
\* spelling it went out in and whichever it came back in: it is the row it was,
\* or, once saved, the row with its http mentions over https and its lengths
\* made to match.  The one exception is the one serialized.go:2338 states: http
\* mentions edited on a page where the repair was declined come back longer, and
\* then nothing but the lengths is wrong.
RowRestored ==
    phase = "idle" /\ Sound(row)
        => IF stale THEN WithoutLengths(db) = WithoutLengths(Returned(Serialize(row)))
           ELSE db \in {Serialize(row), Serialize(Settled(row))}

\* No variant host stays in the shared database, whatever became of the lengths.
HostComesHome == "v" \notin ToSet(db)

\* Whether the bytes of the row, rewritten and not repaired, still parse: as a
\* shorter value that a stale length cuts off.
CutShort == RepairAt("none", Rewrite("forward", db), 1, "none", 1).ok

\* The host stands first in a string whose count reaches past its opening quote.
InReach == row.t = "s" /\ row.pre # <<>> /\ Head(row.pre) \in {"g", "h"} /\ ByteLen(row.pre) > 10

\* Whether the repaired value, apart from its field, has two readings that parse.
Disputed == ~RepairAt("none", Repaired, 1, "none", 1).ok

\* The corpus diff counts a value served with a stale length and does not count
\* one that was repaired; a value in a spelling the walk cannot read is reported
\* where the rewrite reached into it, and never for a host elsewhere on the page.
DetectorsAgree ==
    phase = "served" /\ Sound(row) /\ ~stale
        => LET canon == page.before \o Encode(page.layers, db) \o page.after
           IN  /\ page.read /\ ~CutShort /\ ~Disputed
                    => (text # Repaired <=> BrokenSerialized(Served(canon)) > BrokenSerialized(canon))
               /\ ~page.read /\ (InReach \/ {"g", "h"} \cap ToSet(db) = {})
                    => (UnreadSerialized(canon) <=> InReach)
=============================================================================
