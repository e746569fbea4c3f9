-------------------------------- MODULE Scan --------------------------------
(***************************************************************************)
(* The byte matcher, internal/origin: which stretches of a buffer are the  *)
(* canonical origin, and what one pass over a prefix of a stream does.     *)
(*                                                                         *)
(* A byte is a class of bytes, the classes being those the decision tells  *)
(* apart:                                                                  *)
(*   "p"  the scheme and its colon, "https:"   "/"  half of a separator    *)
(*   "4"  a digit of the default port          "9"  any other digit        *)
(*   "0"  a zero                               "t"  tab, LF or CR: removed *)
(*   ":" "." "?" " "  themselves               "v"  the variant's host     *)
(*   "x" and the letters of Host: bytes a hostname is made of.             *)
(*                                                                         *)
(* One encoding, one canonical host on its scheme's default port, and the  *)
(* surface "straggler": removed bytes join, and the end of the buffer is   *)
(* not the end of a value.                                                 *)
(***************************************************************************)
EXTENDS Integers, SequencesExt, FiniteSetsExt

CONSTANTS Host,         \* the canonical host, a sequence of host bytes
          Slack,        \* room for a root dot, a port and the terminator
          MaxRemoved    \* maxRemovedRun

Digit     == {"0", "4", "9"}
Separator == <<"/", "/">>
Target    == <<"v">>

IsHostByte(c) == c \in {"p", "x", "v", "."} \cup Digit \cup Range(Host)
Removed       == {"t"}

\* The bytes no hostname is made of. The scheme is one of them for its colon,
\* and "end" is not a byte but what is read beyond the last one.
Structural == {"p", "/", ":", "?", " ", "t", "end"}
Byte       == (Structural \cup Digit \cup {"x", "v", "."} \cup Range(Host)) \ {"end"}

ASSUME HostAssumption   == /\ Host \in Seq(Byte \ Structural)
                           /\ Host # <<>>
ASSUME WindowAssumption == Slack \in Nat /\ Slack >= 3 /\ MaxRemoved \in Nat

\* The longest pattern: the scheme, the separator and the host.
MaxPat == 1 + Len(Separator) + Len(Host)

\* Bug: the window forgets that a removed run may precede the terminator.
MaxMatchLenWithoutRun == MaxPat + 1

\* And all that its decision may read beyond it.
MaxMatchLen == MaxPat + Slack + MaxRemoved

-----------------------------------------------------------------------------
At(b, i) == IF i \in DOMAIN b THEN b[i] ELSE "end"

\* The length of the run of bytes of a class that begins at i.
RunAt(b, i, class) ==
    Min({j \in i..(Len(b) + 1) : At(b, j) \notin class} \cup {Max({i, Len(b) + 1})}) - i

\* The left anchor of "//host": not a path segment, not the tail of a name.
OkBeforeRelative(c) == c \notin ({"x", "v", "/", "."} \cup Digit \cup Range(Host))

\* The right anchor: something other than more of the host.
DelimAt(b, i) == ~IsHostByte(At(b, i))

\* Bug: removed bytes end a host instead of joining what follows to it.
HostTerminatedAtRemoved(b, end) ==
    DelimAt(b, end + 1) \/ (At(b, end + 1) = "." /\ DelimAt(b, end + 2))

\* The host is over after its first `end` bytes: past the removed bytes that
\* would join what follows to it, at a delimiter or at one full stop before one.
HostTerminated(b, end) ==
    LET next == end + Min({RunAt(b, end + 1, Removed), MaxRemoved}) + 1
    IN  DelimAt(b, next) \/ (At(b, next) = "." /\ DelimAt(b, next + 1))

\* URL structure, and so a root dot before it is a label and not a full stop.
EndsHost(b, i) == At(b, i) \in {"/", ":", "?"}

\* Bug: the port is compared as it is written, and its padding counts.
DefaultPortAsWritten(digits) == digits \in {<<>>, <<"4">>}

\* A URL parser reads a port as a number: padding counts for nothing, and the
\* number 0 is a port of its own.
DefaultPort(digits) ==
    \/ digits = <<>>
    \/ LET zeros == RunAt(digits, 1, {"0"})
       IN  SubSeq(digits, zeros + 1, Len(digits)) = <<"4">>

-----------------------------------------------------------------------------
Spells(b, i, word) ==
    i + Len(word) - 1 <= Len(b) /\ SubSeq(b, i, i + Len(word) - 1) = word

\* A candidate begins at i: a separator with the host after it, or the scheme
\* before both. They are found in the order in which they begin, and so the
\* scheme's form before the relative one inside it.
Begins(b, i) ==
    \/ Spells(b, i, <<"p">> \o Separator \o Host)
    \/ Spells(b, i, Separator \o Host)

IsRelative(b, i) == b[i] # "p"

\* The last byte of the host of the candidate that begins at i.
HostEnd(b, i) == i + Len(Host) + (IF IsRelative(b, i) THEN 1 ELSE 2)

\* With a root dot, where there is URL structure after it.
NameEnd(b, i) ==
    LET hostEnd == HostEnd(b, i)
    IN  IF At(b, hostEnd + 1) = "." /\ EndsHost(b, hostEnd + 2)
        THEN hostEnd + 1 ELSE hostEnd

HasColon(b, i) == At(b, NameEnd(b, i) + 1) = ":"

\* How many digits there are after the colon.
PortLen(b, i) == IF HasColon(b, i) THEN RunAt(b, NameEnd(b, i) + 2, Digit) ELSE 0

PortOf(b, i) == SubSeq(b, NameEnd(b, i) + 2, NameEnd(b, i) + 1 + PortLen(b, i))

OriginEnd(b, i) == NameEnd(b, i) + (IF PortLen(b, i) > 0 THEN 1 + PortLen(b, i) ELSE 0)

\* A path segment, or the tail of a longer name.
Unanchored(b, i, before) == IsRelative(b, i) /\ ~OkBeforeRelative(before)

\* A colon with no port after it, and no end of the authority either.
BareColon(b, i) ==
    HasColon(b, i) /\ PortLen(b, i) = 0 /\ ~HostTerminated(b, NameEnd(b, i) + 1)

\* What is decided of the candidate at i, `before` being the byte on its left:
\* where the scan resumes, and the reason if it is left as it is.
Verdict(b, i, before) ==
    LET left(at, why) == [end |-> at, reason |-> why]
    IN  IF Unanchored(b, i, before) THEN left(HostEnd(b, i), "unanchored")
        ELSE IF BareColon(b, i) THEN left(NameEnd(b, i) + 1, "not-a-url")
        ELSE IF ~HostTerminated(b, OriginEnd(b, i)) THEN left(OriginEnd(b, i), "not-a-url")
        ELSE IF ~DefaultPort(PortOf(b, i)) THEN left(OriginEnd(b, i), "host-not-in-map")
        ELSE left(OriginEnd(b, i), "rewrote")

Replacement(b, i) ==
    (IF IsRelative(b, i) THEN <<>> ELSE <<"p">>) \o Separator \o Target

\* Bug: a match inside one already considered is considered again.
NeverShadowed(start, scanned) == FALSE

\* Shadowed by a longer match that began earlier.
Shadowed(start, scanned) == start <= scanned

\* The byte before the one at i, in the buffer or before it in its stream.
Before(b, i, prev) == IF i > 1 THEN b[i - 1] ELSE prev

\* What the scan knows after the candidate at i, if there is one: an unanchored
\* one is passed by, but its bytes are not spent.
Consider(b, i, prev, s) ==
    IF ~Begins(b, i) \/ Shadowed(i, s.scanned) THEN s ELSE
    LET v == Verdict(b, i, Before(b, i, prev))
    IN  [scanned  |-> v.end,
         consumed |-> IF v.reason = "unanchored" THEN s.consumed ELSE Max({s.consumed, v.end}),
         last     |-> IF v.reason = "rewrote" THEN v.end ELSE s.last,
         out      |-> IF v.reason = "rewrote"
                      THEN s.out \o SubSeq(b, s.last + 1, i - 1) \o Replacement(b, i)
                      ELSE s.out,
         events   |-> Append(s.events, [at |-> i - 1, what |-> v.reason])]

Unscanned(limit) ==
    [scanned |-> 0, consumed |-> limit, last |-> 0, out |-> <<>>, events |-> <<>>]

\* The scan of the candidates that begin in the first `limit` bytes of b: what
\* begins later is not yet safe to decide. Pass(b, limit, prev)[i] is what is
\* known when the first i places have been passed.
Pass(b, limit, prev) ==
    LET after[i \in 0..limit] ==
            IF i = 0 THEN Unscanned(limit)
            ELSE LET s == after[i - 1] IN Consider(b, i, prev, s)
    IN  after

\* RewritePrefix: the rewritten prefix, how much of b it stands for, and the
\* events, of a buffer that follows `prev` in its stream.
RewritePrefix(b, limit, prev) ==
    LET s == Pass(b, limit, prev)[limit]
    IN  [out      |-> s.out \o SubSeq(b, s.last + 1, s.consumed),
         consumed |-> s.consumed,
         events   |-> s.events]

\* RewriteText: a whole buffer of prose.
NoPrev == "none"
RewriteText(b) == RewritePrefix(b, Len(b), NoPrev)

-----------------------------------------------------------------------------
(***************************************************************************)
(* The slack holds a root dot, a colon, a port and the byte after it, if   *)
(* the port is not too long. In the source a port may be padded with any   *)
(* number of zeros (Matcher.MaxMatchLen, NormalisePort): this is what a    *)
(* document must not do across a read.                                     *)
(***************************************************************************)
PortsFit(b) == \A i \in DOMAIN b : b[i] = ":" => RunAt(b, i + 1, Digit) <= Slack - 3

-----------------------------------------------------------------------------
(***************************************************************************)
(* The reference: what a browser makes of the reference whose separator is *)
(* at i. The URL ends at a space; its authority ends where its path or its *)
(* query begins; removed bytes are removed before it is read.              *)
(***************************************************************************)
AuthorityAt(b, i) ==
    LET stop == Min({j \in (i + 2)..(Len(b) + 1) : At(b, j) \in {"/", "?", " ", "end"}})
    IN  SelectSeq(SubSeq(b, i + 2, stop - 1), LAMBDA c : c \notin Removed)

IsCanonicalAuthority(a) ==
    LET colons == {i \in DOMAIN a : a[i] = ":"}
        colon  == IF colons = {} THEN Len(a) + 1 ELSE Min(colons)
        port   == SubSeq(a, colon + 1, Len(a))
        name   == SubSeq(a, 1, colon - 1)
    IN  /\ name \in {Host, Append(Host, ".")}
        /\ \A i \in DOMAIN port : port[i] \in Digit
        /\ \/ port = <<>>
           \/ \E k \in 0..Len(port) : port = [i \in 1..k |-> "0"] \o <<"4">>

\* The places of a document a browser reads as an absolute reference to the
\* canonical origin.
References(b) ==
    {i \in 1..(Len(b) - 2) :  /\ SubSeq(b, i, i + 2) = <<"p">> \o Separator
                              /\ IsCanonicalAuthority(AuthorityAt(b, i + 1))}

(***************************************************************************)
(* The same where the reference is spelled plainly: the host, perhaps a    *)
(* root dot, perhaps a colon and the default port, and the authority is    *)
(* over, with nothing to remove before it is.                              *)
(***************************************************************************)
Over(b, i) == At(b, i) \in {"/", "?", " ", "end"}

PlainPort(b, i) ==
    \/ Over(b, i)
    \/ At(b, i) = ":" /\ Over(b, i + 1)
    \/ /\ At(b, i) = ":"
       /\ \E zeros \in 0..Len(b) : /\ \A k \in 1..zeros : At(b, i + k) = "0"
                                  /\ At(b, i + zeros + 1) = "4"
                                  /\ Over(b, i + zeros + 2)

PlainReference(b, i) ==
    /\ Spells(b, i, <<"p">> \o Separator \o Host)
    /\ LET end == HostEnd(b, i)
       IN  PlainPort(b, end + 1) \/ (At(b, end + 1) = "." /\ PlainPort(b, end + 2))
=============================================================================
