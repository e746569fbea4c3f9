------------------------------- MODULE Sweep --------------------------------
(***************************************************************************)
(* The straggler sweep, internal/rewrite/sweep.go: a reader that rewrites  *)
(* a stream while it passes, keeping back a window of bytes so that what a *)
(* match is does not depend on where the source's reads happened to end.   *)
(*                                                                         *)
(* One Read(p) is a number of Fill steps, each a read of the source with   *)
(* the flush it leads to, and a Drain, which gives p what is ready.        *)
(***************************************************************************)
EXTENDS Scan

CONSTANTS Documents,    \* the streams that may be swept
          MaxChunk,     \* the most bytes one read of the source returns
          MaxDrain      \* len(p): the most bytes a Read gives its caller

ASSUME SweepAssumption == /\ Documents \subseteq Seq(Byte)
                          /\ MaxChunk \in Nat \ {0} /\ MaxDrain \in Nat \ {0}

VARIABLES
    doc,        \* what the source will have given when it ends
    given,      \* how much of it the source has given
    pending,    \* s.pending: read and not yet decided
    prev,       \* s.prev: the byte before pending
    offset,     \* s.offset: where pending begins in the stream
    out,        \* s.out: rewritten, not yet taken by the caller
    sent,       \* what the caller has taken
    eof,        \* s.eof
    failed,     \* the source failed: the caller takes no more
    events      \* what was recorded, at its place in the stream

sweepVars == <<doc, given, pending, prev, offset, out, sent, eof, failed, events>>

SweepInit ==
    /\ doc \in Documents
    /\ given = 0 /\ offset = 0
    /\ pending = <<>> /\ out = <<>> /\ sent = <<>> /\ events = <<>>
    /\ prev = NoPrev
    /\ eof = FALSE /\ failed = FALSE

\* Matches that begin before the limit have the bytes that decide them in hand.
\* At the end of the stream there are no others to wait for.
Limit(b, last) == IF last THEN Len(b) ELSE Len(b) - MaxMatchLen

\* Bug: the offsets recorded are those of the buffer.
LocatedInBuffer(es, base) == es

Located(es, base) == [i \in DOMAIN es |-> [es[i] EXCEPT !.at = @ + base]]

\* The left context of what remains after the first n bytes of b.
ContextAfter(b, n) == IF n = 0 THEN prev ELSE b[n]

Flush(b, limit) ==
    \E r \in {RewritePrefix(b, limit, prev)} :
        /\ out' = out \o r.out
        /\ pending' = SubSeq(b, r.consumed + 1, Len(b))
        /\ events' = events \o Located(r.events, offset)
        /\ offset' = offset + r.consumed
        /\ prev' = ContextAfter(b, r.consumed)

\* The source gives n bytes; it may say it has ended with them or after them.
Fill(n, last) ==
    /\ out = <<>> /\ ~eof /\ ~failed
    /\ given + n <= Len(doc)
    /\ IF last THEN given + n = Len(doc) ELSE n > 0
    /\ given' = given + n
    /\ eof' = last
    /\ \E b \in {pending \o SubSeq(doc, given + 1, given + n)} :
           IF Limit(b, last) > 0
           THEN Flush(b, Limit(b, last))
           ELSE /\ pending' = b
                /\ UNCHANGED <<prev, offset, out, events>>
    /\ UNCHANGED <<doc, sent, failed>>

\* Any other error of the source is the caller's at once: what came with it
\* stays undecided.
FillFails(n) ==
    /\ out = <<>> /\ ~eof /\ ~failed
    /\ given + n <= Len(doc)
    /\ given' = given + n
    /\ pending' = pending \o SubSeq(doc, given + 1, given + n)
    /\ failed' = TRUE
    /\ UNCHANGED <<doc, prev, offset, out, sent, eof, events>>

Drain ==
    /\ out # <<>>
    /\ LET n == Min({MaxDrain, Len(out)})
       IN  /\ sent' = sent \o SubSeq(out, 1, n)
           /\ out' = SubSeq(out, n + 1, Len(out))
    /\ UNCHANGED <<doc, given, pending, prev, offset, eof, failed, events>>

\* The caller has been told of the end, or of the failure, and stops reading.
Finished ==
    /\ failed \/ (eof /\ out = <<>>)
    /\ UNCHANGED sweepVars

SweepNext ==
    \/ \E n \in 0..MaxChunk, last \in BOOLEAN : Fill(n, last)
    \/ \E n \in 0..MaxChunk : FillFails(n)
    \/ Drain
    \/ Finished

SweepSpec == SweepInit /\ [][SweepNext]_sweepVars

-----------------------------------------------------------------------------
Emitted == sent \o out

(***************************************************************************)
(* What comes out does not depend on how the source's reads fell: at every *)
(* moment it is a prefix of what RewriteText makes of the whole document,  *)
(* also when the source fails, and when the stream ends it is all of it.   *)
(* (RewritePrefix, "so that a match cannot straddle the end of the buffer  *)
(* and be decided on bytes that have not arrived", and its `prev`.)        *)
(***************************************************************************)
BoundaryInvisible ==
    /\ IsPrefix(Emitted, RewriteText(doc).out)
    /\ eof => Emitted = RewriteText(doc).out

(***************************************************************************)
(* Each candidate is recorded once, at its place in the stream, whichever  *)
(* flush decides it. (Sweep.flush's cumulative offset: a candidate in the  *)
(* carried-over window is seen by several rounds.)                         *)
(***************************************************************************)
CountedOnce ==
    /\ IsPrefix(events, RewriteText(doc).events)
    /\ eof => events = RewriteText(doc).events

(***************************************************************************)
(* Every absolute reference a browser would resolve to the canonical       *)
(* origin is rewritten, and a rewrite of an absolute reference is of one   *)
(* of those: not of a longer host, of another port or of what is no URL.   *)
(***************************************************************************)
Rewritten == {e.at + 1 : e \in {f \in Range(RewriteText(doc).events) : f.what = "rewrote"}}

OriginsExactly ==
    eof => {i \in Rewritten : doc[i] = "p"} = References(doc)
=============================================================================
