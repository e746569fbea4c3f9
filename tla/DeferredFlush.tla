--------------------------- MODULE DeferredFlush ---------------------------
(***************************************************************************)
(* What a response writer that puts its flushes off promises to the        *)
(* handler above it and the connection below it: bytes leave in the order  *)
(* they were written, a flush that was asked for is either done or owed,   *)
(* an owed flush is done before the response ends, and afterwards nothing  *)
(* reaches the connection but a flush somebody still asks for himself.     *)
(* FlushCoalescer is the implementation.                                   *)
(***************************************************************************)
EXTENDS Naturals

VARIABLES
  written,  \* writes handed to the connection so far
  flushed,  \* how many of them a flush has pushed out
  owed,     \* a flush was asked for and not done yet
  phase     \* "open", "hijacked" or "ended"

vars == <<written, flushed, owed, phase>>

Init ==
  /\ written = 0
  /\ flushed = 0
  /\ owed = FALSE
  /\ phase = "open"

Write ==
  /\ phase = "open"
  /\ written' = written + 1
  /\ UNCHANGED <<flushed, owed, phase>>

AskFlush ==
  /\ phase = "open"
  /\ owed' = TRUE
  /\ UNCHANGED <<written, flushed, phase>>

DoFlush ==
  /\ phase = "open"
  /\ owed
  /\ flushed' = written
  /\ owed' = FALSE
  /\ UNCHANGED <<written, phase>>

\* The connection is taken over: possible only while nothing is owed on it.
TakeOver ==
  /\ phase = "open"
  /\ ~owed
  /\ phase' = "hijacked"
  /\ UNCHANGED <<written, flushed, owed>>

\* The response ends, and an owed flush is done no later than that.
End ==
  /\ phase # "ended"
  /\ phase' = "ended"
  /\ flushed' = IF owed THEN written ELSE flushed
  /\ owed' = FALSE
  /\ UNCHANGED written

\* Asked for after the end, a flush is done at once: it is never owed.
FlushAfterEnd ==
  /\ phase = "ended"
  /\ flushed' = written
  /\ UNCHANGED <<written, owed, phase>>

Next == Write \/ AskFlush \/ DoFlush \/ TakeOver \/ End \/ FlushAfterEnd

\* An owed flush is not owed for ever.
Spec == Init /\ [][Next]_vars /\ WF_vars(DoFlush)
=============================================================================
