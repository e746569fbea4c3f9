-------------------------- MODULE MCFlushCoalescer --------------------------
(* The instance TLC checks: the handler, one 1xx hook, one late flusher, and
   two timer goroutines, so that a second one could be caught in flight. *)
EXTENDS FlushCoalescer
=============================================================================
