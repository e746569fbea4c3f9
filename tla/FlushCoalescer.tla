--------------------------- MODULE FlushCoalescer ---------------------------
(***************************************************************************)
(* coalescer (internal/proxy/proxy.go): the http.ResponseWriter hostshift  *)
(* hands to httputil.ReverseProxy.  Writes pass through; a Flush is        *)
(* swallowed and done at most FlushLatency later by a time.AfterFunc       *)
(* goroutine.  The real writer is not safe for concurrent use and must not *)
(* be touched once the handler has returned, so everything hangs on mu,    *)
(* pending, stopped and on what a timer that has already fired can still   *)
(* do.                                                                     *)
(*                                                                         *)
(* An operator whose comment begins "Bug:" is a wrong form of the one that *)
(* follows it, which the run must be able to tell from the right one.      *)
(***************************************************************************)
EXTENDS Naturals, FiniteSets

CONSTANTS
  Handler,     \* the goroutine that runs the request's handler
  Hooks,       \* transport goroutines that write a 1xx header through it
  Late,        \* goroutines that kept the writer and flush it whenever they
               \* like: httputil has none, Flush provides for them
  Goroutines,  \* what time.AfterFunc may start
  NoOne,       \* mu is free
  MaxWrites    \* no further Write is called once this many are done

Callers == Hooks \cup Late \cup {Handler}
Threads == Callers \cup Goroutines

ASSUME ThreadsAssumption ==
  /\ Handler \notin Hooks \cup Late
  /\ Hooks \cap Late = {}
  /\ Callers \cap Goroutines = {}
  /\ NoOne \notin Threads
ASSUME MaxWritesAssumption == MaxWrites \in Nat

VARIABLES
  mu,        \* who holds c.mu
  armed,     \* c.t is running
  pending,   \* c.pending
  stopped,   \* c.stopped
  pc,        \* where each goroutine is
  written,   \* writes the real ResponseWriter has taken
  flushed,   \* how many of them a real Flush has pushed out
  hijacked,  \* the connection was handed over
  answered   \* the handler itself has called Write or Flush

vars == <<mu, armed, pending, stopped, pc, written, flushed, hijacked, answered>>

-----------------------------------------------------------------------------
\* "in..." is inside the real ResponseWriter.
InWriter == {"inWrite", "inFlush", "inDelayed", "inStop"}

CallerPc == {"idle", "wantWrite", "inWrite", "wantFlush", "inFlush",
             "wantStop", "inStop", "returned"}
TimerPc  == {"idle", "wantDelayed", "inDelayed"}

\* Nothing is pushed out that was not written.
TypeOK ==
  /\ mu \in Threads \cup {NoOne}
  /\ armed \in BOOLEAN
  /\ pending \in BOOLEAN
  /\ stopped \in BOOLEAN
  /\ pc \in [Threads -> CallerPc \cup TimerPc]
  /\ \A c \in Callers : pc[c] \in CallerPc
  /\ \A g \in Goroutines : pc[g] \in TimerPc
  /\ written \in Nat
  /\ flushed \in 0 .. written
  /\ hijacked \in BOOLEAN
  /\ answered \in BOOLEAN

Init ==
  /\ mu = NoOne
  /\ armed = FALSE
  /\ pending = FALSE
  /\ stopped = FALSE
  /\ pc = [p \in Threads |-> "idle"]
  /\ written = 0
  /\ flushed = 0
  /\ hijacked = FALSE
  /\ answered = FALSE

Goto(p, l)  == pc' = [pc EXCEPT ![p] = l]
Lock(p)     == mu = NoOne /\ mu' = p
Unlock(p)   == mu = p /\ mu' = NoOne
Returned    == pc[Handler] = "returned"

\* ServeHTTP is still running and the connection is still its own.
Serving == pc[Handler] \in {"idle", "wantWrite", "inWrite", "wantFlush"} /\ ~hijacked

-----------------------------------------------------------------------------
(* Write and WriteHeader: straight through, under mu. *)

CallWrite(c) ==
  /\ c \in Hooks \cup {Handler}
  /\ pc[c] = "idle"
  /\ Serving
  /\ written < MaxWrites
  /\ Goto(c, "wantWrite")
  /\ answered' = (answered \/ c = Handler)
  /\ UNCHANGED <<mu, armed, pending, stopped, written, flushed, hijacked>>

BeginWrite(c) ==
  /\ pc[c] = "wantWrite"
  /\ Lock(c)
  /\ Goto(c, "inWrite")
  /\ UNCHANGED <<armed, pending, stopped, written, flushed, hijacked, answered>>

EndWrite(c) ==
  /\ pc[c] = "inWrite"
  /\ Unlock(c)
  /\ Goto(c, "idle")
  /\ written' = written + 1
  /\ UNCHANGED <<armed, pending, stopped, flushed, hijacked, answered>>

(* Flush: remembered, unless one is remembered already; done at once only
   after stop. *)

CallFlush(c) ==
  /\ pc[c] = "idle"
  /\ \/ c = Handler /\ Serving
     \/ c \in Late /\ ~hijacked
  /\ Goto(c, "wantFlush")
  /\ answered' = TRUE
  /\ UNCHANGED <<mu, armed, pending, stopped, written, flushed, hijacked>>

\* Bug: only the first flush starts the timer.
FlushDeferredNoReset(c) ==
  /\ pc[c] = "wantFlush"
  /\ mu = NoOne
  /\ ~stopped
  /\ pending' = TRUE
  /\ Goto(c, "idle")
  /\ UNCHANGED <<mu, armed, stopped, written, flushed, hijacked, answered>>

FlushDeferred(c) ==
  /\ pc[c] = "wantFlush"
  /\ mu = NoOne
  /\ ~stopped
  /\ pending' = TRUE
  /\ armed' = (pending => armed)   \* AfterFunc or t.Reset, if none was pending
  /\ Goto(c, "idle")
  /\ UNCHANGED <<mu, stopped, written, flushed, hijacked, answered>>

FlushStopped(c) ==
  /\ pc[c] = "wantFlush"
  /\ stopped
  /\ Lock(c)
  /\ Goto(c, "inFlush")
  /\ UNCHANGED <<armed, pending, stopped, written, flushed, hijacked, answered>>

EndFlushStopped(c) ==
  /\ pc[c] = "inFlush"
  /\ Unlock(c)
  /\ flushed' = written
  /\ Goto(c, "idle")
  /\ UNCHANGED <<armed, pending, stopped, written, hijacked, answered>>

(* The timer: it fires on a goroutine of its own, which then waits for mu. *)

Fire(g) ==
  /\ armed
  /\ pc[g] = "idle"
  /\ armed' = FALSE
  /\ Goto(g, "wantDelayed")
  /\ UNCHANGED <<mu, pending, stopped, written, flushed, hijacked, answered>>

DelayedNothing(g) ==
  /\ pc[g] = "wantDelayed"
  /\ mu = NoOne
  /\ ~pending
  /\ Goto(g, "idle")
  /\ UNCHANGED <<mu, armed, pending, stopped, written, flushed, hijacked, answered>>

\* Bug: the timer's goroutine does not take mu.
DelayedFlushUnlocked(g) ==
  /\ pc[g] = "wantDelayed"
  /\ pending
  /\ Goto(g, "inDelayed")
  /\ UNCHANGED <<mu, armed, pending, stopped, written, flushed, hijacked, answered>>

DelayedFlush(g) ==
  /\ pc[g] = "wantDelayed"
  /\ pending
  /\ Lock(g)
  /\ Goto(g, "inDelayed")
  /\ UNCHANGED <<armed, pending, stopped, written, flushed, hijacked, answered>>

\* Bug: pending is not cleared.
EndDelayedFlushStillPending(g) ==
  /\ pc[g] = "inDelayed"
  /\ Unlock(g)
  /\ flushed' = written
  /\ Goto(g, "idle")
  /\ UNCHANGED <<armed, pending, stopped, written, hijacked, answered>>

EndDelayedFlush(g) ==
  /\ pc[g] = "inDelayed"
  /\ Unlock(g)
  /\ flushed' = written
  /\ pending' = FALSE
  /\ Goto(g, "idle")
  /\ UNCHANGED <<armed, stopped, written, hijacked, answered>>

(* stop, deferred by the handler: it runs once ServeHTTP is done, forbids a
   further deferral, and does the owed flush itself.  ServeHTTP does not
   return while a hook is inside the writer (httputil's roundTripMutex). *)

CallStop ==
  /\ pc[Handler] = "idle"
  /\ \A h \in Hooks : pc[h] = "idle"
  /\ Goto(Handler, "wantStop")
  /\ UNCHANGED <<mu, armed, pending, stopped, written, flushed, hijacked, answered>>

StopIdle ==
  /\ pc[Handler] = "wantStop"
  /\ mu = NoOne
  /\ ~pending
  /\ stopped' = TRUE
  /\ armed' = FALSE
  /\ Goto(Handler, "returned")
  /\ UNCHANGED <<mu, pending, written, flushed, hijacked, answered>>

StopPending ==
  /\ pc[Handler] = "wantStop"
  /\ pending
  /\ Lock(Handler)
  /\ stopped' = TRUE
  /\ armed' = FALSE     \* t.Stop() does not wait for a timer that has fired
  /\ Goto(Handler, "inStop")
  /\ UNCHANGED <<pending, written, flushed, hijacked, answered>>

\* Bug: pending is not cleared.
EndStopStillPending ==
  /\ pc[Handler] = "inStop"
  /\ Unlock(Handler)
  /\ flushed' = written
  /\ Goto(Handler, "returned")
  /\ UNCHANGED <<armed, pending, stopped, written, hijacked, answered>>

\* Bug: pending is cleared and the flush forgotten.
EndStopUnflushed ==
  /\ pc[Handler] = "inStop"
  /\ Unlock(Handler)
  /\ pending' = FALSE
  /\ Goto(Handler, "returned")
  /\ UNCHANGED <<armed, stopped, written, flushed, hijacked, answered>>

EndStop ==
  /\ pc[Handler] = "inStop"
  /\ Unlock(Handler)
  /\ flushed' = written
  /\ pending' = FALSE
  /\ Goto(Handler, "returned")
  /\ UNCHANGED <<armed, stopped, written, hijacked, answered>>

(* Hijack takes no lock.  ReverseProxy calls it for a 101, before the handler
   has written or flushed anything and with the transport's hooks done. *)
Hijack ==
  /\ pc[Handler] = "idle"
  /\ ~answered
  /\ ~hijacked
  /\ \A h \in Hooks : pc[h] = "idle"
  /\ hijacked' = TRUE
  /\ UNCHANGED <<mu, armed, pending, stopped, pc, written, flushed, answered>>

-----------------------------------------------------------------------------
CallerStep(c) ==
  \/ CallWrite(c) \/ BeginWrite(c) \/ EndWrite(c)
  \/ CallFlush(c) \/ FlushDeferred(c) \/ FlushStopped(c) \/ EndFlushStopped(c)

TimerStep(g) ==
  \/ Fire(g) \/ DelayedNothing(g) \/ DelayedFlush(g) \/ EndDelayedFlush(g)

HandlerStep == CallStop \/ StopIdle \/ StopPending \/ EndStop \/ Hijack

Next ==
  \/ \E c \in Callers : CallerStep(c)
  \/ \E g \in Goroutines : TimerStep(g)
  \/ HandlerStep

Spec == Init /\ [][Next]_vars

\* A started timer fires, whoever has entered the writer leaves it, and Go's
\* mutex hands itself to a waiter that has starved for a millisecond: an
\* acquisition that keeps being possible is made, hence strong fairness.
\* Nothing obliges a caller to call.
Fairness ==
  /\ WF_vars(\E g \in Goroutines : Fire(g))
  /\ \A g \in Goroutines :
       /\ SF_vars(DelayedNothing(g))
       /\ SF_vars(DelayedFlush(g))
       /\ WF_vars(EndDelayedFlush(g))
  /\ \A c \in Callers : WF_vars(EndWrite(c)) /\ WF_vars(EndFlushStopped(c))
  /\ SF_vars(StopIdle)
  /\ SF_vars(StopPending)
  /\ WF_vars(EndStop)

FairSpec == Spec /\ Fairness

-----------------------------------------------------------------------------
\* The real ResponseWriter is never entered by two goroutines at once: the
\* timer's flush, the copy loop's Write, a 1xx hook's WriteHeader and a flush
\* after stop exclude each other ("The mutex is load-bearing").
WriterExclusive ==
  \A p, q \in Threads :
    pc[p] \in InWriter /\ pc[q] \in InWriter => p = q

\* Once the handler has returned, no timer goroutine is inside the writer or
\* can still get there: one that fired just before stop finds nothing pending,
\* and a Flush that comes too late is not left to a timer.
TimerCannotTouchAfterReturn ==
  Returned => /\ ~armed
              /\ ~pending
              /\ \A g \in Goroutines : pc[g] # "inDelayed"

\* A swallowed flush always has somebody who will do it: the running timer,
\* the goroutine it became, or stop.
OwedFlushHasOwner ==
  pending => \/ armed
             \/ \E g \in Goroutines : pc[g] # "idle"
             \/ pc[Handler] = "inStop"

\* There is never a second timer goroutine while one is still on its way, so
\* t.Reset is never called on a timer whose goroutine is in flight.
OneTimer ==
  /\ \A g, h \in Goroutines : pc[g] # "idle" /\ pc[h] # "idle" => g = h
  /\ armed => \A g \in Goroutines : pc[g] = "idle"

\* Once the handler has returned or the connection was taken over, only a
\* caller that kept the writer on purpose can still reach the real one: no
\* write and no flush of hostshift's own arrives there late.
Untouched ==
  [][ Returned \/ hijacked =>
        \/ UNCHANGED <<written, flushed>>
        \/ \E c \in Late : pc[c] = "inFlush" ]_vars

\* Every flush that was swallowed is done.
FlushHappens == pending ~> ~pending

-----------------------------------------------------------------------------
\* What the writer promises: see DeferredFlush.
Phase ==
  IF Returned THEN "ended" ELSE IF hijacked THEN "hijacked" ELSE "open"

Promise == INSTANCE DeferredFlush WITH owed <- pending, phase <- Phase

\* The coalescer is a DeferredFlush: a response whose flushes were swallowed
\* still leaves with every byte written before the last of them pushed out.
KeepsPromise == Promise!Spec
=============================================================================
