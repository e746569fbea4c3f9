----------------------- MODULE FlushCoalescerProofs -----------------------
(***************************************************************************)
(* What TLC checks of FlushCoalescer on small instances, for any number of *)
(* hooks, late flushers, timer goroutines and writes.  Everything follows  *)
(* from one inductive invariant.                                           *)
(***************************************************************************)
EXTENDS FlushCoalescer, TLAPS

\* Holding mu and being inside the real writer are the same thing.
MutexInv == \A p \in Threads : pc[p] \in InWriter <=> mu = p

\* Which callers get where.
RolesInv ==
  /\ \A h \in Hooks : pc[h] \in {"idle", "wantWrite", "inWrite"}
  /\ \A c \in Late : pc[c] \in {"idle", "wantFlush", "inFlush"}
  /\ pc[Handler] # "inFlush"
  /\ \A c \in Late : pc[c] = "inFlush" => stopped
  /\ pc[Handler] \in {"wantStop", "inStop", "returned"}
       => \A h \in Hooks : pc[h] = "idle"

\* stop sets stopped, kills the timer, and leaves nothing owed behind.
StopInv ==
  /\ stopped <=> pc[Handler] \in {"inStop", "returned"}
  /\ stopped => ~armed
  /\ Returned => ~pending
  /\ pc[Handler] = "inStop" => pending
  /\ \A g \in Goroutines : pc[g] = "inDelayed" => pending

\* A timer, running or fired, is there for a flush that is still owed, unless
\* stop has done that flush meanwhile.
TimerInv ==
  /\ armed => pending
  /\ \A g \in Goroutines : pc[g] # "idle" => pending \/ stopped

\* Before the handler answers, and after it gave the connection away, nothing
\* is owed and nobody is on the way into the writer but a 1xx hook.
Quiet ==
  /\ ~pending
  /\ pc[Handler] \notin {"wantWrite", "inWrite", "wantFlush"}
  /\ \A c \in Late : pc[c] = "idle"
QuietInv ==
  /\ ~answered => Quiet
  /\ hijacked => Quiet /\ \A h \in Hooks : pc[h] = "idle"

Inv ==
  /\ TypeOK
  /\ MutexInv
  /\ RolesInv
  /\ StopInv
  /\ TimerInv
  /\ QuietInv
  /\ OneTimer
  /\ OwedFlushHasOwner
-----------------------------------------------------------------------------
(* Every action keeps Inv. *)

\* The goroutines start idle, with nothing owed and mu free.
LEMMA InitInv == Init => Inv
  <1> SUFFICES ASSUME Init PROVE Inv
    OBVIOUS
  <1>1. TypeOK
    <2>1. flushed \in 0 .. written /\ written \in Nat
      BY DEF Init
    <2> QED BY <2>1, ThreadsAssumption
        DEF Init, TypeOK, CallerPc, TimerPc, Threads, Callers
  <1>2. MutexInv
    BY ThreadsAssumption DEF Init, MutexInv, InWriter, Threads, Callers
  <1>3. RolesInv /\ StopInv /\ TimerInv /\ QuietInv
    BY DEF Init, RolesInv, StopInv, TimerInv, QuietInv, Quiet, Returned,
           Threads, Callers
  <1>4. OneTimer /\ OwedFlushHasOwner
    BY DEF Init, OneTimer, OwedFlushHasOwner, Threads, Callers
  <1> QED BY <1>1, <1>2, <1>3, <1>4 DEF Inv

\* A caller that queues for a write disturbs nothing the others rely on.
LEMMA CallWriteInv ==
  ASSUME Inv, NEW c \in Callers, CallWrite(c) PROVE Inv'
  <1>1. TypeOK'
    BY ThreadsAssumption
        DEF Inv, TypeOK, CallerPc, TimerPc,
            CallWrite, Serving, Callers, Threads, Goto
  <1>2. MutexInv'
    BY ThreadsAssumption
        DEF Inv, TypeOK, MutexInv, InWriter, CallerPc, TimerPc,
            CallWrite, Serving, Callers, Threads, Goto
  <1>3. RolesInv'
    BY ThreadsAssumption
        DEF Inv, TypeOK, RolesInv, CallerPc, TimerPc,
            CallWrite, Serving, Callers, Threads, Goto
  <1>4. (StopInv /\ TimerInv)'
    BY ThreadsAssumption
        DEF Inv, TypeOK, StopInv, TimerInv, RolesInv, Returned, MutexInv, InWriter,
            OneTimer,
            CallWrite, Serving, Callers, Threads, Goto
  <1>5. QuietInv'
    BY ThreadsAssumption
        DEF Inv, TypeOK, QuietInv, Quiet, RolesInv, StopInv, CallerPc,
            CallWrite, Serving, Callers, Threads, Goto
  <1>6. OneTimer'
    BY ThreadsAssumption
        DEF Inv, TypeOK, OneTimer, OwedFlushHasOwner, StopInv, TimerInv,
            CallWrite, Serving, Callers, Threads, Goto
  <1>7. OwedFlushHasOwner'
    BY ThreadsAssumption
        DEF Inv, TypeOK, OwedFlushHasOwner, OneTimer, StopInv, TimerInv,
            CallWrite, Serving, Callers, Threads, Goto
  <1> QED BY <1>1, <1>2, <1>3, <1>4, <1>5, <1>6, <1>7 DEF Inv

\* A write starts only with mu, so nobody else is in the writer.
LEMMA BeginWriteInv ==
  ASSUME Inv, NEW c \in Callers, BeginWrite(c) PROVE Inv'
  BY ThreadsAssumption
     DEF BeginWrite, Lock, Inv, TypeOK, MutexInv, RolesInv, StopInv, TimerInv, QuietInv, Quiet,
         OneTimer, OwedFlushHasOwner, InWriter, CallerPc, TimerPc, Callers,
         Threads, Returned, Goto

\* A write that ends frees mu and adds to what is written.
LEMMA EndWriteInv ==
  ASSUME Inv, NEW c \in Callers, EndWrite(c) PROVE Inv'
  BY ThreadsAssumption
     DEF EndWrite, Unlock, Inv, TypeOK, MutexInv, RolesInv, StopInv, TimerInv, QuietInv, Quiet,
         OneTimer, OwedFlushHasOwner, InWriter, CallerPc, TimerPc, Callers,
         Threads, Returned, Goto

\* A caller that queues for a flush disturbs nothing the others rely on.
LEMMA CallFlushInv ==
  ASSUME Inv, NEW c \in Callers, CallFlush(c) PROVE Inv'
  BY ThreadsAssumption
     DEF CallFlush, Serving, Inv, TypeOK, MutexInv, RolesInv, StopInv, TimerInv, QuietInv, Quiet,
         OneTimer, OwedFlushHasOwner, InWriter, CallerPc, TimerPc, Callers,
         Threads, Returned, Goto

\* A deferred flush starts the timer exactly when none was owed.
LEMMA FlushDeferredInv ==
  ASSUME Inv, NEW c \in Callers, FlushDeferred(c) PROVE Inv'
  <1>1. TypeOK'
    BY ThreadsAssumption
        DEF Inv, TypeOK, CallerPc, TimerPc,
            FlushDeferred, Callers, Threads, Goto
  <1>2. MutexInv'
    BY ThreadsAssumption
        DEF Inv, TypeOK, MutexInv, InWriter, CallerPc, TimerPc,
            FlushDeferred, Callers, Threads, Goto
  <1>3. RolesInv'
    BY ThreadsAssumption
        DEF Inv, TypeOK, RolesInv, CallerPc, TimerPc,
            FlushDeferred, Callers, Threads, Goto
  <1>4. (StopInv /\ TimerInv)'
    BY ThreadsAssumption
        DEF Inv, TypeOK, StopInv, TimerInv, RolesInv, Returned, MutexInv, InWriter,
            OneTimer,
            FlushDeferred, Callers, Threads, Goto
  <1>5. QuietInv'
    BY ThreadsAssumption
        DEF Inv, TypeOK, QuietInv, Quiet, RolesInv, StopInv, CallerPc,
            FlushDeferred, Callers, Threads, Goto
  <1>6. OneTimer'
    BY ThreadsAssumption
        DEF Inv, TypeOK, OneTimer, OwedFlushHasOwner, StopInv, TimerInv,
            FlushDeferred, Callers, Threads, Goto
  <1>7. OwedFlushHasOwner'
    BY ThreadsAssumption
        DEF Inv, TypeOK, OwedFlushHasOwner, OneTimer, StopInv, TimerInv,
            FlushDeferred, Callers, Threads, Goto
  <1> QED BY <1>1, <1>2, <1>3, <1>4, <1>5, <1>6, <1>7 DEF Inv

\* After stop a flush goes to the writer itself, with mu.
LEMMA FlushStoppedInv ==
  ASSUME Inv, NEW c \in Callers, FlushStopped(c) PROVE Inv'
  BY ThreadsAssumption
     DEF FlushStopped, Lock, Inv, TypeOK, MutexInv, RolesInv, StopInv, TimerInv, QuietInv, Quiet,
         OneTimer, OwedFlushHasOwner, InWriter, CallerPc, TimerPc, Callers,
         Threads, Returned, Goto

\* A flush after stop leaves nothing owed.
LEMMA EndFlushStoppedInv ==
  ASSUME Inv, NEW c \in Callers, EndFlushStopped(c) PROVE Inv'
  BY ThreadsAssumption
     DEF EndFlushStopped, Unlock, Inv, TypeOK, MutexInv, RolesInv, StopInv, TimerInv, QuietInv, Quiet,
         OneTimer, OwedFlushHasOwner, InWriter, CallerPc, TimerPc, Callers,
         Threads, Returned, Goto

\* The timer that fires becomes the one goroutine that owns the owed flush.
LEMMA FireInv ==
  ASSUME Inv, NEW g \in Goroutines, Fire(g) PROVE Inv'
  <1>1. TypeOK'
    BY ThreadsAssumption
        DEF Inv, TypeOK, CallerPc, TimerPc,
            Fire, Callers, Threads, Goto
  <1>2. MutexInv'
    BY ThreadsAssumption
        DEF Inv, TypeOK, MutexInv, InWriter, CallerPc, TimerPc,
            Fire, Callers, Threads, Goto
  <1>3. RolesInv'
    BY ThreadsAssumption
        DEF Inv, TypeOK, RolesInv, CallerPc, TimerPc,
            Fire, Callers, Threads, Goto
  <1>4. (StopInv /\ TimerInv)'
    BY ThreadsAssumption
        DEF Inv, TypeOK, StopInv, TimerInv, RolesInv, Returned, MutexInv, InWriter,
            OneTimer,
            Fire, Callers, Threads, Goto
  <1>5. QuietInv'
    BY ThreadsAssumption
        DEF Inv, TypeOK, QuietInv, Quiet, RolesInv, StopInv, CallerPc,
            Fire, Callers, Threads, Goto
  <1>6. OneTimer'
    BY ThreadsAssumption
        DEF Inv, TypeOK, OneTimer, OwedFlushHasOwner, StopInv, TimerInv,
            Fire, Callers, Threads, Goto
  <1>7. OwedFlushHasOwner'
    BY ThreadsAssumption
        DEF Inv, TypeOK, OwedFlushHasOwner, OneTimer, StopInv, TimerInv,
            Fire, Callers, Threads, Goto
  <1> QED BY <1>1, <1>2, <1>3, <1>4, <1>5, <1>6, <1>7 DEF Inv

\* A goroutine that finds nothing pending owned nothing.
LEMMA DelayedNothingInv ==
  ASSUME Inv, NEW g \in Goroutines, DelayedNothing(g) PROVE Inv'
  BY ThreadsAssumption
     DEF DelayedNothing, Inv, TypeOK, MutexInv, RolesInv, StopInv, TimerInv, QuietInv, Quiet,
         OneTimer, OwedFlushHasOwner, InWriter, CallerPc, TimerPc, Callers,
         Threads, Returned, Goto

\* The delayed flush starts only with mu, and only before the handler is done.
LEMMA DelayedFlushInv ==
  ASSUME Inv, NEW g \in Goroutines, DelayedFlush(g) PROVE Inv'
  BY ThreadsAssumption
     DEF DelayedFlush, Lock, Inv, TypeOK, MutexInv, RolesInv, StopInv, TimerInv, QuietInv, Quiet,
         OneTimer, OwedFlushHasOwner, InWriter, CallerPc, TimerPc, Callers,
         Threads, Returned, Goto

\* The delayed flush pays what was owed and frees mu.
LEMMA EndDelayedFlushInv ==
  ASSUME Inv, NEW g \in Goroutines, EndDelayedFlush(g) PROVE Inv'
  <1>1. TypeOK'
    <2>1. flushed' \in 0 .. written' /\ written' \in Nat
      BY DEF Inv, TypeOK, EndDelayedFlush, Unlock
    <2> QED BY <2>1, ThreadsAssumption
        DEF Inv, TypeOK, CallerPc, TimerPc, EndDelayedFlush, Unlock, Callers, Threads, Goto
  <1>2. MutexInv'
    BY ThreadsAssumption
        DEF Inv, TypeOK, MutexInv, InWriter, CallerPc, TimerPc,
            EndDelayedFlush, Unlock, Callers, Threads, Goto
  <1>3. RolesInv'
    BY ThreadsAssumption
        DEF Inv, TypeOK, RolesInv, CallerPc, TimerPc,
            EndDelayedFlush, Unlock, Callers, Threads, Goto
  <1>4. (StopInv /\ TimerInv)'
    BY ThreadsAssumption
        DEF Inv, TypeOK, StopInv, TimerInv, RolesInv, Returned, MutexInv, InWriter,
            OneTimer,
            EndDelayedFlush, Unlock, Callers, Threads, Goto
  <1>5. QuietInv'
    BY ThreadsAssumption
        DEF Inv, TypeOK, QuietInv, Quiet, RolesInv, StopInv, CallerPc,
            EndDelayedFlush, Unlock, Callers, Threads, Goto
  <1>6. OneTimer'
    BY ThreadsAssumption
        DEF Inv, TypeOK, OneTimer, OwedFlushHasOwner, StopInv, TimerInv,
            EndDelayedFlush, Unlock, Callers, Threads, Goto
  <1>7. OwedFlushHasOwner'
    BY ThreadsAssumption
        DEF Inv, TypeOK, OwedFlushHasOwner, OneTimer, StopInv, TimerInv,
            EndDelayedFlush, Unlock, Callers, Threads, Goto
  <1> QED BY <1>1, <1>2, <1>3, <1>4, <1>5, <1>6, <1>7 DEF Inv

\* stop is called with no hook of this response under way.
LEMMA CallStopInv ==
  ASSUME Inv, CallStop PROVE Inv'
  <1>1. TypeOK'
    BY ThreadsAssumption
        DEF Inv, TypeOK, CallerPc, TimerPc,
            CallStop, Callers, Threads, Goto
  <1>2. MutexInv'
    BY ThreadsAssumption
        DEF Inv, TypeOK, MutexInv, InWriter, CallerPc, TimerPc,
            CallStop, Callers, Threads, Goto
  <1>3. RolesInv'
    BY ThreadsAssumption
        DEF Inv, TypeOK, RolesInv, CallerPc, TimerPc,
            CallStop, Callers, Threads, Goto
  <1>4. (StopInv /\ TimerInv)'
    BY ThreadsAssumption
        DEF Inv, TypeOK, StopInv, TimerInv, RolesInv, Returned, MutexInv, InWriter,
            OneTimer,
            CallStop, Callers, Threads, Goto
  <1>5. QuietInv'
    BY ThreadsAssumption
        DEF Inv, TypeOK, QuietInv, Quiet, RolesInv, StopInv, CallerPc,
            CallStop, Callers, Threads, Goto
  <1>6. OneTimer'
    BY ThreadsAssumption
        DEF Inv, TypeOK, OneTimer, OwedFlushHasOwner, StopInv, TimerInv,
            CallStop, Callers, Threads, Goto
  <1>7. OwedFlushHasOwner'
    BY ThreadsAssumption
        DEF Inv, TypeOK, OwedFlushHasOwner, OneTimer, StopInv, TimerInv,
            CallStop, Callers, Threads, Goto
  <1> QED BY <1>1, <1>2, <1>3, <1>4, <1>5, <1>6, <1>7 DEF Inv

\* stop with nothing owed leaves no timer and no goroutine that could write.
LEMMA StopIdleInv ==
  ASSUME Inv, StopIdle PROVE Inv'
  <1>1. TypeOK'
    BY ThreadsAssumption
        DEF Inv, TypeOK, CallerPc, TimerPc,
            StopIdle, Callers, Threads, Goto
  <1>2. MutexInv'
    BY ThreadsAssumption
        DEF Inv, TypeOK, MutexInv, InWriter, CallerPc, TimerPc,
            StopIdle, Callers, Threads, Goto
  <1>3. RolesInv'
    BY ThreadsAssumption
        DEF Inv, TypeOK, RolesInv, CallerPc, TimerPc,
            StopIdle, Callers, Threads, Goto
  <1>4. (StopInv /\ TimerInv)'
    BY ThreadsAssumption
        DEF Inv, TypeOK, StopInv, TimerInv, RolesInv, Returned, MutexInv, InWriter,
            OneTimer,
            StopIdle, Callers, Threads, Goto
  <1>5. QuietInv'
    BY ThreadsAssumption
        DEF Inv, TypeOK, QuietInv, Quiet, RolesInv, StopInv, CallerPc,
            StopIdle, Callers, Threads, Goto
  <1>6. OneTimer'
    BY ThreadsAssumption
        DEF Inv, TypeOK, OneTimer, OwedFlushHasOwner, StopInv, TimerInv,
            StopIdle, Callers, Threads, Goto
  <1>7. OwedFlushHasOwner'
    BY ThreadsAssumption
        DEF Inv, TypeOK, OwedFlushHasOwner, OneTimer, StopInv, TimerInv,
            StopIdle, Callers, Threads, Goto
  <1> QED BY <1>1, <1>2, <1>3, <1>4, <1>5, <1>6, <1>7 DEF Inv

\* stop takes an owed flush over from the timer.
LEMMA StopPendingInv ==
  ASSUME Inv, StopPending PROVE Inv'
  <1>1. TypeOK'
    BY ThreadsAssumption
        DEF Inv, TypeOK, CallerPc, TimerPc,
            StopPending, Lock, Callers, Threads, Goto
  <1>2. MutexInv'
    BY ThreadsAssumption
        DEF Inv, TypeOK, MutexInv, InWriter, CallerPc, TimerPc,
            StopPending, Lock, Callers, Threads, Goto
  <1>3. RolesInv'
    BY ThreadsAssumption
        DEF Inv, TypeOK, RolesInv, CallerPc, TimerPc,
            StopPending, Lock, Callers, Threads, Goto
  <1>4. (StopInv /\ TimerInv)'
    BY ThreadsAssumption
        DEF Inv, TypeOK, StopInv, TimerInv, RolesInv, Returned, MutexInv, InWriter,
            OneTimer,
            StopPending, Lock, Callers, Threads, Goto
  <1>5. QuietInv'
    BY ThreadsAssumption
        DEF Inv, TypeOK, QuietInv, Quiet, RolesInv, StopInv, CallerPc,
            StopPending, Lock, Callers, Threads, Goto
  <1>6. OneTimer'
    BY ThreadsAssumption
        DEF Inv, TypeOK, OneTimer, OwedFlushHasOwner, StopInv, TimerInv,
            StopPending, Lock, Callers, Threads, Goto
  <1>7. OwedFlushHasOwner'
    BY ThreadsAssumption
        DEF Inv, TypeOK, OwedFlushHasOwner, OneTimer, StopInv, TimerInv,
            StopPending, Lock, Callers, Threads, Goto
  <1> QED BY <1>1, <1>2, <1>3, <1>4, <1>5, <1>6, <1>7 DEF Inv

\* stop pays what was owed before the handler returns.
LEMMA EndStopInv ==
  ASSUME Inv, EndStop PROVE Inv'
  <1>1. TypeOK'
    <2>1. flushed' \in 0 .. written' /\ written' \in Nat
      BY DEF Inv, TypeOK, EndStop, Unlock
    <2> QED BY <2>1, ThreadsAssumption
        DEF Inv, TypeOK, CallerPc, TimerPc, EndStop, Unlock, Callers, Threads, Goto
  <1>2. MutexInv'
    BY ThreadsAssumption
        DEF Inv, TypeOK, MutexInv, InWriter, CallerPc, TimerPc,
            EndStop, Unlock, Callers, Threads, Goto
  <1>3. RolesInv'
    BY ThreadsAssumption
        DEF Inv, TypeOK, RolesInv, CallerPc, TimerPc,
            EndStop, Unlock, Callers, Threads, Goto
  <1>4. (StopInv /\ TimerInv)'
    BY ThreadsAssumption
        DEF Inv, TypeOK, StopInv, TimerInv, RolesInv, Returned, MutexInv, InWriter,
            OneTimer,
            EndStop, Unlock, Callers, Threads, Goto
  <1>5. QuietInv'
    BY ThreadsAssumption
        DEF Inv, TypeOK, QuietInv, Quiet, RolesInv, StopInv, CallerPc,
            EndStop, Unlock, Callers, Threads, Goto
  <1>6. OneTimer'
    BY ThreadsAssumption
        DEF Inv, TypeOK, OneTimer, OwedFlushHasOwner, StopInv, TimerInv,
            EndStop, Unlock, Callers, Threads, Goto
  <1>7. OwedFlushHasOwner'
    BY ThreadsAssumption
        DEF Inv, TypeOK, OwedFlushHasOwner, OneTimer, StopInv, TimerInv,
            EndStop, Unlock, Callers, Threads, Goto
  <1> QED BY <1>1, <1>2, <1>3, <1>4, <1>5, <1>6, <1>7 DEF Inv

\* A connection is handed over only while nothing is owed on it.
LEMMA HijackInv ==
  ASSUME Inv, Hijack PROVE Inv'
  BY ThreadsAssumption
     DEF Hijack, Inv, TypeOK, MutexInv, RolesInv, StopInv, TimerInv, QuietInv, Quiet,
         OneTimer, OwedFlushHasOwner, InWriter, CallerPc, TimerPc, Callers,
         Threads, Returned, Goto

\* Inv reads nothing but the variables of the coalescer.
LEMMA StutterInv ==
  ASSUME Inv, UNCHANGED vars PROVE Inv'
  BY DEF vars, Inv, TypeOK, MutexInv, RolesInv, StopInv, TimerInv, QuietInv, Quiet,
         OneTimer, OwedFlushHasOwner, Returned

\* Inv is inductive.
LEMMA NextInv == Inv /\ [Next]_vars => Inv'
  <1> SUFFICES ASSUME Inv, [Next]_vars PROVE Inv'
    OBVIOUS
  <1>1. ASSUME NEW c \in Callers, CallerStep(c) PROVE Inv'
    BY <1>1, CallWriteInv, BeginWriteInv, EndWriteInv, CallFlushInv,
       FlushDeferredInv, FlushStoppedInv, EndFlushStoppedInv DEF CallerStep
  <1>2. ASSUME NEW g \in Goroutines, TimerStep(g) PROVE Inv'
    BY <1>2, FireInv, DelayedNothingInv, DelayedFlushInv, EndDelayedFlushInv
       DEF TimerStep
  <1>3. CASE HandlerStep
    BY <1>3, CallStopInv, StopIdleInv, StopPendingInv, EndStopInv, HijackInv
       DEF HandlerStep
  <1>4. CASE UNCHANGED vars
    BY <1>4, StutterInv
  <1> QED BY <1>1, <1>2, <1>3, <1>4 DEF Next

\* Inv holds in every state of every response, however its goroutines
\* interleave.
THEOREM Invariance == Spec => []Inv
  BY InitInv, NextInv, PTL DEF Spec

-----------------------------------------------------------------------------
(* What follows from it. *)

\* Every variable keeps its type, and no flush pushes out more than was
\* written.
THEOREM TypeCorrect == Spec => []TypeOK
  <1>1. Inv => TypeOK
    BY DEF Inv
  <1> QED BY <1>1, Invariance, PTL

\* The real ResponseWriter, which net/http does not make safe for concurrent
\* use, is never entered by two goroutines at once.
THEOREM Exclusion == Spec => []WriterExclusive
  <1>1. Inv => WriterExclusive
    BY DEF Inv, MutexInv, WriterExclusive
  <1> QED BY <1>1, Invariance, PTL

\* After the handler has returned no timer goroutine is, or gets, inside the
\* writer net/http has taken back.
THEOREM TimerIsDone == Spec => []TimerCannotTouchAfterReturn
  <1>1. Inv => TimerCannotTouchAfterReturn
    BY DEF Inv, StopInv, Returned, TimerCannotTouchAfterReturn
  <1> QED BY <1>1, Invariance, PTL

\* A swallowed flush is never forgotten: somebody is there to do it.
THEOREM FlushHasOwner == Spec => []OwedFlushHasOwner
  <1>1. Inv => OwedFlushHasOwner
    BY DEF Inv
  <1> QED BY <1>1, Invariance, PTL

\* t.Reset never races a timer goroutine that is still on its way.
THEOREM SingleTimer == Spec => []OneTimer
  <1>1. Inv => OneTimer
    BY DEF Inv
  <1> QED BY <1>1, Invariance, PTL

\* Which writes and flushes of the real writer a step can make.
LEMMA WriterSteps ==
  ASSUME Inv, Next, ~UNCHANGED <<written, flushed>>
  PROVE  \/ \E c \in Callers : EndWrite(c) \/ EndFlushStopped(c)
         \/ \E g \in Goroutines : EndDelayedFlush(g)
         \/ EndStop
  <1>1. ASSUME NEW c \in Callers, CallerStep(c)
        PROVE  EndWrite(c) \/ EndFlushStopped(c)
    BY <1>1 DEF CallerStep, CallWrite, BeginWrite, CallFlush, FlushDeferred,
                FlushStopped
  <1>2. ASSUME NEW g \in Goroutines, TimerStep(g)
        PROVE  EndDelayedFlush(g)
    BY <1>2 DEF TimerStep, Fire, DelayedNothing, DelayedFlush
  <1>3. CASE HandlerStep
    BY <1>3 DEF HandlerStep, CallStop, StopIdle, StopPending, Hijack
  <1> QED BY <1>1, <1>2, <1>3 DEF Next

\* Once the handler has returned or the connection is somebody else's, only a
\* caller that kept the writer on purpose reaches it.
THEOREM NotTouchedLate == Spec => Untouched
  <1>1. ASSUME Inv, [Next]_vars, Returned \/ hijacked,
               ~UNCHANGED <<written, flushed>>
        PROVE  \E c \in Late : pc[c] = "inFlush"
    <2>1. Next
      BY <1>1 DEF vars
    <2>2. ASSUME NEW c \in Callers, EndWrite(c) PROVE FALSE
      BY <1>1, <2>2, ThreadsAssumption
         DEF Inv, TypeOK, RolesInv, QuietInv, Quiet, EndWrite, Returned, Callers
    <2>3. ASSUME NEW c \in Callers, EndFlushStopped(c) PROVE c \in Late
      BY <2>3, <1>1 DEF Inv, RolesInv, EndFlushStopped, Callers
    <2>4. ASSUME NEW g \in Goroutines, EndDelayedFlush(g) PROVE FALSE
      BY <1>1, <2>4 DEF Inv, StopInv, QuietInv, Quiet, EndDelayedFlush, Returned
    <2>5. CASE EndStop
      BY <1>1, <2>5 DEF Inv, StopInv, QuietInv, Quiet, EndStop, Returned
    <2>6. \/ \E c \in Callers : EndWrite(c) \/ EndFlushStopped(c)
          \/ \E g \in Goroutines : EndDelayedFlush(g)
          \/ EndStop
      BY <1>1, <2>1, WriterSteps
    <2> QED BY <2>2, <2>3, <2>4, <2>5, <2>6 DEF EndFlushStopped
  <1> QED BY <1>1, Invariance, PTL DEF Spec, Untouched

-----------------------------------------------------------------------------
(* The coalescer implements DeferredFlush: the safety half of KeepsPromise.
   (FlushHappens and DeferredFlush's fairness are left to TLC.) *)

\* A fresh coalescer is a DeferredFlush that owes nothing.
LEMMA PromiseInit == Init => Promise!Init
  BY DEF Init, Promise!Init, Phase, Returned, Threads, Callers

\* Every step of the coalescer is a step of DeferredFlush or changes nothing it shows.
LEMMA PromiseStep ==
  ASSUME Inv, [Next]_vars PROVE [Promise!Next]_(Promise!vars)
  <1> USE DEF Phase, Returned
  <1>1. ASSUME NEW c \in Callers, CallerStep(c)
        PROVE  [Promise!Next]_(Promise!vars)
    <2>1. CASE CallWrite(c) \/ BeginWrite(c) \/ CallFlush(c) \/ FlushStopped(c)
      <3>1. UNCHANGED <<written, flushed, pending, hijacked>>
        BY <2>1 DEF CallWrite, BeginWrite, CallFlush, FlushStopped
      <3>2. Returned' <=> Returned
        BY <2>1 DEF CallWrite, BeginWrite, CallFlush, FlushStopped, Goto, Inv,
                    TypeOK, Callers, Threads
      <3> QED BY <3>1, <3>2 DEF Promise!vars
    <2>2. CASE EndWrite(c)
      <3>1. Phase = "open"
        BY <2>2 DEF EndWrite, Inv, RolesInv, QuietInv, Quiet, Callers
      <3>2. Phase' = "open"
        BY <2>2, <3>1 DEF EndWrite, Goto, Inv, TypeOK, Callers, Threads
      <3> QED BY <2>2, <3>1, <3>2 DEF EndWrite, Promise!Write, Promise!Next
    <2>3. CASE FlushDeferred(c)
      <3>1. Phase = "open"
        BY <2>3 DEF FlushDeferred, Inv, RolesInv, StopInv, QuietInv, Quiet, Callers
      <3>2. Phase' = "open"
        BY <2>3, <3>1 DEF FlushDeferred, Goto, Inv, TypeOK, Callers, Threads
      <3> QED BY <2>3, <3>1, <3>2 DEF FlushDeferred, Promise!AskFlush, Promise!Next
    <2>4. CASE EndFlushStopped(c)
      <3>1. c \in Late /\ Returned
        BY <2>4, ThreadsAssumption DEF EndFlushStopped, Inv, RolesInv, StopInv, MutexInv,
                 InWriter, Callers, Threads, Unlock
      <3>2. Returned'
        BY <2>4, <3>1, ThreadsAssumption DEF EndFlushStopped, Goto, Inv, TypeOK, Callers,
                 Threads
      <3> QED BY <2>4, <3>1, <3>2
              DEF EndFlushStopped, Promise!FlushAfterEnd, Promise!Next
    <2> QED BY <1>1, <2>1, <2>2, <2>3, <2>4 DEF CallerStep
  <1>2. ASSUME NEW g \in Goroutines, TimerStep(g)
        PROVE  [Promise!Next]_(Promise!vars)
    <2>1. (Returned' <=> Returned) /\ UNCHANGED hijacked
      BY <1>2, ThreadsAssumption
         DEF TimerStep, Fire, DelayedNothing, DelayedFlush, EndDelayedFlush,
             Goto, Inv, TypeOK, Callers, Threads
    <2>2. CASE Fire(g) \/ DelayedNothing(g) \/ DelayedFlush(g)
      BY <2>1, <2>2 DEF Fire, DelayedNothing, DelayedFlush, Promise!vars
    <2>3. CASE EndDelayedFlush(g)
      <3>1. Phase = "open" /\ pending
        BY <2>3 DEF EndDelayedFlush, Inv, StopInv, QuietInv, Quiet
      <3> QED BY <2>1, <2>3, <3>1
              DEF EndDelayedFlush, Promise!DoFlush, Promise!Next
    <2> QED BY <1>2, <2>2, <2>3 DEF TimerStep
  <1>3. CASE HandlerStep
    <2>1. CASE CallStop
      <3>1. Returned' <=> Returned
        BY <2>1 DEF CallStop, Goto, Inv, TypeOK, Callers, Threads
      <3> QED BY <2>1, <3>1 DEF CallStop, Promise!vars
    <2>2. CASE StopPending
      <3>1. Returned' <=> Returned
        BY <2>2 DEF StopPending, Goto, Inv, TypeOK, Callers, Threads
      <3> QED BY <2>2, <3>1 DEF StopPending, Promise!vars
    <2>3. CASE StopIdle \/ EndStop
      <3>1. ~Returned /\ Returned'
        BY <2>3 DEF StopIdle, EndStop, Goto, Inv, TypeOK, Callers, Threads
      <3> QED BY <2>3, <3>1
              DEF StopIdle, EndStop, Inv, StopInv, Promise!End, Promise!Next
    <2>4. CASE Hijack
      BY <2>4 DEF Hijack, Inv, QuietInv, Quiet, Promise!TakeOver, Promise!Next
    <2> QED BY <1>3, <2>1, <2>2, <2>3, <2>4 DEF HandlerStep
  <1>4. CASE UNCHANGED vars
    BY <1>4 DEF vars, Promise!vars
  <1> QED BY <1>1, <1>2, <1>3, <1>4 DEF Next

\* Every response of the coalescer is one DeferredFlush allows: nothing is
\* flushed before it is written, nothing is left owed at the end, and the end
\* itself does what is still owed.
THEOREM Refinement == Spec => Promise!Init /\ [][Promise!Next]_(Promise!vars)
  <1>1. Init => Promise!Init
    BY PromiseInit
  <1>2. Inv /\ [Next]_vars => [Promise!Next]_(Promise!vars)
    BY PromiseStep
  <1> QED BY <1>1, <1>2, Invariance, PTL DEF Spec
=============================================================================
