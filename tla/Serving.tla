------------------------------- MODULE Serving -------------------------------
(***************************************************************************)
(* The process of `hostshift proxy` (cmd/hostshift/main.go, cmdProxy) from *)
(* the first request to its exit, around the census of Stats: requests are *)
(* accepted and answered, SIGTERM is handed to a goroutine that logs it    *)
(* and shuts the server down, ListenAndServe returns to the main goroutine,*)
(* which prints the report and returns.  When it has, the process is gone. *)
(* The hook, that goroutine and the report write to the same stderr, one   *)
(* at a time, and a write may block for ever: nobody may be reading.       *)
(***************************************************************************)
EXTENDS Stats

CONSTANT Handler \* the goroutine that waits for the signal

ASSUME ServingAssumption == Handler \notin Responses \cup {Main, None}

VARIABLES
  phase,    \* "serving", "signalled", "draining", "reporting", "exited"
  inflight, \* the requests accepted and not yet answered
  timedOut, \* whether the twenty seconds given to Shutdown have passed
  stderr    \* who is in a write to stderr, or None

serverVars == <<phase, inflight, timedOut, stderr>>

ServerInit ==
  Init /\ phase = "serving" /\ inflight = {} /\ timedOut = FALSE /\ stderr = None

Accept(r) ==
  /\ phase \in {"serving", "signalled"}
  /\ r \notin inflight
  /\ inflight' = inflight \cup {r}
  /\ UNCHANGED <<vars, phase, timedOut, stderr>>

Answer(r) ==
  /\ phase # "exited"
  /\ r \in inflight
  /\ doing[r] = "reading"
  /\ inflight' = inflight \ {r}
  /\ UNCHANGED <<vars, phase, timedOut, stderr>>

-----------------------------------------------------------------------------
(* Who writes to stderr, and when. *)

\* The section the report has come to has no line.
NothingToPrint ==
  CASE reading = "rewrites" -> \A s \in Surfaces : rewrites[s] = 0
    [] reading = "candidates" -> \A s \in Surfaces : candidates[s] = 0
    [] reading = "skips" -> /\ \A k \in Reasons : skips[k] = 0
                            /\ \A n \in Attributes : structured[n] = 0
                            /\ ~noSweep
    [] OTHER -> events = <<>>

\* The next step of w is a write: of a hook that has asked what it asks, of the
\* handler before it shuts the server down, of the report with mu held.
Writes(w) ==
  \/ w \in Responses /\ doing[w] = IF Asks THEN "answered" ELSE "calling"
  \/ w = Handler /\ phase = "signalled"
  \/ /\ w = Main /\ phase = "reporting"
     /\ reading \in {"rewrites", "candidates", "skips", "events"}
     /\ ~NothingToPrint

StartWrite(w) ==
  /\ phase # "exited"
  /\ Writes(w)
  /\ stderr = None
  /\ stderr' = w
  /\ UNCHANGED <<vars, phase, inflight, timedOut>>

\* A step of w that is a write is the end of one.
Written(w) == IF Writes(w) THEN stderr = w /\ stderr' = None ELSE UNCHANGED stderr

-----------------------------------------------------------------------------
Serve(r) ==
  /\ phase # "exited"
  /\ r \in inflight
  /\ Recording(r)
  /\ Written(r)
  /\ UNCHANGED <<phase, inflight, timedOut>>

Signal ==
  /\ phase = "serving"
  /\ phase' = "signalled"
  /\ UNCHANGED <<vars, inflight, timedOut, stderr>>

\* Once "draining" is logged, Shutdown closes the listener at once and waits for
\* the requests in flight or its timeout; nothing waits for it.
Shutdown ==
  /\ phase = "signalled"
  /\ Written(Handler)
  /\ phase' = "draining"
  /\ UNCHANGED <<vars, inflight, timedOut>>

\* Shutdown returns when nothing is in flight.
Timeout ==
  /\ phase \in {"draining", "reporting"}
  /\ inflight # {}
  /\ ~timedOut
  /\ timedOut' = TRUE
  /\ UNCHANGED <<vars, phase, inflight, stderr>>

\* ListenAndServe returns as soon as its listener is closed.
ListenReturns ==
  /\ phase = "draining"
  /\ phase' = "reporting"
  /\ UNCHANGED <<vars, inflight, timedOut, stderr>>

\* Each section is printed with mu held.
WriteReport ==
  /\ phase = "reporting"
  /\ reading # "done"
  /\ Snapshot \/ Copying
  /\ Written(Main)
  /\ UNCHANGED <<phase, inflight, timedOut>>

Exit ==
  /\ phase = "reporting"
  /\ reading = "done"
  /\ phase' = "exited"
  /\ UNCHANGED <<vars, inflight, timedOut, stderr>>

ServerNext ==
  \/ \E r \in Responses : Accept(r) \/ Answer(r) \/ Serve(r)
  \/ \E w \in Responses \cup {Handler, Main} : StartWrite(w)
  \/ Signal \/ Shutdown \/ Timeout
  \/ ListenReturns \/ WriteReport \/ Exit

\* A goroutine that is not in a write goes on: inside Record, the handler and main
\* up to their next write.  It gets mu, and its turn at stderr, although others
\* take them in between (Go's mutex goes to the longest waiter after a
\* millisecond).  That a write ever ends is not assumed.
Counts(r) == Serve(r) /\ (Lock(r) \/ Count(r) \/ Unlock(r))
MainGoesOn ==
  StartWrite(Main) \/ ListenReturns \/ (WriteReport /\ ~Writes(Main)) \/ Exit

Fairness ==
  /\ \A r \in Responses : SF_<<vars, serverVars>>(Counts(r))
  /\ SF_<<vars, serverVars>>(StartWrite(Handler))
  /\ SF_<<vars, serverVars>>(MainGoesOn)

ServerSpec == ServerInit /\ [][ServerNext]_<<vars, serverVars>> /\ Fairness

-----------------------------------------------------------------------------
\* While the process serves, a write that blocks in a hook stops no counting
\* (stats.go:150): who wants to count gets to, whatever the hooks are doing.  Once
\* the report is being printed that is no longer so, it writes with mu held.
CountingGoesOn ==
  \A r \in Responses :
    doing[r] = "waiting" ~> (doing[r] # "waiting" \/ phase \in {"reporting", "exited"})

\* Every write to stderr ends: somebody reads it.
WritesEnd == []<>(stderr = None)

\* A signal ends the process, whatever hooks and requests it finds in flight, as
\* long as no write to stderr blocks for ever.
SignalEnds == WritesEnd => (phase = "signalled" ~> phase = "exited")

\* The same with nobody reading stderr.  It does not hold (BlockedLog): a hook's
\* write, "draining" itself or the report keeps the process from its end, and
\* the report keeps everybody from counting.
SignalEndsUnread == phase = "signalled" ~> phase = "exited"

\* main.go:531, "SIGTERM drains": what was in flight is answered before the
\* process is gone, or Shutdown gave up on it.
Drained == phase = "exited" => inflight = {} \/ timedOut
=============================================================================
