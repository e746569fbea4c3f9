-------------------------------- MODULE Stats --------------------------------
(***************************************************************************)
(* The census (internal/rewrite/stats.go): counters that every response in *)
(* flight records into, under one mutex, and a hook that is told of every  *)
(* event outside of it, because it writes to the container's log and may   *)
(* ask the counters something.  A method is as many steps as other         *)
(* goroutines may come between: taking mu, each event, giving mu back,     *)
(* each call of the hook.                                                  *)
(***************************************************************************)
EXTENDS Integers, Sequences, FiniteSets

CONSTANTS
  Responses,   \* goroutines that record
  Surfaces, Reasons,
  Attributes,  \* the attribute names Structured is called with
  maxStructured, \* bound on what Structured counts of one name
  Batches,     \* what one call of Record may be given: outcomes, in order
  StreamLen,   \* bound on the events of one response
  maxEvents,   \* room in the --explain trace
  Explain, Hooked, Asks, \* the trace is kept; OnEvent was called; the hook reads the counters
  Main,        \* the goroutine that takes snapshots
  None

Rewrote == "rewrote"
Outcomes == Reasons \cup {Rewrote}

ASSUME StatsAssumption ==
  /\ Main \notin Responses /\ None \notin Responses \cup {Main}
  /\ Rewrote \notin Reasons
  /\ Surfaces # {}
  /\ Batches \subseteq Seq(Outcomes) \ {<<>>}
  /\ StreamLen \in Nat /\ maxEvents \in Nat /\ maxStructured \in Nat
  /\ Explain \in BOOLEAN /\ Hooked \in BOOLEAN /\ Asks \in BOOLEAN

VARIABLES
  mu,         \* who holds the mutex, or None
  candidates, rewrites, skips,
  structured, \* how often Structured was called with each name
  noSweep,    \* whether SweepSkipped was called
  events,     \* the trace
  doing,      \* where each response is in Record
  call,       \* what it was called with: surface, batch and base
  next,       \* the event of the batch it is at
  counted,    \* history: the events that were counted
  told,       \* what the hook was told of each response
  reading,    \* where Main is in Snapshot
  copy        \* what it has copied, and history: what was counted by then

counters == <<candidates, rewrites, skips, structured, noSweep, events, counted>>
vars == <<mu, counters, doing, call, next, told, reading, copy>>

\* The i-th event of a call, at its place in the stream.  "from" and "to" are
\* the places of the first and the last event of the same call.
Event(r, c, i) ==
  [of |-> r, at |-> c.base + i, from |-> c.base + 1, to |-> c.base + Len(c.batch),
   surface |-> c.surface, outcome |-> c.batch[i]]

NoCopy == [candidates |-> [s \in Surfaces |-> 0], rewrites |-> [s \in Surfaces |-> 0],
           skips |-> [k \in Reasons |-> 0], events |-> <<>>, counted |-> {}]

Init ==
  /\ mu = None
  /\ candidates = [s \in Surfaces |-> 0]
  /\ rewrites = [s \in Surfaces |-> 0]
  /\ skips = [k \in Reasons |-> 0]
  /\ structured = [n \in Attributes |-> 0]
  /\ noSweep = FALSE
  /\ events = <<>>
  /\ doing = [r \in Responses |-> "reading"]
  /\ call = [r \in Responses |-> [surface |-> CHOOSE s \in Surfaces : TRUE,
                                  batch |-> <<>>, base |-> 0]]
  /\ next = [r \in Responses |-> 1]
  /\ counted = {}
  /\ told = [r \in Responses |-> <<>>]
  /\ reading = "no"
  /\ copy = NoCopy

-----------------------------------------------------------------------------
(* Record. *)

\* Where the values of the response read so far end.
End(r) == call[r].base + Len(call[r].batch)

Record(r, s, batch) ==
  /\ doing[r] = "reading"
  /\ End(r) + Len(batch) <= StreamLen
  /\ call' = [call EXCEPT ![r] = [surface |-> s, batch |-> batch, base |-> End(r)]]
  /\ next' = [next EXCEPT ![r] = 1]
  /\ doing' = [doing EXCEPT ![r] = "waiting"]
  /\ UNCHANGED <<mu, counters, told, reading, copy>>

\* Bug: mu is taken for reading, which others may do at the same time.
LockShared(r) ==
  /\ doing[r] = "waiting"
  /\ doing' = [doing EXCEPT ![r] = "counting"]
  /\ UNCHANGED <<mu, counters, call, next, told, reading, copy>>

\* Bug: the hook is called first, and the batch is not counted.
LockToCall(r) ==
  /\ doing[r] = "waiting"
  /\ doing' = [doing EXCEPT ![r] = "calling"]
  /\ UNCHANGED <<mu, counters, call, next, told, reading, copy>>

Lock(r) ==
  /\ doing[r] = "waiting"
  /\ mu = None
  /\ mu' = r
  /\ doing' = [doing EXCEPT ![r] = "counting"]
  /\ UNCHANGED <<counters, call, next, told, reading, copy>>

Traced(e) ==
  IF Explain /\ Len(events) < maxEvents THEN Append(events, e) ELSE events

Count(r) ==
  LET e == Event(r, call[r], next[r])
  IN  /\ doing[r] = "counting"
      /\ next[r] <= Len(call[r].batch)
      /\ candidates' = [candidates EXCEPT ![e.surface] = @ + 1]
      /\ IF e.outcome = Rewrote
         THEN /\ rewrites' = [rewrites EXCEPT ![e.surface] = @ + 1]
              /\ UNCHANGED skips
         ELSE /\ skips' = [skips EXCEPT ![e.outcome] = @ + 1]
              /\ UNCHANGED rewrites
      /\ events' = Traced(e)
      /\ counted' = counted \cup {e}
      /\ next' = [next EXCEPT ![r] = @ + 1]
      /\ UNCHANGED <<mu, structured, noSweep, doing, call, told, reading, copy>>

\* Bug: defer s.mu.Unlock(), and the hook is called with mu held.
UnlockLast(r) ==
  /\ doing[r] = "counting"
  /\ next[r] > Len(call[r].batch)
  /\ mu' = IF Hooked THEN mu ELSE None
  /\ doing' = [doing EXCEPT ![r] = IF Hooked THEN "calling" ELSE "reading"]
  /\ next' = [next EXCEPT ![r] = 1]
  /\ UNCHANGED <<counters, call, told, reading, copy>>

Unlock(r) ==
  /\ doing[r] = "counting"
  /\ next[r] > Len(call[r].batch)
  /\ mu' = None
  /\ doing' = [doing EXCEPT ![r] = IF Hooked THEN "calling" ELSE "reading"]
  /\ next' = [next EXCEPT ![r] = 1]
  /\ UNCHANGED <<counters, call, told, reading, copy>>

\* The hook reads the counter of the surface it is told about: Rewrites.
Ask(r) ==
  /\ doing[r] = "calling"
  /\ Asks
  /\ mu = None
  /\ doing' = [doing EXCEPT ![r] = "answered"]
  /\ UNCHANGED <<mu, counters, call, next, told, reading, copy>>

\* Bug: the events are handed on as they were given, without the base.
TellValue(r) ==
  LET e == Event(r, [call[r] EXCEPT !.base = 0], next[r])
  IN  /\ doing[r] = IF Asks THEN "answered" ELSE "calling"
      /\ told' = [told EXCEPT ![r] = Append(@, e)]
      /\ next' = [next EXCEPT ![r] = @ + 1]
      /\ doing' = [doing EXCEPT ![r] =
                     IF next[r] = Len(call[r].batch) THEN "reading" ELSE "calling"]
      /\ UNCHANGED <<mu, counters, call, reading, copy>>

Tell(r) ==
  LET e == Event(r, call[r], next[r])
  IN  /\ doing[r] = IF Asks THEN "answered" ELSE "calling"
      /\ told' = [told EXCEPT ![r] = Append(@, e)]
      /\ next' = [next EXCEPT ![r] = @ + 1]
      /\ doing' = [doing EXCEPT ![r] =
                     IF next[r] = Len(call[r].batch) THEN "reading" ELSE "calling"]
      /\ UNCHANGED <<mu, counters, call, reading, copy>>

-----------------------------------------------------------------------------
(* Structured and SweepSkipped, which take mu for one assignment. *)

Structured(r, n) ==
  /\ doing[r] = "reading"
  /\ mu = None
  /\ structured[n] < maxStructured
  /\ structured' = [structured EXCEPT ![n] = @ + 1]
  /\ UNCHANGED <<mu, candidates, rewrites, skips, noSweep, events, counted,
                 doing, call, next, told, reading, copy>>

SweepSkipped(r) ==
  /\ doing[r] = "reading"
  /\ mu = None
  /\ noSweep' = TRUE
  /\ UNCHANGED <<mu, candidates, rewrites, skips, structured, events, counted,
                 doing, call, next, told, reading, copy>>

-----------------------------------------------------------------------------
(* Snapshot, and WriteReport: the maps are gone through one after the other. *)

\* Bug: the maps are read without mu.
SnapshotUnlocked ==
  /\ reading \in {"no", "done"}
  /\ mu' = Main
  /\ reading' = "rewrites"
  /\ copy' = [NoCopy EXCEPT !.counted = counted]
  /\ UNCHANGED <<counters, doing, call, next, told>>

Snapshot ==
  /\ reading \in {"no", "done"}
  /\ mu = None
  /\ mu' = Main
  /\ reading' = "rewrites"
  /\ copy' = [NoCopy EXCEPT !.counted = counted]
  /\ UNCHANGED <<counters, doing, call, next, told>>

CopyRewrites ==
  /\ reading = "rewrites"
  /\ copy' = [copy EXCEPT !.rewrites = rewrites]
  /\ reading' = "candidates"
  /\ UNCHANGED <<mu, counters, doing, call, next, told>>

CopyCandidates ==
  /\ reading = "candidates"
  /\ copy' = [copy EXCEPT !.candidates = candidates]
  /\ reading' = "skips"
  /\ UNCHANGED <<mu, counters, doing, call, next, told>>

CopySkips ==
  /\ reading = "skips"
  /\ copy' = [copy EXCEPT !.skips = skips]
  /\ reading' = "events"
  /\ UNCHANGED <<mu, counters, doing, call, next, told>>

CopyEvents ==
  /\ reading = "events"
  /\ copy' = [copy EXCEPT !.events = events]
  /\ reading' = "done"
  /\ mu' = None
  /\ UNCHANGED <<counters, doing, call, next, told>>

Copying == CopyRewrites \/ CopyCandidates \/ CopySkips \/ CopyEvents

-----------------------------------------------------------------------------
Recording(r) ==
  \/ \E s \in Surfaces, batch \in Batches : Record(r, s, batch)
  \/ Lock(r) \/ Count(r) \/ Unlock(r)
  \/ Ask(r) \/ Tell(r)
  \/ \E n \in Attributes : Structured(r, n)
  \/ SweepSkipped(r)

Next == (\E r \in Responses : Recording(r)) \/ Snapshot \/ Copying

Spec == Init /\ [][Next]_vars

-----------------------------------------------------------------------------
(* What the census is worth. *)

OfSurface(C, s) == {e \in C : e.surface = s}
WithOutcome(C, o) == {e \in C : e.outcome = o}

\* Every call of Record is in C with all of its events, or with none.
WholeCalls(C) ==
  \A e \in C : \A at \in e.from .. e.to : \E f \in C : f.of = e.of /\ f.at = at

Tallies(c) ==
  /\ \A s \in Surfaces :
       /\ c.candidates[s] = Cardinality(OfSurface(c.counted, s))
       /\ c.rewrites[s] = Cardinality(WithOutcome(OfSurface(c.counted, s), Rewrote))
  /\ \A k \in Reasons : c.skips[k] = Cardinality(WithOutcome(c.counted, k))

\* A report is of one moment: the three maps count the same events, and a call
\* that was in the middle of its own is in it whole or not at all.
SnapshotOfOneMoment ==
  reading = "done" => Tallies(copy) /\ WholeCalls(copy.counted)

\* The trace is no longer than its room, misses nothing while there is room, and
\* does not mix the events of two calls.
TraceInCalls ==
  /\ Explain => Len(events) = IF Cardinality(counted) < maxEvents THEN Cardinality(counted)
                              ELSE maxEvents
  /\ \A j \in 1 .. Len(events) - 1 :
       events[j].at < events[j].to =>
         /\ events[j + 1].of = events[j].of
         /\ events[j + 1].at = events[j].at + 1

\* The hook hears of each event of a response once, in order and at its place in
\* the stream, and only when the counters it may ask already have it.
HookToldAll ==
  \A r \in Responses :
    /\ \A j \in DOMAIN told[r] : told[r][j].at = j /\ told[r][j] \in counted
    /\ doing[r] \in {"calling", "answered"} =>
         \A i \in DOMAIN call[r].batch : Event(r, call[r], i) \in counted
    /\ Hooked /\ doing[r] = "reading" => Len(told[r]) = End(r)
=============================================================================
