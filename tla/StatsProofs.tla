----------------------------- MODULE StatsProofs -----------------------------
(***************************************************************************)
(* What the census promises, for any number of responses, surfaces and     *)
(* events, whatever the hook does and whenever the process ends.  The      *)
(* counters are tied to the set of the events that were counted: each      *)
(* counter is the size of a part of it, and the part of it that belongs to *)
(* a response is known from how far that response has got.                 *)
(***************************************************************************)
EXTENDS Serving, FiniteSetTheorems, TLAPS

Calls == [surface : Surfaces, batch : Seq(Outcomes), base : Nat]
Events == [of : Responses, at : Nat, from : Nat, to : Nat,
           surface : Surfaces, outcome : Outcomes]

TypeInv ==
  /\ mu \in Responses \cup {Main, None}
  /\ candidates \in [Surfaces -> Nat]
  /\ rewrites \in [Surfaces -> Nat]
  /\ skips \in [Reasons -> Nat]
  /\ doing \in [Responses -> {"reading", "waiting", "counting", "calling", "answered"}]
  /\ call \in [Responses -> Calls]
  /\ next \in [Responses -> Nat]
  /\ counted \in SUBSET Events
  /\ IsFiniteSet(counted)
  /\ events \in Seq(Events)
  /\ told \in [Responses -> Seq(Events)]
  /\ copy \in [candidates : [Surfaces -> Nat], rewrites : [Surfaces -> Nat],
               skips : [Reasons -> Nat], events : Seq(Events), counted : SUBSET Events]
  /\ reading \in {"no", "rewrites", "candidates", "skips", "events", "done"}

\* mu is held by the one response that counts, or by a report.
Holding ==
  /\ \A r \in Responses : doing[r] = "counting" <=> mu = r
  /\ reading \in {"rewrites", "candidates", "skips", "events"} <=> mu = Main

\* Where in its batch a response may be.
InBatch ==
  \A r \in Responses :
    /\ doing[r] = "waiting" => next[r] = 1 /\ Len(call[r].batch) > 0
    /\ doing[r] = "counting" => next[r] \in 1 .. Len(call[r].batch) + 1 /\ Len(call[r].batch) > 0
    /\ doing[r] \in {"calling", "answered"} => next[r] \in 1 .. Len(call[r].batch) /\ Hooked

\* How many events of r have been counted.
Progress(r) ==
  CASE doing[r] = "waiting" -> call[r].base
    [] doing[r] = "counting" -> call[r].base + next[r] - 1
    [] OTHER -> End(r)

\* The events of r that were counted are those up to its progress, and only a
\* response that is counting has a call of which some are missing.
CountedOnce ==
  /\ \A e \in counted :
       /\ 1 <= e.from /\ e.from <= e.at /\ e.at <= Progress(e.of)
       /\ e.to <= Progress(e.of) \/ (mu = e.of /\ e.to = End(e.of))
  /\ \A r \in Responses : \A at \in 1 .. Progress(r) :
       \E e \in counted : e.of = r /\ e.at = at

Tallied ==
  /\ \A s \in Surfaces :
       /\ candidates[s] = Cardinality(OfSurface(counted, s))
       /\ rewrites[s] = Cardinality(WithOutcome(OfSurface(counted, s), Rewrote))
  /\ \A k \in Reasons : skips[k] = Cardinality(WithOutcome(counted, k))

\* What a report has copied is what the counters still are.
Copied ==
  /\ reading \in {"rewrites", "candidates", "skips", "events"} => copy.counted = counted
  /\ reading \in {"candidates", "skips", "events"} => copy.rewrites = rewrites
  /\ reading \in {"skips", "events"} => copy.candidates = candidates
  /\ reading = "events" => copy.skips = skips

\* How much of a response the hook has heard, and that a batch is told when all
\* of it is counted.
Told ==
  \A r \in Responses :
    /\ \A j \in 1 .. Len(told[r]) : told[r][j].at = j /\ told[r][j] \in counted
    /\ doing[r] = "counting" =>
         \A i \in 1 .. next[r] - 1 : Event(r, call[r], i) \in counted
    /\ doing[r] \in {"calling", "answered"} =>
         \A i \in 1 .. Len(call[r].batch) : Event(r, call[r], i) \in counted
    /\ Hooked =>
         Len(told[r]) = CASE doing[r] = "reading" -> End(r)
                          [] doing[r] \in {"waiting", "counting"} -> call[r].base
                          [] OTHER -> call[r].base + next[r] - 1
\* The report that is finished is as it must be.
Reported == reading = "done" => Tallies(copy) /\ WholeCalls(copy.counted)

Inv == TypeInv /\ Holding /\ InBatch /\ CountedOnce /\ Tallied /\ Copied /\ Told /\ Reported

-----------------------------------------------------------------------------
LEMMA InitHolds == Init => Inv
<1> SUFFICES ASSUME Init PROVE Inv
  OBVIOUS
<1> USE StatsAssumption
<1>1. TypeInv
  <2>1. (CHOOSE s \in Surfaces : TRUE) \in Surfaces
    OBVIOUS
  <2>2. [surface |-> CHOOSE s \in Surfaces : TRUE, batch |-> <<>>, base |-> 0] \in Calls
    BY <2>1 DEF Calls
  <2>3. call \in [Responses -> Calls]
    BY <2>2 DEF Init
  <2>4. NoCopy \in [candidates : [Surfaces -> Nat], rewrites : [Surfaces -> Nat],
               skips : [Reasons -> Nat], events : Seq(Events), counted : SUBSET Events]
    BY DEF NoCopy
  <2> QED
    BY <2>3, <2>4, FS_EmptySet DEF Init, TypeInv
<1>2. Holding /\ InBatch /\ Copied /\ Reported
  BY DEF Init, Holding, InBatch, Copied, Reported
<1>3. CountedOnce
  BY DEF Init, CountedOnce, Progress, End
<1>4. Tallied
  <2>1. \A s : OfSurface({}, s) = {} /\ \A o : WithOutcome({}, o) = {}
    BY DEF OfSurface, WithOutcome
  <2> QED
    BY <2>1, FS_EmptySet DEF Init, Tallied
<1>5. Told
  BY DEF Init, Told, End
<1> QED
  BY <1>1, <1>2, <1>3, <1>4, <1>5 DEF Inv

\* A report is never in a call: nobody is counting while Main holds mu.
LEMMA WholeWhenFree ==
    ASSUME Inv, mu \notin Responses
    PROVE  WholeCalls(counted)
<1> SUFFICES ASSUME NEW e \in counted, NEW at \in e.from .. e.to
             PROVE  \E f \in counted : f.of = e.of /\ f.at = at
  BY DEF WholeCalls
<1>1. e \in Events
  BY DEF Inv, TypeInv
<1>2. e.of \in Responses /\ e.from \in Nat /\ e.to \in Nat
  BY <1>1 DEF Events
<1>3. mu # e.of
  BY <1>2
<1>4. 1 <= e.from /\ e.to <= Progress(e.of)
  BY <1>3 DEF Inv, CountedOnce
<1>5. Progress(e.of) \in Int
  <2>1. call[e.of] \in Calls /\ next[e.of] \in Nat
    BY <1>2 DEF Inv, TypeInv
  <2>2. call[e.of].base \in Nat /\ Len(call[e.of].batch) \in Nat
    BY <2>1 DEF Calls
  <2>3. End(e.of) \in Int /\ call[e.of].base + next[e.of] - 1 \in Int
    BY <2>1, <2>2 DEF End
  <2>4. CASE doing[e.of] = "waiting"
    BY <2>2, <2>4 DEF Progress
  <2>5. CASE doing[e.of] = "counting"
    BY <2>3, <2>5 DEF Progress
  <2>6. CASE doing[e.of] \notin {"waiting", "counting"}
    BY <2>3, <2>6 DEF Progress
  <2> QED
    BY <2>4, <2>5, <2>6
<1>6. at \in 1 .. Progress(e.of)
  BY <1>2, <1>4, <1>5
<1> QED
  BY <1>2, <1>6 DEF Inv, CountedOnce

-----------------------------------------------------------------------------
(* One lemma per action. *)

LEMMA RecordKeeps ==
    ASSUME Inv, NEW r \in Responses, NEW s \in Surfaces, NEW batch \in Batches,
           Record(r, s, batch)
    PROVE  Inv'
<1> USE DEF Inv
<1>1. batch \in Seq(Outcomes) /\ Len(batch) > 0
  BY StatsAssumption
<1>2. End(r) \in Nat
  <2>1. call[r] \in Calls
    BY DEF TypeInv
  <2>2. call[r].base \in Nat /\ Len(call[r].batch) \in Nat
    BY <2>1 DEF Calls
  <2> QED
    BY <2>2 DEF End
<1>3. TypeInv'
  <2>1. [surface |-> s, batch |-> batch, base |-> End(r)] \in Calls
    BY <1>1, <1>2 DEF Calls
  <2> QED
    BY <2>1 DEF Record, TypeInv, counters
<1>4. Holding'
  BY DEF Record, Holding, TypeInv, counters
<1>5. InBatch'
  BY <1>1 DEF Record, InBatch, TypeInv
<1>6. \A q \in Responses : Progress(q)' = Progress(q)
  BY DEF Record, Progress, End, TypeInv
<1>7. CountedOnce'
  <2>1. mu # r
    BY DEF Record, Holding
  <2>2. \A q \in Responses \ {r} : End(q)' = End(q)
    BY DEF Record, End, TypeInv
  <2>3. counted' = counted /\ mu' = mu /\ \A e \in counted : e.of \in Responses
    BY DEF Record, counters, TypeInv, Events
  <2> QED
    BY <1>6, <2>1, <2>2, <2>3 DEF CountedOnce
<1>8. Tallied' /\ Copied' /\ Reported'
  BY DEF Record, Tallied, Copied, Reported, counters
<1>9. Told'
  BY DEF Record, Told, TypeInv, End, counters
<1> QED
  BY <1>3, <1>4, <1>5, <1>7, <1>8, <1>9

LEMMA LockKeeps ==
    ASSUME Inv, NEW r \in Responses, Lock(r)
    PROVE  Inv'
<1> USE DEF Inv
<1>1. TypeInv'
  BY DEF Lock, TypeInv, counters
<1>2. Holding'
  BY StatsAssumption DEF Lock, Holding, TypeInv, counters
<1>3. InBatch'
  <2>1. next[r] = 1 /\ Len(call[r].batch) > 0 /\ Len(call[r].batch) \in Nat
    BY DEF Lock, InBatch, TypeInv, Calls
  <2>2. /\ doing' = [doing EXCEPT ![r] = "counting"] /\ UNCHANGED <<call, next>>
        /\ doing \in [Responses -> {"reading", "waiting", "counting", "calling", "answered"}]
    BY DEF Lock, TypeInv
  <2> QED
    BY <2>1, <2>2 DEF InBatch
<1>4. \A q \in Responses : Progress(q)' = Progress(q)
  BY DEF Lock, Progress, End, TypeInv, InBatch, Calls
<1>5. CountedOnce'
  <2>1. \A q \in Responses : q # mu /\ End(q)' = End(q)
    BY StatsAssumption DEF Lock, End
  <2>2. counted' = counted /\ \A e \in counted : e.of \in Responses
    BY DEF Lock, counters, TypeInv, Events
  <2> QED
    BY <1>4, <2>1, <2>2 DEF CountedOnce
<1>6. Tallied' /\ Copied' /\ Reported'
  BY DEF Lock, Tallied, Copied, Reported, counters
<1>7. Told'
  BY DEF Lock, Told, TypeInv, End, counters, InBatch
<1> QED
  BY <1>1, <1>2, <1>3, <1>5, <1>6, <1>7

LEMMA UnlockKeeps ==
    ASSUME Inv, NEW r \in Responses, Unlock(r)
    PROVE  Inv'
<1> USE DEF Inv
<1>0. /\ Len(call[r].batch) \in Nat /\ call[r].base \in Nat
      /\ next[r] = Len(call[r].batch) + 1 /\ Len(call[r].batch) > 0
  BY DEF Unlock, InBatch, TypeInv, Calls
<1>1. TypeInv'
  BY DEF Unlock, TypeInv, counters
<1>2. Holding'
  BY StatsAssumption DEF Unlock, Holding, TypeInv, counters
<1>3. InBatch'
  BY <1>0 DEF Unlock, InBatch, TypeInv
<1>4. \A q \in Responses : Progress(q)' = Progress(q)
  BY <1>0 DEF Unlock, Progress, End, TypeInv
<1>5. CountedOnce'
  <2>1. Progress(r) = End(r)
    BY <1>0 DEF Unlock, Progress, End
  <2>2. \A e \in counted : e.to <= Progress(e.of)
    BY <2>1, StatsAssumption DEF CountedOnce, TypeInv, Events, Unlock, Holding
  <2> QED
    BY <2>2, <1>4 DEF Unlock, CountedOnce, counters, TypeInv, Events
<1>6. Tallied' /\ Copied' /\ Reported'
  BY StatsAssumption DEF Unlock, Tallied, Copied, Reported, counters, Holding
<1>7. Told'
  BY <1>0 DEF Unlock, Told, TypeInv, End, counters
<1> QED
  BY <1>1, <1>2, <1>3, <1>5, <1>6, <1>7
LEMMA AskKeeps ==
    ASSUME Inv, NEW r \in Responses, Ask(r)
    PROVE  Inv'
<1> USE DEF Inv
<1>1. TypeInv'
  BY DEF Ask, TypeInv, counters
<1>2. Holding' /\ InBatch'
  BY DEF Ask, Holding, InBatch, TypeInv, counters
<1>3. \A q \in Responses : Progress(q)' = Progress(q) /\ End(q)' = End(q)
  BY DEF Ask, Progress, End, TypeInv
<1>4. CountedOnce'
  <2>1. counted' = counted /\ mu' = mu /\ \A e \in counted : e.of \in Responses
    BY DEF Ask, counters, TypeInv, Events
  <2> QED
    BY <1>3, <2>1 DEF CountedOnce
<1>5. Tallied' /\ Copied' /\ Reported'
  BY DEF Ask, Tallied, Copied, Reported, counters
<1>6. Told'
  BY DEF Ask, Told, TypeInv, End, counters
<1> QED
  BY <1>1, <1>2, <1>4, <1>5, <1>6

LEMMA TellKeeps ==
    ASSUME Inv, NEW r \in Responses, Tell(r)
    PROVE  Inv'
<1> USE DEF Inv
<1> DEFINE e == Event(r, call[r], next[r])
<1>0. /\ call[r] \in Calls /\ call[r].base \in Nat /\ Len(call[r].batch) \in Nat
      /\ next[r] \in 1 .. Len(call[r].batch) /\ Hooked
      /\ doing[r] \in {"calling", "answered"}
  BY DEF Tell, InBatch, TypeInv, Calls
<1>1. e \in counted /\ e.at = call[r].base + next[r]
  BY <1>0 DEF Told, Event
<1>2. e \in Events
  BY <1>1 DEF TypeInv
<1> HIDE DEF e
<1>3. /\ told' = [told EXCEPT ![r] = Append(@, e)]
      /\ next' = [next EXCEPT ![r] = @ + 1]
      /\ doing' = [doing EXCEPT ![r] =
                     IF next[r] = Len(call[r].batch) THEN "reading" ELSE "calling"]
      /\ UNCHANGED <<mu, counters, call, reading, copy>>
  BY DEF Tell, e
<1>4. TypeInv'
  <2>1. told' \in [Responses -> Seq(Events)]
    <3>1. told \in [Responses -> Seq(Events)]
      BY DEF TypeInv
    <3>2. Append(told[r], e) \in Seq(Events)
      BY <1>2, <3>1
    <3> QED
      BY <1>3, <3>1, <3>2
  <2>2. next' \in [Responses -> Nat]
    BY <1>3 DEF TypeInv
  <2>3. doing' \in [Responses -> {"reading", "waiting", "counting", "calling", "answered"}]
    BY <1>3 DEF TypeInv
  <2> QED
    BY <1>3, <2>1, <2>2, <2>3 DEF TypeInv, counters
<1>5. Holding' /\ InBatch'
  BY <1>0, <1>3 DEF Holding, InBatch, TypeInv, counters
<1>6. \A q \in Responses : Progress(q)' = Progress(q) /\ End(q)' = End(q)
  BY <1>0, <1>3 DEF Progress, End, TypeInv
<1>7. CountedOnce'
  <2>1. counted' = counted /\ mu' = mu /\ \A f \in counted : f.of \in Responses
    BY <1>3 DEF counters, TypeInv, Events
  <2> QED
    BY <1>6, <2>1 DEF CountedOnce
<1>8. Tallied' /\ Copied' /\ Reported'
  BY <1>3 DEF Tallied, Copied, Reported, counters
<1>9. Told'
  <2>1. told[r] \in Seq(Events) /\ Len(told[r]) = call[r].base + next[r] - 1
    BY <1>0 DEF Told, TypeInv
  <2>2. /\ Len(told'[r]) = call[r].base + next[r]
        /\ \A j \in 1 .. Len(told'[r]) : told'[r][j].at = j /\ told'[r][j] \in counted
    <3> DEFINE t == told[r]
    <3>1. told'[r] = Append(t, e)
      BY <1>3 DEF TypeInv
    <3>2. \A j \in 1 .. Len(t) : t[j].at = j /\ t[j] \in counted
      BY DEF Told
    <3>3. t \in Seq(Events) /\ Len(t) = call[r].base + next[r] - 1
      BY <2>1
    <3> HIDE DEF t
    <3>4. /\ Len(Append(t, e)) = Len(t) + 1
          /\ \A j \in 1 .. Len(t) + 1 : Append(t, e)[j] = IF j <= Len(t) THEN t[j] ELSE e
      BY <1>2, <3>3
    <3> QED
      BY <1>0, <1>1, <3>1, <3>2, <3>3, <3>4
  <2>3. ASSUME NEW q \in Responses
        PROVE  /\ \A j \in 1 .. Len(told'[q]) : told'[q][j].at = j /\ told'[q][j] \in counted'
               /\ doing'[q] = "counting" =>
                    \A i \in 1 .. next'[q] - 1 : Event(q, call'[q], i) \in counted'
               /\ doing'[q] \in {"calling", "answered"} =>
                    \A i \in 1 .. Len(call'[q].batch) : Event(q, call'[q], i) \in counted'
    BY <1>0, <1>3, <2>2 DEF Told, TypeInv, counters
  <2>4. ASSUME NEW q \in Responses
        PROVE  Len(told'[q]) = CASE doing'[q] = "reading" -> End(q)'
                          [] doing'[q] \in {"waiting", "counting"} -> call'[q].base
                          [] OTHER -> call'[q].base + next'[q] - 1
    <3>1. CASE q = r
      <4>1. Len(told'[r]) = call[r].base + next[r]
        BY <2>2
      <4>2. /\ doing'[r] = IF next[r] = Len(call[r].batch) THEN "reading" ELSE "calling"
            /\ next'[r] = next[r] + 1 /\ call' = call
        BY <1>3 DEF TypeInv
      <4>3. End(r)' = call[r].base + Len(call[r].batch)
        BY <4>2 DEF End
      <4> QED
        BY <1>0, <3>1, <4>1, <4>2, <4>3
    <3>2. CASE q # r
      BY <1>0, <1>3, <3>2 DEF Told, TypeInv, End
    <3> QED
      BY <3>1, <3>2
  <2> QED
    BY <2>3, <2>4 DEF Told
<1> QED
  BY <1>4, <1>5, <1>7, <1>8, <1>9

LEMMA MarkKeeps ==
    ASSUME Inv, NEW r \in Responses,
           SweepSkipped(r) \/ \E n \in Attributes : Structured(r, n)
    PROVE  Inv'
<1> USE DEF Inv
<1>0. UNCHANGED <<mu, candidates, rewrites, skips, events, counted,
                  doing, call, next, told, reading, copy>>
  BY DEF Structured, SweepSkipped
<1>1. TypeInv'
  BY <1>0 DEF TypeInv
<1>2. Holding' /\ InBatch'
  BY <1>0 DEF Holding, InBatch
<1>3. \A q \in Responses : Progress(q)' = Progress(q) /\ End(q)' = End(q)
  BY <1>0 DEF Progress, End
<1>4. CountedOnce'
  <2>1. counted' = counted /\ mu' = mu /\ \A e \in counted : e.of \in Responses
    BY <1>0 DEF TypeInv, Events
  <2> QED
    BY <1>3, <2>1 DEF CountedOnce
<1>5. Tallied' /\ Copied' /\ Reported'
  BY <1>0 DEF Tallied, Copied, Reported
<1>6. Told'
  BY <1>0 DEF Told, End
<1> QED
  BY <1>1, <1>2, <1>4, <1>5, <1>6

\* An event that is counted makes the parts it belongs to larger by one.
LEMMA OneMoreOfSurface ==
    ASSUME NEW C, IsFiniteSet(C), NEW e, e \notin C, NEW s
    PROVE  Cardinality(OfSurface(C \cup {e}, s)) =
             IF e.surface = s THEN Cardinality(OfSurface(C, s)) + 1
             ELSE Cardinality(OfSurface(C, s))
<1>1. IsFiniteSet(OfSurface(C, s)) /\ e \notin OfSurface(C, s)
  BY FS_Subset DEF OfSurface
<1>2. OfSurface(C \cup {e}, s) = IF e.surface = s THEN OfSurface(C, s) \cup {e}
                                 ELSE OfSurface(C, s)
  BY DEF OfSurface
<1> QED
  BY <1>1, <1>2, FS_AddElement

LEMMA OneMoreWithOutcome ==
    ASSUME NEW C, IsFiniteSet(C), NEW e, e \notin C, NEW o
    PROVE  Cardinality(WithOutcome(C \cup {e}, o)) =
             IF e.outcome = o THEN Cardinality(WithOutcome(C, o)) + 1
             ELSE Cardinality(WithOutcome(C, o))
<1>1. IsFiniteSet(WithOutcome(C, o)) /\ e \notin WithOutcome(C, o)
  BY FS_Subset DEF WithOutcome
<1>2. WithOutcome(C \cup {e}, o) = IF e.outcome = o THEN WithOutcome(C, o) \cup {e}
                                   ELSE WithOutcome(C, o)
  BY DEF WithOutcome
<1> QED
  BY <1>1, <1>2, FS_AddElement

LEMMA OneMoreOfBoth ==
    ASSUME NEW C, IsFiniteSet(C), NEW e, e \notin C, NEW s, NEW o
    PROVE  Cardinality(WithOutcome(OfSurface(C \cup {e}, s), o)) =
             IF e.surface = s /\ e.outcome = o
             THEN Cardinality(WithOutcome(OfSurface(C, s), o)) + 1
             ELSE Cardinality(WithOutcome(OfSurface(C, s), o))
<1>1. IsFiniteSet(OfSurface(C, s)) /\ e \notin OfSurface(C, s)
  BY FS_Subset DEF OfSurface
<1>2. OfSurface(C \cup {e}, s) = IF e.surface = s THEN OfSurface(C, s) \cup {e}
                                 ELSE OfSurface(C, s)
  BY DEF OfSurface
<1> QED
  BY <1>1, <1>2, OneMoreWithOutcome

LEMMA CountKeeps ==
    ASSUME Inv, NEW r \in Responses, Count(r)
    PROVE  Inv'
<1> USE DEF Inv
<1> DEFINE e == Event(r, call[r], next[r])
<1>1. /\ call[r] \in Calls /\ call[r].base \in Nat /\ Len(call[r].batch) \in Nat
      /\ next[r] \in 1 .. Len(call[r].batch)
      /\ doing[r] = "counting" /\ mu = r
  BY DEF Count, InBatch, TypeInv, Calls, Holding
<1>2. /\ e \in Events /\ e.of = r /\ e.at = call[r].base + next[r]
      /\ e.from = call[r].base + 1 /\ e.to = End(r)
  BY <1>1 DEF Event, Events, Calls, End
<1>3. Progress(r) = call[r].base + next[r] - 1
  BY <1>1 DEF Progress
<1>4. e \notin counted
  BY <1>1, <1>2, <1>3 DEF CountedOnce
<1> HIDE DEF e
<1>5. /\ counted' = counted \cup {e}
      /\ next' = [next EXCEPT ![r] = @ + 1]
      /\ candidates' = [candidates EXCEPT ![e.surface] = @ + 1]
      /\ rewrites' = IF e.outcome = Rewrote THEN [rewrites EXCEPT ![e.surface] = @ + 1]
                     ELSE rewrites
      /\ skips' = IF e.outcome = Rewrote THEN skips ELSE [skips EXCEPT ![e.outcome] = @ + 1]
      /\ events' = Traced(e)
      /\ UNCHANGED <<mu, structured, noSweep, doing, call, told, reading, copy>>
  BY DEF Count, e
<1>6. e.surface \in Surfaces /\ e.outcome \in Outcomes
  BY <1>2 DEF Events
<1>7. TypeInv'
  <2>1. events' \in Seq(Events)
    BY <1>2, <1>5 DEF Traced, TypeInv
  <2>2. /\ candidates' \in [Surfaces -> Nat]
        /\ rewrites' \in [Surfaces -> Nat]
        /\ skips' \in [Reasons -> Nat]
    <3>1. candidates' \in [Surfaces -> Nat]
      BY <1>5, <1>6 DEF TypeInv
    <3>2. rewrites' \in [Surfaces -> Nat]
      <4>1. [rewrites EXCEPT ![e.surface] = @ + 1] \in [Surfaces -> Nat]
        BY <1>6 DEF TypeInv
      <4> QED
        BY <1>5, <4>1 DEF TypeInv
    <3>3. skips' \in [Reasons -> Nat]
      <4>1. skips \in [Reasons -> Nat]
        BY DEF TypeInv
      <4>2. e.outcome = Rewrote => skips' = skips
        BY <1>5
      <4>3. e.outcome # Rewrote => skips' = [skips EXCEPT ![e.outcome] = @ + 1] /\ e.outcome \in Reasons
        BY <1>5, <1>6 DEF Outcomes
      <4>4. e.outcome \in Reasons => [skips EXCEPT ![e.outcome] = @ + 1] \in [Reasons -> Nat]
        BY <4>1
      <4> QED
        BY <4>1, <4>2, <4>3, <4>4
    <3> QED
      BY <3>1, <3>2, <3>3
  <2>3. IsFiniteSet(counted') /\ counted' \in SUBSET Events
    BY <1>2, <1>5, FS_AddElement DEF TypeInv
  <2>4. next' \in [Responses -> Nat]
    BY <1>1, <1>5 DEF TypeInv
  <2> QED
    BY <1>5, <2>1, <2>2, <2>3, <2>4 DEF TypeInv
<1>8. Holding' /\ InBatch'
  <2>1. Holding'
    BY <1>5 DEF Holding
  <2>2. InBatch'
    <3>1. \A q \in Responses \ {r} : next'[q] = next[q]
      BY <1>5 DEF TypeInv
    <3>2. next'[r] = next[r] + 1
      BY <1>5 DEF TypeInv
    <3>3. next'[r] \in 1 .. Len(call[r].batch) + 1 /\ Len(call[r].batch) > 0
      BY <1>1, <3>2
    <3> QED
      BY <1>1, <1>5, <3>1, <3>3 DEF InBatch
  <2> QED
    BY <2>1, <2>2
<1>9. /\ \A q \in Responses : End(q)' = End(q)
      /\ \A q \in Responses \ {r} : Progress(q)' = Progress(q)
      /\ Progress(r)' = call[r].base + next[r]
  BY <1>1, <1>5 DEF Progress, End, TypeInv
<1>10. CountedOnce'
  <2>1. ASSUME NEW f \in counted'
        PROVE  /\ 1 <= f.from /\ f.from <= f.at /\ f.at <= Progress(f.of)'
               /\ f.to <= Progress(f.of)' \/ (mu' = f.of /\ f.to = End(f.of)')
    <3>1. CASE f = e
      BY <1>1, <1>2, <1>5, <1>9, <3>1
    <3>2. CASE f \in counted
      <4>1. f.of \in Responses /\ f.to \in Nat /\ f.at \in Nat
        BY <3>2 DEF TypeInv, Events
      <4>2. /\ 1 <= f.from /\ f.from <= f.at /\ f.at <= Progress(f.of)
            /\ f.to <= Progress(f.of) \/ (mu = f.of /\ f.to = End(f.of))
        BY <3>2 DEF CountedOnce
      <4> QED
        BY <1>1, <1>3, <1>5, <1>9, <4>1, <4>2
    <3> QED
      BY <1>5, <3>1, <3>2
  <2>2. ASSUME NEW q \in Responses, NEW at \in 1 .. Progress(q)'
        PROVE  \E f \in counted' : f.of = q /\ f.at = at
    <3>1. CASE q = r /\ at = call[r].base + next[r]
      BY <1>2, <1>5, <3>1
    <3>2. CASE ~(q = r /\ at = call[r].base + next[r])
      <4>1. at \in 1 .. Progress(q)
        BY <1>1, <1>3, <1>9, <3>2
      <4> QED
        BY <1>5, <4>1 DEF CountedOnce
    <3> QED
      BY <3>1, <3>2
  <2> QED
    BY <2>1, <2>2 DEF CountedOnce
<1>11. Tallied'
  <2> DEFINE C == counted
  <2>1. IsFiniteSet(C) /\ e \notin C /\ counted' = C \cup {e}
    BY <1>4, <1>5 DEF TypeInv
  <2> HIDE DEF C
  <2>2. ASSUME NEW s \in Surfaces
        PROVE  candidates'[s] = Cardinality(OfSurface(counted', s))
    <3>1. Cardinality(OfSurface(counted', s)) =
            IF e.surface = s THEN Cardinality(OfSurface(C, s)) + 1 ELSE Cardinality(OfSurface(C, s))
      BY <2>1, OneMoreOfSurface
    <3>2. candidates'[s] = IF e.surface = s THEN candidates[s] + 1 ELSE candidates[s]
      BY <1>5 DEF TypeInv
    <3>3. candidates[s] = Cardinality(OfSurface(C, s))
      BY DEF Tallied, C
    <3> QED
      BY <3>1, <3>2, <3>3
  <2>3. ASSUME NEW s \in Surfaces
        PROVE  rewrites'[s] = Cardinality(WithOutcome(OfSurface(counted', s), Rewrote))
    <3> DEFINE n == Cardinality(WithOutcome(OfSurface(C, s), Rewrote))
    <3>1. Cardinality(WithOutcome(OfSurface(counted', s), Rewrote)) =
            IF e.surface = s /\ e.outcome = Rewrote THEN n + 1 ELSE n
      BY <2>1, OneMoreOfBoth
    <3>2. rewrites'[s] = IF e.surface = s /\ e.outcome = Rewrote THEN rewrites[s] + 1 ELSE rewrites[s]
      BY <1>5 DEF TypeInv
    <3>3. rewrites[s] = n
      BY DEF Tallied, C
    <3> QED
      BY <3>1, <3>2, <3>3
  <2>4. ASSUME NEW k \in Reasons
        PROVE  skips'[k] = Cardinality(WithOutcome(counted', k))
    <3> DEFINE n == Cardinality(WithOutcome(C, k))
    <3>1. Cardinality(WithOutcome(counted', k)) = IF e.outcome = k THEN n + 1 ELSE n
      BY <2>1, OneMoreWithOutcome
    <3>2. skips'[k] = IF e.outcome = k THEN skips[k] + 1 ELSE skips[k]
      BY <1>5, StatsAssumption DEF TypeInv
    <3>3. skips[k] = n
      BY DEF Tallied, C
    <3> QED
      BY <3>1, <3>2, <3>3
  <2> QED
    BY <2>2, <2>3, <2>4 DEF Tallied
<1>12. Copied' /\ Reported'
  BY <1>1, <1>5, StatsAssumption DEF Copied, Reported, Holding
<1>13. Told'
  <2>1. \A q \in Responses : \A i : Event(q, call[q], i)' = Event(q, call[q], i)
    BY <1>5 DEF Event
  <2>2. \A i \in 1 .. next'[r] - 1 : Event(r, call'[r], i) \in counted'
    BY <1>1, <1>5 DEF Told, e, TypeInv
  <2> QED
    BY <1>1, <1>5, <2>2 DEF Told, TypeInv, End
<1> QED
  BY <1>7, <1>8, <1>10, <1>11, <1>12, <1>13

LEMMA SnapshotKeeps ==
    ASSUME Inv, Snapshot \/ Copying
    PROVE  Inv'
<1> USE DEF Inv
<1>0. UNCHANGED <<counters, doing, call, next, told>>
  BY DEF Snapshot, Copying, CopyRewrites, CopyCandidates, CopySkips, CopyEvents
<1>1. CASE Snapshot
  <2>1. NoCopy \in [candidates : [Surfaces -> Nat], rewrites : [Surfaces -> Nat],
               skips : [Reasons -> Nat], events : Seq(Events), counted : SUBSET Events]
    BY DEF NoCopy
  <2>2. TypeInv'
    BY <1>0, <1>1, <2>1 DEF Snapshot, TypeInv, counters
  <2>3. Holding'
    BY <1>0, <1>1, StatsAssumption DEF Snapshot, Holding
  <2>4. CountedOnce'
    BY <1>0, <1>1, StatsAssumption
       DEF Snapshot, CountedOnce, Progress, End, counters, TypeInv, Events
  <2>5. Copied' /\ Reported'
    BY <1>0, <1>1, <2>1 DEF Snapshot, Copied, Reported, counters
  <2> QED
    BY <1>0, <2>2, <2>3, <2>4, <2>5 DEF InBatch, Tallied, Told, End, counters
<1>2. CASE Copying
  <2>1. mu = Main
    BY <1>2 DEF Copying, CopyRewrites, CopyCandidates, CopySkips, CopyEvents, Holding
  <2>2. TypeInv'
    BY <1>0, <1>2 DEF Copying, CopyRewrites, CopyCandidates, CopySkips, CopyEvents,
                      TypeInv, counters
  <2>3. Holding'
    BY <1>0, <1>2, <2>1, StatsAssumption
       DEF Copying, CopyRewrites, CopyCandidates, CopySkips, CopyEvents, Holding
  <2>4. CountedOnce'
    <3>1. \A r \in Responses : mu # r /\ Progress(r)' = Progress(r)
      BY <1>0, <2>1, StatsAssumption DEF Progress, End
    <3> QED
      BY <1>0, <3>1 DEF CountedOnce, counters, TypeInv, Events
  <2>5. Copied'
    BY <1>0, <1>2 DEF Copying, CopyRewrites, CopyCandidates, CopySkips, CopyEvents,
                      Copied, counters, TypeInv
  <2>6. Reported'
    <3>1. WholeCalls(counted)
      BY <2>1, WholeWhenFree, StatsAssumption
    <3>2. CASE CopyEvents
      <4>1. /\ copy'.counted = counted /\ copy'.rewrites = rewrites
            /\ copy'.candidates = candidates /\ copy'.skips = skips
        BY <3>2 DEF CopyEvents, Copied, TypeInv
      <4> QED
        BY <3>1, <4>1 DEF Reported, Tallies, Tallied
    <3>3. CASE ~CopyEvents
      BY <1>2, <3>3 DEF Copying, CopyRewrites, CopyCandidates, CopySkips, Reported
    <3> QED
      BY <3>2, <3>3
  <2> QED
    BY <1>0, <2>2, <2>3, <2>4, <2>5, <2>6 DEF InBatch, Tallied, Told, End, counters
<1> QED
  BY <1>1, <1>2

LEMMA NextKeeps == Inv /\ [Next]_vars => Inv'
<1> SUFFICES ASSUME Inv, [Next]_vars PROVE Inv'
  OBVIOUS
<1>1. ASSUME NEW r \in Responses, Recording(r) PROVE Inv'
  BY <1>1, RecordKeeps, LockKeeps, CountKeeps, UnlockKeeps, AskKeeps, TellKeeps, MarkKeeps
     DEF Recording
<1>2. CASE Snapshot \/ Copying
  BY <1>2, SnapshotKeeps
<1>3. CASE UNCHANGED vars
  BY <1>3 DEF vars, counters, Inv, TypeInv, Holding, InBatch, CountedOnce, Progress, End,
              Tallied, Copied, Told, Reported
<1> QED
  BY <1>1, <1>2, <1>3 DEF Next

-----------------------------------------------------------------------------
(* The trace. *)

\* A response in the middle of a batch has just written to the trace, and the
\* last entry is of a batch that is not complete only then.
TraceInv ==
  /\ Len(events) = IF ~Explain THEN 0
                   ELSE IF Cardinality(counted) < maxEvents THEN Cardinality(counted)
                   ELSE maxEvents
  /\ \A j \in 1 .. Len(events) - 1 :
       events[j].at < events[j].to =>
         events[j + 1].of = events[j].of /\ events[j + 1].at = events[j].at + 1
  /\ Explain /\ Len(events) < maxEvents =>
       /\ \A r \in Responses :
            mu = r /\ next[r] > 1 =>
              /\ Len(events) > 0
              /\ events[Len(events)].of = r
              /\ events[Len(events)].at = call[r].base + next[r] - 1
              /\ events[Len(events)].to = End(r)
       /\ Len(events) > 0 /\ events[Len(events)].at < events[Len(events)].to =>
            mu = events[Len(events)].of /\ next[mu] > 1

LEMMA TracedByResponse == Inv /\ Len(events) > 0 => events[Len(events)].of \in Responses
<1> SUFFICES ASSUME Inv, Len(events) > 0 PROVE events[Len(events)].of \in Responses
  OBVIOUS
<1>1. events \in Seq(Events) /\ Len(events) \in Nat
  BY DEF Inv, TypeInv
<1>2. events[Len(events)] \in Events
  BY <1>1
<1> QED
  BY <1>2 DEF Events

LEMMA CountTraces ==
    ASSUME Inv, TraceInv, NEW r \in Responses, Count(r)
    PROVE  TraceInv'
<1> DEFINE e == Event(r, call[r], next[r])
           n == Len(events)
<1>1. /\ call[r] \in Calls /\ call[r].base \in Nat /\ Len(call[r].batch) \in Nat
      /\ next[r] \in 1 .. Len(call[r].batch)
      /\ mu = r /\ doing[r] = "counting"
  BY DEF Count, InBatch, TypeInv, Calls, Holding, Inv
<1>2. /\ e \in Events /\ e.of = r /\ e.at = call[r].base + next[r] /\ e.to = End(r)
  BY <1>1 DEF Event, Events, Calls, End
<1>3. e \notin counted
  BY <1>1, <1>2 DEF CountedOnce, Inv, Progress
<1> HIDE DEF e
<1>4. /\ counted' = counted \cup {e} /\ events' = Traced(e)
      /\ next' = [next EXCEPT ![r] = @ + 1] /\ UNCHANGED <<mu, call>>
  BY DEF Count, e
<1>5. Cardinality(counted') = Cardinality(counted) + 1 /\ Cardinality(counted) \in Nat
  BY <1>3, <1>4, FS_AddElement, FS_CardinalityType DEF Inv, TypeInv
<1>6. /\ events \in Seq(Events) /\ n \in Nat /\ maxEvents \in Nat
      /\ next'[r] = next[r] + 1 /\ End(r)' = End(r)
      /\ \A q \in Responses \ {r} : mu' # q
  BY <1>1, <1>4, StatsAssumption DEF Inv, TypeInv, End
<1>7. CASE ~(Explain /\ n < maxEvents)
  <2>1. events' = events
    BY <1>4, <1>7 DEF Traced
  <2> QED
    BY <1>5, <1>6, <1>7, <2>1 DEF TraceInv
<1>8. CASE Explain /\ n < maxEvents
  <2>1. events' = Append(events, e)
    BY <1>4, <1>8 DEF Traced
  <2>2. /\ Len(events') = n + 1 /\ events'[n + 1] = e
        /\ \A j \in 1 .. n : events'[j] = events[j]
    BY <1>2, <1>6, <2>1
  <2>3. Len(events') = IF Cardinality(counted') < maxEvents THEN Cardinality(counted')
                      ELSE maxEvents
    BY <1>5, <1>6, <1>8, <2>2 DEF TraceInv
  <2>4. ASSUME NEW j \in 1 .. Len(events') - 1, events'[j].at < events'[j].to
        PROVE  events'[j + 1].of = events'[j].of /\ events'[j + 1].at = events'[j].at + 1
    <3>1. CASE j < n
      <4>1. j \in 1 .. n - 1 /\ events'[j] = events[j] /\ events'[j + 1] = events[j + 1]
        BY <1>6, <2>2, <3>1
      <4> QED
        BY <2>4, <4>1 DEF TraceInv
    <3>2. CASE j = n
      <4>1. n > 0 /\ events[n].at < events[n].to
        BY <1>6, <2>2, <2>4, <3>2
      <4>2. mu = events[n].of /\ next[r] > 1
        BY <1>1, <1>8, <4>1 DEF TraceInv
      <4>3. events[n].of = r /\ events[n].at = call[r].base + next[r] - 1
        BY <1>1, <1>8, <4>2 DEF TraceInv
      <4> QED
        BY <1>1, <1>2, <2>2, <3>2, <4>1, <4>3
    <3> QED
      BY <1>6, <2>2, <3>1, <3>2
  <2>5. /\ Len(events') > 0 /\ events'[Len(events')] = e
        /\ mu' = r /\ next'[mu'] > 1
        /\ e.of = r /\ e.at = call'[r].base + next'[r] - 1 /\ e.to = End(r)'
    BY <1>1, <1>2, <1>4, <1>6, <2>2
  <2> QED
    BY <1>6, <1>8, <2>3, <2>4, <2>5 DEF TraceInv
<1> QED
  BY <1>7, <1>8

LEMMA NextTraces == Inv /\ TraceInv /\ [Next]_vars => TraceInv'
<1> SUFFICES ASSUME Inv, TraceInv, [Next]_vars PROVE TraceInv'
  OBVIOUS
<1>1. ASSUME NEW r \in Responses, Lock(r) PROVE TraceInv'
  <2>1. /\ UNCHANGED <<events, counted, call, next>> /\ mu = None /\ mu' = r /\ next[r] = 1
    BY <1>1 DEF Lock, counters, Inv, InBatch
  <2>2. Len(events) > 0 => events[Len(events)].of \in Responses
    BY TracedByResponse
  <2> QED
    BY <2>1, <2>2, StatsAssumption DEF TraceInv, End
<1>2. ASSUME NEW r \in Responses, Unlock(r) PROVE TraceInv'
  <2>1. /\ UNCHANGED <<events, counted, call>> /\ mu = r /\ mu' = None
        /\ next[r] = Len(call[r].batch) + 1 /\ Len(call[r].batch) > 0
        /\ call[r].base \in Nat /\ Len(call[r].batch) \in Nat
    BY <1>2 DEF Unlock, counters, Inv, InBatch, Holding, TypeInv, Calls
  <2>2. Explain /\ Len(events) < maxEvents /\ Len(events) > 0 =>
          ~(events[Len(events)].at < events[Len(events)].to)
    BY <2>1 DEF TraceInv, End
  <2> QED
    BY <2>1, <2>2, StatsAssumption DEF TraceInv
<1>3. ASSUME NEW r \in Responses, mu # r, UNCHANGED <<events, counted, mu>>,
             \A q \in Responses \ {r} : next'[q] = next[q] /\ call'[q] = call[q]
      PROVE  TraceInv'
  <2>1. Len(events) > 0 => events[Len(events)].of \in Responses
    BY TracedByResponse
  <2> QED
    BY <1>3, <2>1 DEF TraceInv, End
<1>4. ASSUME NEW r \in Responses, Ask(r) \/ Tell(r) \/ SweepSkipped(r)
                                 \/ (\E n \in Attributes : Structured(r, n))
                                 \/ \E s \in Surfaces, batch \in Batches : Record(r, s, batch)
      PROVE  TraceInv'
  <2>1. mu # r
    BY <1>4 DEF Ask, Tell, Structured, SweepSkipped, Record, Inv, Holding
  <2>2. /\ UNCHANGED <<events, counted, mu>>
        /\ \A q \in Responses \ {r} : next'[q] = next[q] /\ call'[q] = call[q]
    BY <1>4 DEF Ask, Tell, Structured, SweepSkipped, Record, counters, Inv, TypeInv
  <2> QED
    BY <1>3, <2>1, <2>2
<1>5. CASE Snapshot \/ Copying
  <2>1. /\ UNCHANGED <<events, counted, call, next>>
        /\ mu \in {None, Main} /\ mu' \in {None, Main}
    BY <1>5 DEF Snapshot, Copying, CopyRewrites, CopyCandidates, CopySkips, CopyEvents,
               counters, Inv, Holding
  <2>2. Len(events) > 0 => events[Len(events)].of \in Responses
    BY TracedByResponse
  <2> QED
    BY <2>1, <2>2, StatsAssumption DEF TraceInv
<1>6. CASE UNCHANGED vars
  BY <1>6 DEF vars, counters, TraceInv, End
<1> QED
  BY <1>1, <1>2, <1>4, <1>5, <1>6, CountTraces DEF Next, Recording

-----------------------------------------------------------------------------
(* The process does nothing to the census that its parts do not. *)

LEMMA ServerStep == [ServerNext]_<<vars, serverVars>> => [Next]_vars
BY DEF ServerNext, Accept, Answer, StartWrite, Serve, Signal, Shutdown, Timeout, ListenReturns,
       WriteReport, Exit, Next

THEOREM CensusOfServer == ServerSpec => Spec
<1>1. ServerInit => Init
  BY DEF ServerInit
<1> QED
  BY <1>1, ServerStep, PTL DEF ServerSpec, Spec

LEMMA InvHolds == Spec => [](Inv /\ TraceInv)
<1>1. Init => TraceInv
  BY FS_EmptySet, StatsAssumption DEF Init, TraceInv
<1> QED
  BY <1>1, InitHolds, NextKeeps, NextTraces, PTL DEF Spec

\* Whatever is recorded while a report is made, and whenever the process is told
\* to stop: the numbers of a report count the same events.
THEOREM ReportHolds == ServerSpec => []SnapshotOfOneMoment
<1>1. Inv => SnapshotOfOneMoment
  BY DEF Inv, Reported, SnapshotOfOneMoment
<1> QED
  BY <1>1, InvHolds, CensusOfServer, PTL

\* The hook is told of every event once, in its place, after it was counted.
THEOREM HookHolds == ServerSpec => []HookToldAll
<1>1. Inv => HookToldAll
  <2> SUFFICES ASSUME Inv, NEW r \in Responses
               PROVE  /\ \A j \in DOMAIN told[r] : told[r][j].at = j /\ told[r][j] \in counted
                      /\ doing[r] \in {"calling", "answered"} =>
                           \A i \in DOMAIN call[r].batch : Event(r, call[r], i) \in counted
                      /\ Hooked /\ doing[r] = "reading" => Len(told[r]) = End(r)
    BY DEF HookToldAll
  <2>1. told[r] \in Seq(Events) /\ call[r].batch \in Seq(Outcomes)
    BY DEF Inv, TypeInv, Calls
  <2>2. DOMAIN told[r] = 1 .. Len(told[r]) /\ DOMAIN call[r].batch = 1 .. Len(call[r].batch)
    BY <2>1
  <2>3. /\ \A j \in 1 .. Len(told[r]) : told[r][j].at = j /\ told[r][j] \in counted
        /\ doing[r] \in {"calling", "answered"} =>
             \A i \in 1 .. Len(call[r].batch) : Event(r, call[r], i) \in counted
    BY DEF Inv, Told
  <2>4. Hooked /\ doing[r] = "reading" => Len(told[r]) = End(r)
    BY DEF Inv, Told
  <2> QED
    BY <2>2, <2>3, <2>4
<1> QED
  BY <1>1, InvHolds, CensusOfServer, PTL

\* The --explain trace is complete up to its room and keeps calls together.
THEOREM TraceHolds == ServerSpec => []TraceInCalls
<1>1. TraceInv => TraceInCalls
  BY DEF TraceInv, TraceInCalls
<1> QED
  BY <1>1, InvHolds, CensusOfServer, PTL
=============================================================================
