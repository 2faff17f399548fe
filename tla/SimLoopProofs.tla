--------------------------- MODULE SimLoopProofs ---------------------------
(***************************************************************************)
(* Theorems about SimLoop for every set of hosts, delays, deadlines,       *)
(* offsets and every bound.                                                *)
(***************************************************************************)
EXTENDS SimLoop, TLAPS, SequenceTheorems

(***************************************************************************)
(* Facts about the ready queue as a sequence.                              *)
(***************************************************************************)

\* _ready.pop(index) leaves a queue with one entry less, the others in order.
LEMMA RemoveAtFacts ==
    ASSUME NEW S, NEW q \in Seq(S), NEW i \in DOMAIN q
    PROVE  /\ RemoveAt(q, i) \in Seq(S)
           /\ Len(RemoveAt(q, i)) = Len(q) - 1
           /\ \A j \in 1 .. Len(q) - 1 : RemoveAt(q, i)[j] = IF j < i THEN q[j] ELSE q[j + 1]
  <1> DEFINE r == [j \in 1 .. Len(q) - 1 |-> IF j < i THEN q[j] ELSE q[j + 1]]
  <1>1. Len(q) \in Nat /\ i \in 1 .. Len(q) /\ DOMAIN q = 1 .. Len(q)
    OBVIOUS
  <1>2. Len(q) - 1 \in Nat
    BY <1>1
  <1>3. \A j \in 1 .. Len(q) - 1 : (IF j < i THEN q[j] ELSE q[j + 1]) \in S
    BY <1>1
  <1>4. r \in [1 .. Len(q) - 1 -> S]
    BY <1>3
  <1>5. r \in Seq(S) /\ Len(r) = Len(q) - 1
    BY <1>2, <1>4, SeqDef
  <1> QED
    BY <1>5 DEF RemoveAt

(***************************************************************************)
(* The bookkeeping the type invariant rests on: a run that is still        *)
(* waiting for its future has a handle left to end it with, and the drain  *)
(* and the stop callback belong to different phases of a run.              *)
(***************************************************************************)
RunPhases ==
    /\ Running /\ fut = "pending" /\ ~draining => nextSeq < MaxSeq
    /\ draining => Running /\ ~watched
    /\ watched => Running /\ fut # "none"

TypeInv == TypeOK /\ RunPhases

\* A new handle keeps the handle tables and the trace well typed.
LEMMA NewHandleTyped ==
    ASSUME TypeInv, nextSeq < MaxSeq, NEW h \in Hosts, NEW w \in Int, NEW d \in Int,
           NewHandle(h, w, d)
    PROVE  /\ nextSeq \in Ids /\ nextSeq' = nextSeq + 1 /\ nextSeq' \in 0 .. MaxSeq
           /\ host' \in [Ids -> Hosts] /\ maker' \in [Ids -> Hosts] /\ deadline' \in [Ids -> Int]
           /\ shown' \in [Ids -> Int] /\ trace' \in Seq(Events)
  <1>1. nextSeq \in Ids /\ nextSeq + 1 \in 0 .. MaxSeq
    BY SimLoopAssumption DEF TypeInv, TypeOK, HandleTypes, Ids
  <1>2. Event("schedule", now, nextSeq) \in Events
    BY <1>1 DEF Event, Events, EventKinds, TypeInv, TypeOK, QueueTypes
  <1>3. /\ host' \in [Ids -> Hosts] /\ maker' \in [Ids -> Hosts]
        /\ deadline' \in [Ids -> Int] /\ shown' \in [Ids -> Int]
    <2>1. /\ host \in [Ids -> Hosts] /\ maker \in [Ids -> Hosts] /\ here \in Hosts
          /\ deadline \in [Ids -> Int] /\ shown \in [Ids -> Int]
      BY DEF TypeInv, TypeOK, HandleTypes, RunTypes, Machines
    <2> QED
      BY <2>1 DEF NewHandle
  <1>4. trace' \in Seq(Events)
    <2>1. trace \in Seq(Events)
      BY DEF TypeInv, TypeOK, HandleTypes
    <2> QED
      BY <1>2, <2>1 DEF NewHandle
  <1> QED
    BY <1>1, <1>3, <1>4 DEF NewHandle

\* A failure adds a natural number of entries to _unhandled.
LEMMA ReportedNat == TypeOK => Reported \in Nat
  <1> SUFFICES ASSUME TypeOK PROVE Reported \in Nat
    OBVIOUS
  <1>1. handler \in {"none", "quiet", "broken", "exiting"}
    BY DEF TypeOK, FailTypes
  <1>2. CASE handler = "none"
    BY <1>2 DEF Reported
  <1>3. CASE handler \in {"quiet", "exiting"}
    BY <1>3 DEF Reported
  <1>4. CASE handler = "broken"
    BY <1>4 DEF Reported
  <1> QED
    BY <1>1, <1>2, <1>3, <1>4

\* call_soon's own work keeps the ready queue well typed too.
LEMMA EnqueueTyped ==
    ASSUME TypeInv, nextSeq < MaxSeq, NEW h \in Hosts, Enqueue(h)
    PROVE  /\ nextSeq \in Ids /\ nextSeq' = nextSeq + 1 /\ nextSeq' \in 0 .. MaxSeq
           /\ host' \in [Ids -> Hosts] /\ maker' \in [Ids -> Hosts] /\ deadline' \in [Ids -> Int]
           /\ shown' \in [Ids -> Int] /\ trace' \in Seq(Events)
           /\ ready' \in Seq(Ids)
  <1>1. now \in Int /\ Reading(here) \in Int
    BY DEF TypeInv, TypeOK, QueueTypes, ClockTypes, RunTypes, Machines, Reading
  <1>2. NewHandle(h, now, Reading(here))
    BY DEF Enqueue
  <1>3. /\ nextSeq \in Ids /\ nextSeq' = nextSeq + 1 /\ nextSeq' \in 0 .. MaxSeq
        /\ host' \in [Ids -> Hosts] /\ maker' \in [Ids -> Hosts] /\ deadline' \in [Ids -> Int]
        /\ shown' \in [Ids -> Int] /\ trace' \in Seq(Events)
    BY <1>1, <1>2, NewHandleTyped
  <1>4. ready' \in Seq(Ids)
    BY <1>3 DEF Enqueue, TypeInv, TypeOK, QueueTypes
  <1> QED
    BY <1>3, <1>4

\* The same for the steps the loop takes by itself.
LEMMA LoopStepTyped == TypeInv /\ LoopStep => TypeInv'
  <1> SUFFICES ASSUME TypeInv, LoopStep PROVE TypeInv'
    OBVIOUS
  <1> USE SimLoopAssumption DEF runningVars, Leave, Machines
  <1>0. \A kind \in EventKinds, when \in Int, s \in Ids \cup {NoId} :
          Event(kind, when, s) \in Events
    BY DEF Event, Events
  <1>1. CASE \E i \in DOMAIN ready : Step(i)
    <2> PICK i \in DOMAIN ready : Step(i)
      BY <1>1
    <2>1. ready[i] \in Ids /\ i - 1 \in Nat /\ NoId \notin Ids
      BY DEF TypeInv, TypeOK, QueueTypes, Ids, NoId
    <2>2. ready' \in Seq(Ids)
      BY RemoveAtFacts DEF Step, TypeInv, TypeOK, QueueTypes
    <2>3. trace' \in Seq(Events)
      BY <1>0, <2>1 DEF Step, EventKinds, TypeInv, TypeOK, QueueTypes, HandleTypes
    <2>4. QueueTypes'
      BY <2>1, <2>2 DEF Step, KeepGoing, TypeInv, TypeOK, QueueTypes
    <2>5. HandleTypes'
      BY <2>1, <2>3 DEF Step, KeepGoing, TypeInv, TypeOK, HandleTypes, heapVars
    <2>6. RunTypes'
      <3>1. ready[i] \notin stopCbs /\ RunsAs(ready[i]) => here' \in Machines
        BY <2>1 DEF RunsAs, TypeInv, TypeOK, HandleTypes
      <3> QED
        BY <2>1, <3>1 DEF Step, KeepGoing, TypeInv, TypeOK, RunTypes, Outcomes, runVars
    <2>7. FlagTypes'
      BY <2>1 DEF Step, KeepGoing, TypeInv, TypeOK, FlagTypes, runVars
    <2>8. FailTypes'
      BY <2>1 DEF Step, KeepGoing, TypeInv, TypeOK, FailTypes, failVars
    <2>9. ClockTypes'
      BY <2>1 DEF Step, KeepGoing, TypeInv, TypeOK, ClockTypes, clockVars
    <2>10. RunPhases'
      BY <2>1 DEF Step, KeepGoing, TypeInv, RunPhases, Running, runVars, heapVars
    <2> QED
      BY <2>4, <2>5, <2>6, <2>7, <2>8, <2>9, <2>10 DEF TypeInv, TypeOK
  <1>2. CASE \E t \in timers : DiscardCancelledHead(t)
    <2> PICK t \in timers : DiscardCancelledHead(t)
      BY <1>2
    <2>1. trace' \in Seq(Events)
      BY <1>0 DEF DiscardCancelledHead, EventKinds, TypeInv, TypeOK, QueueTypes, HandleTypes
    <2>2. CASE timers = {t}
      <3>0. outcome' = "deadlock" /\ Unwind
        BY <2>2 DEF DiscardCancelledHead
      <3>1. QueueTypes'
        BY <3>0 DEF DiscardCancelledHead, Unwind, TypeInv, TypeOK, QueueTypes
      <3>2. HandleTypes'
        BY <3>0, <2>1 DEF DiscardCancelledHead, Unwind, TypeInv, TypeOK, HandleTypes,
           heapVars
      <3>3. RunTypes'
        BY <3>0 DEF DiscardCancelledHead, Unwind, TypeInv, TypeOK, RunTypes, Outcomes,
           runVars
      <3>4. FlagTypes'
        BY <3>0 DEF DiscardCancelledHead, Unwind, TypeInv, TypeOK, FlagTypes, runVars
      <3>5. FailTypes'
        BY <3>0 DEF DiscardCancelledHead, Unwind, TypeInv, TypeOK, FailTypes, failVars
      <3>6. ClockTypes'
        BY <3>0 DEF DiscardCancelledHead, Unwind, TypeInv, TypeOK, ClockTypes, clockVars
      <3>7. RunPhases'
        BY <3>0 DEF DiscardCancelledHead, Unwind, TypeInv, RunPhases, Running, runVars,
           heapVars
      <3> QED
        BY <3>1, <3>2, <3>3, <3>4, <3>5, <3>6, <3>7 DEF TypeInv, TypeOK
    <2>3. CASE timers # {t}
      <3>0. UNCHANGED <<pc, runningVars, outcome, stopping, watched, draining>>
        BY <2>3 DEF DiscardCancelledHead
      <3>1. QueueTypes'
        BY <3>0 DEF DiscardCancelledHead, TypeInv, TypeOK, QueueTypes
      <3>2. HandleTypes'
        BY <3>0, <2>1 DEF DiscardCancelledHead, TypeInv, TypeOK, HandleTypes, heapVars
      <3>3. RunTypes'
        BY <3>0 DEF DiscardCancelledHead, TypeInv, TypeOK, RunTypes, Outcomes, runVars
      <3>4. FlagTypes'
        BY <3>0 DEF DiscardCancelledHead, TypeInv, TypeOK, FlagTypes, runVars
      <3>5. FailTypes'
        BY <3>0 DEF DiscardCancelledHead, TypeInv, TypeOK, FailTypes, failVars
      <3>6. ClockTypes'
        BY <3>0 DEF DiscardCancelledHead, TypeInv, TypeOK, ClockTypes, clockVars
      <3>7. RunPhases'
        BY <3>0 DEF DiscardCancelledHead, TypeInv, RunPhases, Running, runVars, heapVars
      <3> QED
        BY <3>1, <3>2, <3>3, <3>4, <3>5, <3>6, <3>7 DEF TypeInv, TypeOK
    <2> QED
      BY <2>2, <2>3
  <1>3. CASE \E t \in timers : AdvanceClock(t)
    <2> PICK t \in timers : AdvanceClock(t)
      BY <1>3
    <2>1. now' \in Int
      BY DEF AdvanceClock, TypeInv, TypeOK, QueueTypes, HandleTypes
    <2>2. trace' \in Seq(Events)
      BY <1>0, <2>1 DEF AdvanceClock, EventKinds, TypeInv, TypeOK, HandleTypes
    <2>3. QueueTypes'
      BY <2>1 DEF AdvanceClock, TypeInv, TypeOK, QueueTypes
    <2>4. HandleTypes'
      BY <2>2 DEF AdvanceClock, TypeInv, TypeOK, HandleTypes, heapVars
    <2>5. RunTypes'
      BY DEF AdvanceClock, TypeInv, TypeOK, RunTypes, Outcomes, runVars
    <2>6. FlagTypes'
      BY DEF AdvanceClock, TypeInv, TypeOK, FlagTypes, runVars
    <2>7. FailTypes'
      BY DEF AdvanceClock, TypeInv, TypeOK, FailTypes, failVars
    <2>8. ClockTypes'
      BY DEF AdvanceClock, TypeInv, TypeOK, ClockTypes, clockVars
    <2>9. RunPhases'
      BY DEF AdvanceClock, TypeInv, RunPhases, Running, runVars, heapVars
    <2> QED
      BY <2>3, <2>4, <2>5, <2>6, <2>7, <2>8, <2>9 DEF TypeInv, TypeOK
  <1>4. CASE \E t \in timers : PopDue(t)
    <2> PICK t \in timers : PopDue(t)
      BY <1>4
    <2>1. t \in Ids
      BY DEF TypeInv, TypeOK, QueueTypes
    <2>2. trace' \in Seq(Events) /\ ready' \in Seq(Ids)
      <3>0. ready \in Seq(Ids) /\ trace \in Seq(Events) /\ Event("cancel", now, t) \in Events
        BY <1>0, <2>1 DEF EventKinds, TypeInv, TypeOK, HandleTypes, QueueTypes
      <3>1. CASE t \in cancelled
        <4>1. trace' = Append(trace, Event("cancel", now, t)) /\ ready' = ready
          BY <3>1 DEF PopDue
        <4> QED
          BY <3>0, <4>1
      <3>2. CASE t \notin cancelled
        <4>1. ready' = Append(ready, t) /\ trace' = trace
          BY <3>2 DEF PopDue
        <4> QED
          BY <2>1, <3>0, <4>1
      <3> QED
        BY <3>1, <3>2
    <2>3. QueueTypes'
      BY <2>2 DEF PopDue, TypeInv, TypeOK, QueueTypes
    <2>4. HandleTypes'
      BY <2>2 DEF PopDue, TypeInv, TypeOK, HandleTypes, heapVars
    <2>5. RunTypes'
      BY DEF PopDue, TypeInv, TypeOK, RunTypes, Outcomes, runVars
    <2>6. FlagTypes'
      BY DEF PopDue, TypeInv, TypeOK, FlagTypes, runVars
    <2>7. FailTypes'
      BY DEF PopDue, TypeInv, TypeOK, FailTypes, failVars
    <2>8. ClockTypes'
      BY DEF PopDue, TypeInv, TypeOK, ClockTypes, clockVars
    <2>9. RunPhases'
      BY DEF PopDue, TypeInv, RunPhases, Running, runVars, heapVars
    <2> QED
      BY <2>3, <2>4, <2>5, <2>6, <2>7, <2>8, <2>9 DEF TypeInv, TypeOK
  <1>5. CASE StopForever
    <2>1. QueueTypes'
      BY <1>5 DEF StopForever, ForeverEnds, TypeInv, TypeOK, QueueTypes
    <2>2. HandleTypes'
      BY <1>5 DEF StopForever, ForeverEnds, TypeInv, TypeOK, HandleTypes, heapVars
    <2>3. RunTypes'
      BY <1>5 DEF StopForever, ForeverEnds, TypeInv, TypeOK, RunTypes, Outcomes, runVars
    <2>4. FlagTypes'
      BY <1>5 DEF StopForever, ForeverEnds, TypeInv, TypeOK, FlagTypes, runVars
    <2>5. FailTypes'
      BY <1>5 DEF StopForever, ForeverEnds, TypeInv, TypeOK, FailTypes, failVars
    <2>6. ClockTypes'
      BY <1>5 DEF StopForever, ForeverEnds, TypeInv, TypeOK, ClockTypes, clockVars
    <2>7. RunPhases'
      BY <1>5 DEF StopForever, ForeverEnds, TypeInv, RunPhases, Running, runVars,
         heapVars
    <2> QED
      BY <2>1, <2>2, <2>3, <2>4, <2>5, <2>6, <2>7 DEF TypeInv, TypeOK
  <1>6. Collected \in Nat
    <2>1. unhandled \in Nat /\ orphans \in Nat /\ Reported \in Nat
      BY ReportedNat DEF TypeInv, TypeOK, FailTypes
    <2>2. \A a, b \in Nat : a * b \in Nat
      OBVIOUS
    <2> QED
      BY <2>1, <2>2 DEF Collected
  <1>7. CASE FinishRun
    <2>1. QueueTypes'
      BY <1>7 DEF FinishRun, ForeverEnds, TypeInv, TypeOK, QueueTypes
    <2>2. HandleTypes'
      BY <1>7 DEF FinishRun, ForeverEnds, TypeInv, TypeOK, HandleTypes, heapVars
    <2>3. RunTypes'
      BY <1>7 DEF FinishRun, ForeverEnds, TypeInv, TypeOK, RunTypes, Outcomes, runVars
    <2>4. FlagTypes'
      BY <1>7 DEF FinishRun, ForeverEnds, TypeInv, TypeOK, FlagTypes, runVars
    <2>5. FailTypes'
      BY <1>7, <1>6 DEF FinishRun, ForeverEnds, TypeInv, TypeOK, FailTypes, failVars
    <2>6. ClockTypes'
      BY <1>7 DEF FinishRun, ForeverEnds, TypeInv, TypeOK, ClockTypes, clockVars
    <2>7. RunPhases'
      BY <1>7 DEF FinishRun, ForeverEnds, TypeInv, RunPhases, Running, runVars, heapVars
    <2> QED
      BY <2>1, <2>2, <2>3, <2>4, <2>5, <2>6, <2>7 DEF TypeInv, TypeOK
  <1>8. CASE CancelStalled
    <2>1. nextSeq < MaxSeq /\ ~draining /\ fut = "pending" /\ pc = "loop"
      BY <1>8 DEF CancelStalled, ForeverEnds, TypeInv, RunPhases, Running
    <2>2. Work \in BOOLEAN
      BY DEF Work
    <2>3. CASE WakesToCancel
      <3>2. /\ nextSeq \in Ids /\ nextSeq' = nextSeq + 1 /\ nextSeq' \in 0 .. MaxSeq
            /\ host' \in [Ids -> Hosts] /\ maker' \in [Ids -> Hosts] /\ deadline' \in [Ids -> Int]
            /\ shown' \in [Ids -> Int] /\ trace' \in Seq(Events)
            /\ ready' \in Seq(Ids)
        BY <2>1, <2>3, EnqueueTyped DEF WakesToCancel
      <3>3. QueueTypes'
        BY <1>8, <2>1, <2>2, <2>3, <3>2 DEF CancelStalled, WakesToCancel, TypeInv,
           TypeOK, QueueTypes
      <3>4. HandleTypes'
        BY <1>8, <2>1, <2>2, <2>3, <3>2 DEF CancelStalled, WakesToCancel, TypeInv,
           TypeOK, HandleTypes, heapVars
      <3>5. RunTypes'
        BY <1>8, <2>1, <2>2, <2>3 DEF CancelStalled, WakesToCancel, TypeInv, TypeOK,
           RunTypes, Outcomes, runVars
      <3>6. FlagTypes'
        BY <1>8, <2>1, <2>2, <2>3 DEF CancelStalled, WakesToCancel, TypeInv, TypeOK,
           FlagTypes, runVars
      <3>7. FailTypes'
        BY <1>8, <2>1, <2>2, <2>3 DEF CancelStalled, WakesToCancel, TypeInv, TypeOK,
           FailTypes, failVars
      <3>8. ClockTypes'
        BY <1>8, <2>1, <2>2, <2>3 DEF CancelStalled, WakesToCancel, TypeInv, TypeOK,
           ClockTypes, clockVars
      <3>9. RunPhases'
        BY <1>8, <2>1, <2>2, <2>3, <3>2 DEF CancelStalled, WakesToCancel, TypeInv,
           RunPhases, Running, runVars, heapVars
      <3> QED
        BY <3>3, <3>4, <3>5, <3>6, <3>7, <3>8, <3>9 DEF TypeInv, TypeOK
    <2>4. CASE UNCHANGED <<heapVars, trace, ready, tasks>>
      <3>1. QueueTypes'
        BY <1>8, <2>1, <2>2, <2>4 DEF CancelStalled, TypeInv, TypeOK, QueueTypes
      <3>2. HandleTypes'
        BY <1>8, <2>1, <2>2, <2>4 DEF CancelStalled, TypeInv, TypeOK, HandleTypes,
           heapVars
      <3>3. RunTypes'
        BY <1>8, <2>1, <2>2, <2>4 DEF CancelStalled, TypeInv, TypeOK, RunTypes,
           Outcomes, runVars
      <3>4. FlagTypes'
        BY <1>8, <2>1, <2>2, <2>4 DEF CancelStalled, TypeInv, TypeOK, FlagTypes, runVars
      <3>5. FailTypes'
        BY <1>8, <2>1, <2>2, <2>4 DEF CancelStalled, TypeInv, TypeOK, FailTypes,
           failVars
      <3>6. ClockTypes'
        BY <1>8, <2>1, <2>2, <2>4 DEF CancelStalled, TypeInv, TypeOK, ClockTypes,
           clockVars
      <3>7. RunPhases'
        BY <1>8, <2>1, <2>2, <2>4 DEF CancelStalled, TypeInv, RunPhases, Running,
           runVars, heapVars
      <3> QED
        BY <3>1, <3>2, <3>3, <3>4, <3>5, <3>6, <3>7 DEF TypeInv, TypeOK
    <2> QED
      BY <1>8, <2>3, <2>4 DEF CancelStalled, RidesAlong
  <1>9. CASE ReportStall
    <2>1. QueueTypes'
      BY <1>9 DEF ReportStall, TypeInv, TypeOK, QueueTypes
    <2>2. HandleTypes'
      BY <1>9 DEF ReportStall, TypeInv, TypeOK, HandleTypes, heapVars
    <2>3. RunTypes'
      BY <1>9 DEF ReportStall, TypeInv, TypeOK, RunTypes, Outcomes, runVars
    <2>4. FlagTypes'
      BY <1>9 DEF ReportStall, TypeInv, TypeOK, FlagTypes, runVars
    <2>5. FailTypes'
      BY <1>9, <1>6 DEF ReportStall, TypeInv, TypeOK, FailTypes, failVars
    <2>6. ClockTypes'
      BY <1>9 DEF ReportStall, TypeInv, TypeOK, ClockTypes, clockVars
    <2>7. RunPhases'
      BY <1>9 DEF ReportStall, TypeInv, RunPhases, Running, runVars, heapVars
    <2> QED
      BY <2>1, <2>2, <2>3, <2>4, <2>5, <2>6, <2>7 DEF TypeInv, TypeOK
  <1> QED
    BY <1>1, <1>2, <1>3, <1>4, <1>5, <1>7, <1>8, <1>9 DEF LoopStep

\* A step of the loop, of the user or of asyncio keeps every variable in its
\* type: the loop never runs out of the handle it needs to end a run.
LEMMA TypeStep == TypeInv /\ [Next]_vars => TypeInv'
  <1> SUFFICES ASSUME TypeInv, [Next]_vars PROVE TypeInv'
    OBVIOUS
  <1> USE SimLoopAssumption DEF runningVars, Leave, Machines
  <1>here. here \in Hosts
    BY DEF TypeInv, TypeOK, RunTypes, Machines
  <1>1. CASE \E h \in Machines : CallSoon(h)
    <2> PICK h \in Machines : CallSoon(h)
      BY <1>1
    <2>1. nextSeq < MaxSeq /\ Enqueue(h) /\ nextSeq + 1 < MaxSeq
      BY DEF CallSoon, RoomForUser, TypeInv, TypeOK, HandleTypes
    <2>2. /\ nextSeq \in Ids /\ nextSeq' = nextSeq + 1 /\ nextSeq' \in 0 .. MaxSeq
          /\ host' \in [Ids -> Hosts] /\ maker' \in [Ids -> Hosts] /\ deadline' \in [Ids -> Int]
          /\ shown' \in [Ids -> Int] /\ trace' \in Seq(Events)
          /\ ready' \in Seq(Ids)
      BY <2>1, EnqueueTyped
    <2>3. QueueTypes'
      BY <2>2 DEF CallSoon, TypeInv, TypeOK, QueueTypes
    <2>4. HandleTypes'
      BY <2>2 DEF CallSoon, TypeInv, TypeOK, HandleTypes, heapVars
    <2>5. RunTypes'
      BY DEF CallSoon, TypeInv, TypeOK, RunTypes, Outcomes, runVars
    <2>6. FlagTypes'
      BY DEF CallSoon, TypeInv, TypeOK, FlagTypes, runVars
    <2>7. FailTypes'
      BY DEF CallSoon, TypeInv, TypeOK, FailTypes, failVars
    <2>8. ClockTypes'
      BY DEF CallSoon, TypeInv, TypeOK, ClockTypes, clockVars
    <2>9. RunPhases'
      BY <2>1, <2>2 DEF CallSoon, TypeInv, RunPhases, Running, runVars, heapVars
    <2> QED
      BY <2>3, <2>4, <2>5, <2>6, <2>7, <2>8, <2>9 DEF TypeInv, TypeOK
  <1>2. ASSUME NEW h \in Hosts, NEW w \in Int, NEW d \in Int, CallAtTrue(h, w, d)
        PROVE  TypeInv'
    <2>1. nextSeq < MaxSeq /\ NewHandle(h, w, d) /\ nextSeq + 1 < MaxSeq
      BY <1>2 DEF CallAtTrue, RoomForUser, TypeInv, TypeOK, HandleTypes
    <2>2. /\ nextSeq \in Ids /\ nextSeq' = nextSeq + 1 /\ nextSeq' \in 0 .. MaxSeq
          /\ host' \in [Ids -> Hosts] /\ maker' \in [Ids -> Hosts] /\ deadline' \in [Ids -> Int]
          /\ shown' \in [Ids -> Int] /\ trace' \in Seq(Events)
      BY <1>here, <1>2, <2>1, NewHandleTyped
    <2>3. QueueTypes'
      BY <1>2, <2>2 DEF CallAtTrue, TypeInv, TypeOK, QueueTypes
    <2>4. HandleTypes'
      BY <1>2, <2>2 DEF CallAtTrue, TypeInv, TypeOK, HandleTypes, heapVars
    <2>5. RunTypes'
      BY <1>2 DEF CallAtTrue, TypeInv, TypeOK, RunTypes, Outcomes, runVars
    <2>6. FlagTypes'
      BY <1>2 DEF CallAtTrue, TypeInv, TypeOK, FlagTypes, runVars
    <2>7. FailTypes'
      BY <1>2 DEF CallAtTrue, TypeInv, TypeOK, FailTypes, failVars
    <2>8. ClockTypes'
      BY <1>2 DEF CallAtTrue, TypeInv, TypeOK, ClockTypes, clockVars
    <2>9. RunPhases'
      BY <1>2, <2>1, <2>2 DEF CallAtTrue, TypeInv, RunPhases, Running, runVars, heapVars
    <2> QED
      BY <2>3, <2>4, <2>5, <2>6, <2>7, <2>8, <2>9 DEF TypeInv, TypeOK
  <1>3. CASE \E h \in Hosts, d \in Delays : CallLater(h, d)
    <2> PICK h \in Hosts, d \in Delays : CallLater(h, d)
      BY <1>3
    <2>1. now + d \in Int /\ now + d + offset[here] \in Int
      BY <1>here DEF TypeInv, TypeOK, QueueTypes, ClockTypes
    <2> QED
      BY <1>2, <2>1 DEF CallLater
  <1>4. CASE \E h \in Machines, w \in Deadlines : CallAt(h, w)
    <2> PICK h \in Machines, w \in Deadlines : CallAt(h, w)
      BY <1>4
    <2>1. w \in Int /\ w - offset[here] \in Int
      BY <1>here DEF TypeInv, TypeOK, QueueTypes, ClockTypes
    <2> QED
      BY <1>2, <2>1 DEF CallAt
  <1>5. CASE \E s \in Ids : CancelHandle(s)
    <2>1. QueueTypes'
      BY <1>5 DEF CancelHandle, TypeInv, TypeOK, QueueTypes
    <2>2. HandleTypes'
      BY <1>5 DEF CancelHandle, TypeInv, TypeOK, HandleTypes, heapVars
    <2>3. RunTypes'
      BY <1>5 DEF CancelHandle, TypeInv, TypeOK, RunTypes, Outcomes, runVars
    <2>4. FlagTypes'
      BY <1>5 DEF CancelHandle, TypeInv, TypeOK, FlagTypes, runVars
    <2>5. FailTypes'
      BY <1>5 DEF CancelHandle, TypeInv, TypeOK, FailTypes, failVars
    <2>6. ClockTypes'
      BY <1>5 DEF CancelHandle, TypeInv, TypeOK, ClockTypes, clockVars
    <2>7. RunPhases'
      BY <1>5 DEF CancelHandle, TypeInv, RunPhases, Running, runVars, heapVars
    <2> QED
      BY <2>1, <2>2, <2>3, <2>4, <2>5, <2>6, <2>7 DEF TypeInv, TypeOK
  <1>6. CASE \E h \in Machines, o \in Offsets : SetClock(h, o)
    <2>1. QueueTypes'
      BY <1>6 DEF SetClock, TypeInv, TypeOK, QueueTypes
    <2>2. HandleTypes'
      BY <1>6 DEF SetClock, TypeInv, TypeOK, HandleTypes, heapVars
    <2>3. RunTypes'
      BY <1>6 DEF SetClock, TypeInv, TypeOK, RunTypes, Outcomes, runVars
    <2>4. FlagTypes'
      BY <1>6 DEF SetClock, TypeInv, TypeOK, FlagTypes, runVars
    <2>5. FailTypes'
      BY <1>6 DEF SetClock, TypeInv, TypeOK, FailTypes, failVars
    <2>6. ClockTypes'
      BY <1>6 DEF SetClock, TypeInv, TypeOK, ClockTypes, clockVars
    <2>7. RunPhases'
      BY <1>6 DEF SetClock, TypeInv, RunPhases, Running, runVars, heapVars
    <2> QED
      BY <2>1, <2>2, <2>3, <2>4, <2>5, <2>6, <2>7 DEF TypeInv, TypeOK
  <1>7. CASE Stop
    <2>1. QueueTypes'
      BY <1>7 DEF Stop, TypeInv, TypeOK, QueueTypes
    <2>2. HandleTypes'
      BY <1>7 DEF Stop, TypeInv, TypeOK, HandleTypes, heapVars
    <2>3. RunTypes'
      BY <1>7 DEF Stop, TypeInv, TypeOK, RunTypes, Outcomes, runVars
    <2>4. FlagTypes'
      BY <1>7 DEF Stop, TypeInv, TypeOK, FlagTypes, runVars
    <2>5. FailTypes'
      BY <1>7 DEF Stop, TypeInv, TypeOK, FailTypes, failVars
    <2>6. ClockTypes'
      BY <1>7 DEF Stop, TypeInv, TypeOK, ClockTypes, clockVars
    <2>7. RunPhases'
      BY <1>7 DEF Stop, TypeInv, RunPhases, Running, runVars, heapVars
    <2> QED
      BY <2>1, <2>2, <2>3, <2>4, <2>5, <2>6, <2>7 DEF TypeInv, TypeOK
  <1>8. CASE \E state \in {"done", "failed", "cancelled"} : Complete(state)
    <2> PICK state \in {"done", "failed", "cancelled"} : Complete(state)
      BY <1>8
    <2>1. CASE watched
      <3>1. nextSeq < MaxSeq /\ Enqueue(Driver) /\ stopCbs' = stopCbs \cup {nextSeq}
        BY <2>1, Zenon DEF Complete, TypeInv, RunPhases, Running
      <3>2. /\ nextSeq \in Ids /\ nextSeq' = nextSeq + 1 /\ nextSeq' \in 0 .. MaxSeq
            /\ host' \in [Ids -> Hosts] /\ maker' \in [Ids -> Hosts] /\ deadline' \in [Ids -> Int]
            /\ shown' \in [Ids -> Int] /\ trace' \in Seq(Events)
            /\ ready' \in Seq(Ids)
        BY <3>1, EnqueueTyped
      <3>3. QueueTypes'
        BY <3>1, <3>2 DEF Complete, TypeInv, TypeOK, QueueTypes
      <3>4. HandleTypes'
        BY <3>1, <3>2 DEF Complete, TypeInv, TypeOK, HandleTypes, heapVars
      <3>5. RunTypes'
        BY DEF Complete, TypeInv, TypeOK, RunTypes, Outcomes, runVars
      <3>6. FlagTypes'
        BY DEF Complete, TypeInv, TypeOK, FlagTypes, runVars
      <3>7. FailTypes'
        BY DEF Complete, TypeInv, TypeOK, FailTypes, failVars
      <3>8. ClockTypes'
        BY DEF Complete, TypeInv, TypeOK, ClockTypes, clockVars
      <3>9. RunPhases'
        BY <3>2, <2>1 DEF Complete, TypeInv, RunPhases, Running, runVars, heapVars
      <3> QED
        BY <3>3, <3>4, <3>5, <3>6, <3>7, <3>8, <3>9 DEF TypeInv, TypeOK
    <2>2. CASE ~watched
      <3>0. UNCHANGED <<heapVars, trace, ready, stopCbs>>
        BY <2>2, Zenon DEF Complete
      <3>1. QueueTypes'
        BY <3>0 DEF Complete, TypeInv, TypeOK, QueueTypes
      <3>2. HandleTypes'
        BY <3>0 DEF Complete, TypeInv, TypeOK, HandleTypes, heapVars
      <3>3. RunTypes'
        BY <3>0 DEF Complete, TypeInv, TypeOK, RunTypes, Outcomes, runVars
      <3>4. FlagTypes'
        BY <3>0 DEF Complete, TypeInv, TypeOK, FlagTypes, runVars
      <3>5. FailTypes'
        BY <3>0 DEF Complete, TypeInv, TypeOK, FailTypes, failVars
      <3>6. ClockTypes'
        BY <3>0 DEF Complete, TypeInv, TypeOK, ClockTypes, clockVars
      <3>7. RunPhases'
        BY <3>0 DEF Complete, TypeInv, RunPhases, Running, runVars, heapVars
      <3> QED
        BY <3>1, <3>2, <3>3, <3>4, <3>5, <3>6, <3>7 DEF TypeInv, TypeOK
    <2> QED
      BY <2>1, <2>2
  <1>9. CASE OrphanFails
    <2>1. QueueTypes'
      BY <1>9 DEF OrphanFails, TypeInv, TypeOK, QueueTypes
    <2>2. HandleTypes'
      BY <1>9 DEF OrphanFails, TypeInv, TypeOK, HandleTypes, heapVars
    <2>3. RunTypes'
      BY <1>9 DEF OrphanFails, TypeInv, TypeOK, RunTypes, Outcomes, runVars
    <2>4. FlagTypes'
      BY <1>9 DEF OrphanFails, TypeInv, TypeOK, FlagTypes, runVars
    <2>5. FailTypes'
      BY <1>9 DEF OrphanFails, TypeInv, TypeOK, FailTypes, failVars
    <2>6. ClockTypes'
      BY <1>9 DEF OrphanFails, TypeInv, TypeOK, ClockTypes, clockVars
    <2>7. RunPhases'
      BY <1>9 DEF OrphanFails, TypeInv, RunPhases, Running, runVars, heapVars
    <2> QED
      BY <2>1, <2>2, <2>3, <2>4, <2>5, <2>6, <2>7 DEF TypeInv, TypeOK
  <1>10. CASE CollectOrphan
    <2>1. unhandled + Reported \in Nat /\ orphans - 1 \in Nat
      BY <1>10, ReportedNat DEF CollectOrphan, TypeInv, TypeOK, FailTypes
    <2>2. QueueTypes'
      BY <1>10 DEF CollectOrphan, TypeInv, TypeOK, QueueTypes
    <2>3. HandleTypes'
      BY <1>10 DEF CollectOrphan, TypeInv, TypeOK, HandleTypes, heapVars
    <2>4. RunTypes'
      BY <1>10 DEF CollectOrphan, TypeInv, TypeOK, RunTypes, Outcomes, runVars
    <2>5. FlagTypes'
      BY <1>10 DEF CollectOrphan, TypeInv, TypeOK, FlagTypes, runVars
    <2>6. FailTypes'
      BY <1>10, <2>1 DEF CollectOrphan, TypeInv, TypeOK, FailTypes, failVars
    <2>7. ClockTypes'
      BY <1>10 DEF CollectOrphan, TypeInv, TypeOK, ClockTypes, clockVars
    <2>8. RunPhases'
      BY <1>10 DEF CollectOrphan, TypeInv, RunPhases, Running, runVars, heapVars
    <2> QED
      BY <2>2, <2>3, <2>4, <2>5, <2>6, <2>7, <2>8 DEF TypeInv, TypeOK
  <1>11. CASE Return
    <2>1. QueueTypes'
      BY <1>11 DEF Return, TypeInv, TypeOK, QueueTypes
    <2>2. HandleTypes'
      BY <1>11 DEF Return, TypeInv, TypeOK, HandleTypes, heapVars
    <2>3. RunTypes'
      BY <1>11 DEF Return, TypeInv, TypeOK, RunTypes, Outcomes, runVars
    <2>4. FlagTypes'
      BY <1>11 DEF Return, TypeInv, TypeOK, FlagTypes, runVars
    <2>5. FailTypes'
      BY <1>11 DEF Return, TypeInv, TypeOK, FailTypes, failVars
    <2>6. ClockTypes'
      BY <1>11 DEF Return, TypeInv, TypeOK, ClockTypes, clockVars
    <2>7. RunPhases'
      BY <1>11 DEF Return, TypeInv, RunPhases, Running, runVars, heapVars
    <2> QED
      BY <2>1, <2>2, <2>3, <2>4, <2>5, <2>6, <2>7 DEF TypeInv, TypeOK
  <1>12. CASE Raise
    <2>0. HandlerReturns \/ HandlerExits
      BY <1>12 DEF Raise
    <2> USE DEF HandlerReturns, HandlerExits, Unwind
    <2>1. unhandled + Reported \in Nat
      BY ReportedNat DEF TypeInv, TypeOK, FailTypes
    <2>2. QueueTypes'
      BY <1>12 DEF Raise, TypeInv, TypeOK, QueueTypes
    <2>3. HandleTypes'
      BY <1>12 DEF Raise, TypeInv, TypeOK, HandleTypes, heapVars
    <2>4. RunTypes'
      BY <1>12, <2>0 DEF Raise, TypeInv, TypeOK, RunTypes, Outcomes
    <2>5. FlagTypes'
      BY <1>12, <2>0 DEF Raise, TypeInv, TypeOK, FlagTypes
    <2>6. FailTypes'
      BY <1>12, <2>1 DEF Raise, TypeInv, TypeOK, FailTypes
    <2>7. ClockTypes'
      BY <1>12 DEF Raise, TypeInv, TypeOK, ClockTypes, clockVars
    <2>8. RunPhases'
      BY <1>12, <2>0 DEF Raise, TypeInv, RunPhases, Running, heapVars
    <2> QED
      BY <2>2, <2>3, <2>4, <2>5, <2>6, <2>7, <2>8 DEF TypeInv, TypeOK
  <1>13. CASE Interrupt
    <2>1. QueueTypes'
      BY <1>13 DEF Interrupt, Unwind, TypeInv, TypeOK, QueueTypes
    <2>2. HandleTypes'
      BY <1>13 DEF Interrupt, Unwind, TypeInv, TypeOK, HandleTypes, heapVars
    <2>3. RunTypes'
      BY <1>13 DEF Interrupt, Unwind, TypeInv, TypeOK, RunTypes, Outcomes, runVars
    <2>4. FlagTypes'
      BY <1>13 DEF Interrupt, Unwind, TypeInv, TypeOK, FlagTypes, runVars
    <2>5. FailTypes'
      BY <1>13 DEF Interrupt, Unwind, TypeInv, TypeOK, FailTypes, failVars
    <2>6. ClockTypes'
      BY <1>13 DEF Interrupt, Unwind, TypeInv, TypeOK, ClockTypes, clockVars
    <2>7. RunPhases'
      BY <1>13 DEF Interrupt, Unwind, TypeInv, RunPhases, Running, runVars, heapVars
    <2> QED
      BY <2>1, <2>2, <2>3, <2>4, <2>5, <2>6, <2>7 DEF TypeInv, TypeOK
  <1>14. CASE LoopStep
    BY <1>14, LoopStepTyped
  <1>15. CASE RunForever
    <2>1. QueueTypes'
      BY <1>15 DEF RunForever, TypeInv, TypeOK, QueueTypes
    <2>2. HandleTypes'
      BY <1>15 DEF RunForever, TypeInv, TypeOK, HandleTypes, heapVars
    <2>3. RunTypes'
      BY <1>15 DEF RunForever, TypeInv, TypeOK, RunTypes, Outcomes, runVars
    <2>4. FlagTypes'
      BY <1>15 DEF RunForever, TypeInv, TypeOK, FlagTypes, runVars
    <2>5. FailTypes'
      BY <1>15 DEF RunForever, TypeInv, TypeOK, FailTypes, failVars
    <2>6. ClockTypes'
      BY <1>15 DEF RunForever, TypeInv, TypeOK, ClockTypes, clockVars
    <2>7. RunPhases'
      BY <1>15 DEF RunForever, TypeInv, RunPhases, Running, runVars, heapVars
    <2> QED
      BY <2>1, <2>2, <2>3, <2>4, <2>5, <2>6, <2>7 DEF TypeInv, TypeOK
  <1>16. CASE \E kind \in Futures : RunUntilComplete(kind)
    <2> PICK kind \in Futures : RunUntilComplete(kind)
      BY <1>16
    <2>1. nextSeq < MaxSeq /\ nextSeq + 1 < MaxSeq /\ nextSeq \in Ids /\ NoId \notin Ids
      BY DEF RunUntilComplete, RoomForUser, TypeInv, TypeOK, HandleTypes, Ids, NoId
    <2>2. CASE kind # "future"
      <3>1. Enqueue(Driver)
        BY <2>2 DEF RunUntilComplete
      <3>2. /\ nextSeq \in Ids /\ nextSeq' = nextSeq + 1 /\ nextSeq' \in 0 .. MaxSeq
            /\ host' \in [Ids -> Hosts] /\ maker' \in [Ids -> Hosts] /\ deadline' \in [Ids -> Int]
            /\ shown' \in [Ids -> Int] /\ trace' \in Seq(Events)
            /\ ready' \in Seq(Ids)
        BY <2>1, <3>1, EnqueueTyped
      <3>3. QueueTypes'
        BY <2>1, <2>2, <3>2 DEF RunUntilComplete, TypeInv, TypeOK, QueueTypes
      <3>4. HandleTypes'
        BY <2>1, <2>2, <3>2 DEF RunUntilComplete, TypeInv, TypeOK, HandleTypes, heapVars
      <3>5. RunTypes'
        BY <2>1, <2>2 DEF RunUntilComplete, TypeInv, TypeOK, RunTypes, Outcomes, runVars
      <3>6. FlagTypes'
        BY <2>1, <2>2 DEF RunUntilComplete, TypeInv, TypeOK, FlagTypes, runVars
      <3>7. FailTypes'
        BY <2>1, <2>2 DEF RunUntilComplete, TypeInv, TypeOK, FailTypes, failVars
      <3>8. ClockTypes'
        BY <2>1, <2>2 DEF RunUntilComplete, TypeInv, TypeOK, ClockTypes, clockVars
      <3>9. RunPhases'
        BY <2>1, <2>2, <3>2 DEF RunUntilComplete, TypeInv, RunPhases, Running, runVars,
           heapVars
      <3> QED
        BY <3>3, <3>4, <3>5, <3>6, <3>7, <3>8, <3>9 DEF TypeInv, TypeOK
    <2>3. CASE kind = "future"
      <3>0. UNCHANGED <<heapVars, trace, ready>>
        BY <2>3 DEF RunUntilComplete
      <3>1. QueueTypes'
        BY <2>1, <2>3, <3>0 DEF RunUntilComplete, TypeInv, TypeOK, QueueTypes
      <3>2. HandleTypes'
        BY <2>1, <2>3, <3>0 DEF RunUntilComplete, TypeInv, TypeOK, HandleTypes, heapVars
      <3>3. RunTypes'
        BY <2>1, <2>3, <3>0 DEF RunUntilComplete, TypeInv, TypeOK, RunTypes, Outcomes,
           runVars
      <3>4. FlagTypes'
        BY <2>1, <2>3, <3>0 DEF RunUntilComplete, TypeInv, TypeOK, FlagTypes, runVars
      <3>5. FailTypes'
        BY <2>1, <2>3, <3>0 DEF RunUntilComplete, TypeInv, TypeOK, FailTypes, failVars
      <3>6. ClockTypes'
        BY <2>1, <2>3, <3>0 DEF RunUntilComplete, TypeInv, TypeOK, ClockTypes, clockVars
      <3>7. RunPhases'
        BY <2>1, <2>3, <3>0 DEF RunUntilComplete, TypeInv, RunPhases, Running, runVars,
           heapVars
      <3> QED
        BY <3>1, <3>2, <3>3, <3>4, <3>5, <3>6, <3>7 DEF TypeInv, TypeOK
    <2> QED
      BY <2>2, <2>3
  <1>17. CASE Close
    <2>1. QueueTypes'
      BY <1>17 DEF Close, TypeInv, TypeOK, QueueTypes
    <2>2. HandleTypes'
      BY <1>17 DEF Close, TypeInv, TypeOK, HandleTypes, heapVars
    <2>3. RunTypes'
      BY <1>17 DEF Close, TypeInv, TypeOK, RunTypes, Outcomes, runVars
    <2>4. FlagTypes'
      BY <1>17 DEF Close, TypeInv, TypeOK, FlagTypes, runVars
    <2>5. FailTypes'
      BY <1>17 DEF Close, TypeInv, TypeOK, FailTypes, failVars
    <2>6. ClockTypes'
      BY <1>17 DEF Close, TypeInv, TypeOK, ClockTypes, clockVars
    <2>7. RunPhases'
      BY <1>17 DEF Close, TypeInv, RunPhases, Running, runVars, heapVars
    <2> QED
      BY <2>1, <2>2, <2>3, <2>4, <2>5, <2>6, <2>7 DEF TypeInv, TypeOK
  <1>18. CASE UNCHANGED vars
    <2>1. QueueTypes'
      BY <1>18 DEF vars, TypeInv, TypeOK, QueueTypes
    <2>2. HandleTypes'
      BY <1>18 DEF vars, TypeInv, TypeOK, HandleTypes, heapVars
    <2>3. RunTypes'
      BY <1>18 DEF vars, TypeInv, TypeOK, RunTypes, Outcomes, runVars
    <2>4. FlagTypes'
      BY <1>18 DEF vars, TypeInv, TypeOK, FlagTypes, runVars
    <2>5. FailTypes'
      BY <1>18 DEF vars, TypeInv, TypeOK, FailTypes, failVars
    <2>6. ClockTypes'
      BY <1>18 DEF vars, TypeInv, TypeOK, ClockTypes, clockVars
    <2>7. RunPhases'
      BY <1>18 DEF vars, TypeInv, RunPhases, Running, runVars, heapVars
    <2> QED
      BY <2>1, <2>2, <2>3, <2>4, <2>5, <2>6, <2>7 DEF TypeInv, TypeOK
  <1> QED
    BY <1>1, <1>3, <1>4, <1>5, <1>6, <1>7, <1>8, <1>9, <1>10, <1>11, <1>12, <1>13, <1>14,
       <1>15, <1>16, <1>17, <1>18 DEF Next, Schedule

\* The initial state is well typed.
LEMMA InitTyped == Init => TypeInv
  <1> SUFFICES ASSUME Init PROVE TypeInv
    OBVIOUS
  <1> USE SimLoopAssumption DEF Init, Machines
  <1>1. QueueTypes
    BY DEF QueueTypes
  <1>2. HandleTypes
    BY DEF HandleTypes
  <1>3. RunTypes
    BY DEF RunTypes, Outcomes
  <1>4. FlagTypes
    BY DEF FlagTypes
  <1>5. FailTypes
    BY DEF FailTypes
  <1>6. ClockTypes
    BY DEF ClockTypes
  <1>7. RunPhases
    BY DEF RunPhases, Running
  <1> QED
    BY <1>1, <1>2, <1>3, <1>4, <1>5, <1>6, <1>7 DEF TypeInv, TypeOK

\* Every variable of the loop keeps its type in every behaviour, and a run
\* waiting for its future always has a handle left to end it with.
THEOREM TypeCorrect == Spec => []TypeOK
  <1>1. TypeInv => TypeOK
    BY DEF TypeInv
  <1> QED
    BY <1>1, InitTyped, TypeStep, PTL DEF Spec

-----------------------------------------------------------------------------
(***************************************************************************)
(* What a step does to the queue, the heap and the trace.  Every action is *)
(* one of these seven, which is all the remaining invariants need to know. *)
(***************************************************************************)
Same ==
    /\ pc = "due" => pc' = "due"
    /\ UNCHANGED <<ready, timers, nextSeq, deadline, trace, now>>

QueuesNew == \E h \in Hosts :
    Enqueue(h) /\ nextSeq < MaxSeq /\ pc # "due" /\ UNCHANGED <<timers, now>>

TimesNew == \E h \in Hosts, w, d \in Int :
    /\ NewHandle(h, w, d) /\ nextSeq < MaxSeq /\ pc # "due"
    /\ timers' = timers \cup {nextSeq} /\ UNCHANGED <<ready, now>>

Draws == \E i \in DOMAIN ready, kind \in Dispatch :
    /\ ready' = RemoveAt(ready, i)
    /\ trace' = Append(trace, Event(kind, now, ready[i]))
    /\ pc = "due" => \A t \in timers : deadline[t] > now
    /\ UNCHANGED <<timers, nextSeq, deadline, now>>

Discards == \E t \in timers :
    /\ timers' = timers \ {t}
    /\ trace' = Append(trace, Event("cancel", now, t))
    /\ pc = "due" => pc' = "due"
    /\ UNCHANGED <<ready, nextSeq, deadline, now>>

Advances == \E t \in timers :
    /\ IsHead(t) /\ t \notin cancelled /\ ready = <<>> /\ pc = "loop" /\ pc' = "due"
    /\ now' = IF deadline[t] > now THEN deadline[t] ELSE now
    /\ trace' = Append(trace, Event("advance", now', NoId))
    /\ UNCHANGED <<ready, timers, nextSeq, deadline>>

Readies == \E t \in timers :
    /\ pc = "due" /\ pc' = "due" /\ DueHead(t)
    /\ timers' = timers \ {t} /\ ready' = Append(ready, t)
    /\ UNCHANGED <<nextSeq, deadline, trace, now>>

QueueStep == Same \/ QueuesNew \/ TimesNew \/ Draws \/ Discards \/ Advances \/ Readies

\* Every action does one of the seven things to the queue, heap and trace.
LEMMA StepsAreQueueSteps == TypeInv /\ [Next]_vars => QueueStep
  <1> SUFFICES ASSUME TypeInv, [Next]_vars PROVE QueueStep
    OBVIOUS
  <1> USE SimLoopAssumption
  <1>here. here \in Hosts
    BY DEF TypeInv, TypeOK, RunTypes, Machines
  <1>1. CASE \E h \in Machines : CallSoon(h)
    BY <1>1 DEF CallSoon, UserCode, RoomForUser, QueueStep, QueuesNew, TypeInv, TypeOK,
       HandleTypes, Machines
  <1>2. ASSUME NEW h \in Hosts, NEW w \in Int, NEW d \in Int, CallAtTrue(h, w, d)
        PROVE  TimesNew
    BY <1>here, <1>2 DEF CallAtTrue, UserCode, RoomForUser, TimesNew, TypeInv, TypeOK,
       HandleTypes
  <1>3. CASE \E h \in Hosts, d \in Delays : CallLater(h, d)
    <2> PICK h \in Hosts, d \in Delays : CallLater(h, d)
      BY <1>3
    <2>1. now + d \in Int /\ now + d + offset[here] \in Int
      BY <1>here DEF TypeInv, TypeOK, QueueTypes, ClockTypes
    <2> QED
      BY <1>2, <2>1 DEF CallLater, QueueStep
  <1>4. CASE \E h \in Machines, w \in Deadlines : CallAt(h, w)
    <2> PICK h \in Machines, w \in Deadlines : CallAt(h, w)
      BY <1>4
    <2>1. w \in Int /\ w - offset[here] \in Int
      BY <1>here DEF TypeInv, TypeOK, QueueTypes, ClockTypes
    <2> QED
      BY <1>2, <2>1 DEF CallAt, Machines, QueueStep
  <1>5. CASE Stop \/ OrphanFails \/ CollectOrphan
    BY <1>5 DEF Stop, OrphanFails, CollectOrphan, heapVars, QueueStep, Same
  <1>19. CASE \E s \in Ids : CancelHandle(s)
    BY <1>19 DEF CancelHandle, heapVars, QueueStep, Same
  <1>20. CASE \E h \in Machines, o \in Offsets : SetClock(h, o)
    BY <1>20 DEF SetClock, heapVars, QueueStep, Same
  <1>6. CASE Return \/ Raise \/ Interrupt \/ RunForever \/ Close
    BY <1>6 DEF Return, Raise, Interrupt, RunForever, Close, heapVars,
       HandlerReturns, HandlerExits, Unwind, QueueStep, Same
  <1>7. CASE StopForever \/ FinishRun \/ ReportStall
    BY <1>7 DEF StopForever, FinishRun, ReportStall, ForeverEnds, heapVars, QueueStep, Same
  <1>8. CASE UNCHANGED vars
    BY <1>8 DEF vars, heapVars, QueueStep, Same
  <1>9. CASE \E state \in {"done", "failed", "cancelled"} : Complete(state)
    <2> PICK state \in {"done", "failed", "cancelled"} : Complete(state)
      BY <1>9
    <2>0. pc = "callback" /\ fut = "pending" /\ pc' = pc /\ UNCHANGED <<timers, now>>
      BY DEF Complete
    <2>1. CASE watched
      <3>1. Enqueue(Driver)
        BY <2>1, Zenon DEF Complete
      <3>2. nextSeq < MaxSeq
        BY <2>0, <2>1, Zenon DEF TypeInv, RunPhases, Running
      <3> QED
        BY <2>0, <3>1, <3>2 DEF QueueStep, QueuesNew
    <2>2. CASE ~watched
      <3>1. UNCHANGED <<heapVars, trace, ready>>
        BY <2>2, Zenon DEF Complete
      <3> QED
        BY <2>0, <3>1 DEF heapVars, QueueStep, Same
    <2> QED
      BY <2>1, <2>2
  <1>10. CASE \E kind \in Futures : RunUntilComplete(kind)
    <2> PICK kind \in Futures : RunUntilComplete(kind)
      BY <1>10
    <2>1. CASE kind = "future"
      BY <2>1 DEF RunUntilComplete, heapVars, QueueStep, Same
    <2>2. CASE kind # "future"
      BY <2>2 DEF RunUntilComplete, RoomForUser, QueueStep, QueuesNew, TypeInv, TypeOK,
         HandleTypes
    <2> QED
      BY <2>1, <2>2
  <1>11. CASE CancelStalled
    <2>1. pc = "loop" /\ pc' = pc /\ UNCHANGED <<timers, now>>
      BY <1>11 DEF CancelStalled, ForeverEnds
    <2>2. nextSeq < MaxSeq
      BY <1>11 DEF CancelStalled, ForeverEnds, TypeInv, RunPhases, Running
    <2>3. CASE WakesToCancel
      BY <2>1, <2>2, <2>3 DEF WakesToCancel, QueueStep, QueuesNew
    <2>4. CASE UNCHANGED <<heapVars, trace, ready, tasks>>
      BY <2>1, <2>4 DEF heapVars, QueueStep, Same
    <2> QED
      BY <1>11, <2>3, <2>4 DEF CancelStalled, RidesAlong
  <1>12. CASE \E i \in DOMAIN ready : Step(i)
    <2> PICK i \in DOMAIN ready : Step(i)
      BY <1>12
    <2> DEFINE kind == IF ready[i] \notin cancelled THEN "run" ELSE "cancel"
    <2>1. kind \in Dispatch
      BY DEF Dispatch
    <2>2. trace' = Append(trace, Event(kind, now, ready[i]))
      BY DEF Step
    <2>3. ready' = RemoveAt(ready, i) /\ (pc = "due" => \A t \in timers : deadline[t] > now)
      BY DEF Step
    <2>4. UNCHANGED <<timers, nextSeq, deadline, now>>
      BY DEF Step, heapVars
    <2> HIDE DEF kind
    <2> QED
      BY <2>1, <2>2, <2>3, <2>4 DEF QueueStep, Draws
  <1>13. CASE \E t \in timers : DiscardCancelledHead(t)
    <2> PICK t \in timers : DiscardCancelledHead(t)
      BY <1>13
    <2>1. /\ timers' = timers \ {t} /\ trace' = Append(trace, Event("cancel", now, t))
          /\ pc # "due" /\ UNCHANGED <<ready, nextSeq, deadline, now>>
      BY DEF DiscardCancelledHead, heapVars
    <2> QED
      BY <2>1 DEF QueueStep, Discards
  <1>14. CASE \E t \in timers : AdvanceClock(t)
    <2> PICK t \in timers : AdvanceClock(t)
      BY <1>14
    <2>1. /\ IsHead(t) /\ t \notin cancelled /\ ready = <<>> /\ pc = "loop" /\ pc' = "due"
          /\ now' = IF deadline[t] > now THEN deadline[t] ELSE now
          /\ trace' = Append(trace, Event("advance", now', NoId))
          /\ UNCHANGED <<ready, timers, nextSeq, deadline>>
      BY DEF AdvanceClock, heapVars
    <2> QED
      BY <2>1 DEF QueueStep, Advances
  <1>15. CASE \E t \in timers : PopDue(t)
    <2> PICK t \in timers : PopDue(t)
      BY <1>15
    <2>1. CASE t \in cancelled
      BY <2>1 DEF PopDue, heapVars, QueueStep, Discards
    <2>2. CASE t \notin cancelled
      BY <2>2 DEF PopDue, heapVars, QueueStep, Readies
    <2> QED
      BY <2>1, <2>2
  <1>16. CASE LoopStep
    BY <1>7, <1>11, <1>12, <1>13, <1>14, <1>15, <1>16, Zenon DEF LoopStep
  <1>17. CASE Schedule
    BY <1>1, <1>3, <1>4, <1>17, Zenon DEF Schedule
  <1>18. CASE Next
    BY <1>5, <1>6, <1>9, <1>10, <1>16, <1>17, <1>18, <1>19, <1>20 DEF Next
  <1> QED
    BY <1>8, <1>18

-----------------------------------------------------------------------------
\* Appending to the queue adds one entry.
LEMMA EntriesAppend ==
    ASSUME NEW S, NEW q \in Seq(S), NEW x \in S
    PROVE  Entries(Append(q, x)) = Entries(q) \cup {x}
  <1> DEFINE r == Append(q, x)
  <1>1. /\ DOMAIN r = 1 .. Len(q) + 1 /\ DOMAIN q = 1 .. Len(q) /\ Len(q) \in Nat
        /\ r[Len(q) + 1] = x /\ \A i \in 1 .. Len(q) : r[i] = q[i]
    OBVIOUS
  <1> HIDE DEF r
  <1>2. Entries(r) = Entries(q) \cup {x}
    BY <1>1 DEF Entries
  <1> QED
    BY <1>2 DEF r

\* Popping one entry of a queue without repetitions removes exactly that one.
LEMMA EntriesRemove ==
    ASSUME NEW S, NEW q \in Seq(S), NEW i \in DOMAIN q,
           \A j, k \in DOMAIN q : q[j] = q[k] => j = k
    PROVE  /\ Entries(RemoveAt(q, i)) = Entries(q) \ {q[i]}
           /\ \A j, k \in DOMAIN RemoveAt(q, i) :
                 RemoveAt(q, i)[j] = RemoveAt(q, i)[k] => j = k
  <1> DEFINE r == RemoveAt(q, i)
  <1>1. /\ DOMAIN r = 1 .. Len(q) - 1 /\ DOMAIN q = 1 .. Len(q) /\ Len(q) \in Nat
        /\ \A j \in 1 .. Len(q) - 1 : r[j] = IF j < i THEN q[j] ELSE q[j + 1]
    BY RemoveAtFacts
  <1> HIDE DEF r
  <1>2. \A x \in Entries(r) : x \in Entries(q) /\ x # q[i]
    BY <1>1 DEF Entries
  <1>3. ASSUME NEW x \in Entries(q), x # q[i] PROVE x \in Entries(r)
    <2>1. PICK k \in 1 .. Len(q) : x = q[k]
      BY <1>1 DEF Entries
    <2>2. CASE k < i
      <3>1. k \in 1 .. Len(q) - 1 /\ r[k] = x
        BY <1>1, <2>1, <2>2
      <3> QED
        BY <1>1, <3>1 DEF Entries
    <2>3. CASE k > i
      <3>1. k - 1 \in 1 .. Len(q) - 1 /\ r[k - 1] = x
        BY <1>1, <2>1, <2>3
      <3> QED
        BY <1>1, <3>1 DEF Entries
    <2> QED
      BY <1>1, <1>3, <2>1, <2>2, <2>3
  <1>4. \A j, k \in DOMAIN r : r[j] = r[k] => j = k
    BY <1>1
  <1>5. Entries(r) = Entries(q) \ {q[i]}
    BY <1>2, <1>3
  <1> QED
    BY <1>4, <1>5 DEF r

\* Recording an event extends the trace and changes nothing in it.
LEMMA Recorded ==
    ASSUME NEW t \in Seq(Events), NEW e \in Events
    PROVE  /\ Append(t, e) \in Seq(Events)
           /\ Len(t) \in Nat /\ DOMAIN t = 1 .. Len(t)
           /\ DOMAIN Append(t, e) = 1 .. Len(t) + 1
           /\ Append(t, e)[Len(t) + 1] = e
           /\ \A i \in 1 .. Len(t) : Append(t, e)[i] = t[i]
  OBVIOUS

-----------------------------------------------------------------------------
(***************************************************************************)
(* Accounting: every handle is in exactly one place, exactly once.         *)
(***************************************************************************)

\* What recording one event changes: who is dispatched, and nothing else.
LEMMA DispatchedAfter ==
    ASSUME TypeInv, NEW e \in Events, trace' = Append(trace, e)
    PROVE  /\ \A s : Dispatched(s)' <=> Dispatched(s) \/ (e.seq = s /\ e.kind \in Dispatch)
           /\ (e.kind \in Dispatch => ~Dispatched(e.seq))
              /\ (\A i, j \in DOMAIN trace :
                    /\ trace[i].kind \in Dispatch /\ trace[j].kind \in Dispatch
                    /\ trace[i].seq = trace[j].seq
                    => i = j)
              => \A i, j \in DOMAIN trace' :
                    /\ trace'[i].kind \in Dispatch /\ trace'[j].kind \in Dispatch
                    /\ trace'[i].seq = trace'[j].seq
                    => i = j
  <1>0. trace \in Seq(Events)
    BY DEF TypeInv, TypeOK, HandleTypes
  <1>1. /\ Len(trace) \in Nat /\ DOMAIN trace = 1 .. Len(trace)
        /\ DOMAIN trace' = 1 .. Len(trace) + 1
        /\ trace'[Len(trace) + 1] = e
        /\ \A i \in 1 .. Len(trace) : trace'[i] = trace[i]
    BY <1>0, Recorded
  <1>2. ASSUME NEW s PROVE Dispatched(s)' <=> Dispatched(s) \/ (e.seq = s /\ e.kind \in Dispatch)
    BY <1>1 DEF Dispatched
  <1> QED
    BY <1>1, <1>2 DEF Dispatched

\* No step loses, duplicates or repeats a handle.
LEMMA AccountedStep == TypeInv /\ Accounted /\ QueueStep => Accounted'
  <1> SUFFICES ASSUME TypeInv, Accounted, QueueStep PROVE Accounted'
    OBVIOUS
  <1> USE SimLoopAssumption
  <1>0. /\ ready \in Seq(Ids) /\ timers \subseteq Ids /\ nextSeq \in 0 .. MaxSeq
        /\ trace \in Seq(Events) /\ now \in Int
    BY DEF TypeInv, TypeOK, QueueTypes, HandleTypes
  <1>e. \A kind \in EventKinds, when \in Int, s \in Ids \cup {NoId} :
          /\ Event(kind, when, s) \in Events
          /\ Event(kind, when, s).kind = kind /\ Event(kind, when, s).seq = s
    BY DEF Event, Events
  <1>n. NoId \notin Ids /\ \A s \in Ids : s \in Int
    BY DEF Ids, NoId
  <1>k. {"schedule", "advance"} \cap Dispatch = {} /\ Dispatch \subseteq EventKinds
        /\ {"schedule", "advance"} \subseteq EventKinds
    BY DEF Dispatch, EventKinds
  <1>1. CASE Same
    BY <1>1 DEF Same, Accounted, Dispatched, Entries
  <1>2. CASE QueuesNew
    <2> PICK h \in Hosts : Enqueue(h) /\ nextSeq < MaxSeq /\ UNCHANGED <<timers, now>>
      BY <1>2 DEF QueuesNew
    <2>1. nextSeq \in Ids /\ nextSeq' = nextSeq + 1 /\ ready' = Append(ready, nextSeq)
          /\ trace' = Append(trace, Event("schedule", now, nextSeq))
      BY <1>0 DEF Enqueue, NewHandle, Ids
    <2>2. Event("schedule", now, nextSeq) \in Events
          /\ Event("schedule", now, nextSeq).kind \notin Dispatch
      BY <1>0, <1>e, <1>k, <2>1
    <2>3. \A s : Dispatched(s)' <=> Dispatched(s)
      BY <2>1, <2>2, DispatchedAfter
    <2>4. Entries(ready') = Entries(ready) \cup {nextSeq}
      BY <1>0, <2>1, EntriesAppend
    <2>5. nextSeq \notin Entries(ready) /\ nextSeq \notin timers /\ ~Dispatched(nextSeq)
      BY <1>0, <2>1 DEF Accounted
    <2>6. \A s \in Ids : s < nextSeq' <=> s < nextSeq \/ s = nextSeq
      BY <1>0, <1>n, <2>1
    <2>7. \A i, j \in DOMAIN ready' : ready'[i] = ready'[j] => i = j
      <3>1. /\ DOMAIN ready' = 1 .. Len(ready) + 1 /\ DOMAIN ready = 1 .. Len(ready)
            /\ Len(ready) \in Nat
            /\ ready'[Len(ready) + 1] = nextSeq
            /\ \A i \in 1 .. Len(ready) : ready'[i] = ready[i]
        BY <1>0, <2>1
      <3>2. \A i \in DOMAIN ready : ready[i] # nextSeq
        BY <2>5 DEF Entries
      <3> QED
        BY <3>1, <3>2 DEF Accounted
    <2>8. \A i, j \in DOMAIN trace' :
            /\ trace'[i].kind \in Dispatch /\ trace'[j].kind \in Dispatch
            /\ trace'[i].seq = trace'[j].seq
            => i = j
      BY <2>1, <2>2, DispatchedAfter DEF Accounted
    <2>9. \A s \in Ids : s < nextSeq' <=> (s \in Entries(ready') \cup timers' \/ Dispatched(s)')
      BY <2>3, <2>4, <2>6 DEF Accounted
    <2>10. /\ \A s \in timers' : s \notin Entries(ready') /\ ~Dispatched(s)'
           /\ \A s \in Entries(ready') : ~Dispatched(s)'
      BY <2>3, <2>4, <2>5 DEF Accounted
    <2> QED
      BY <2>7, <2>8, <2>9, <2>10 DEF Accounted, Entries
  <1>3. CASE TimesNew
    <2>1. /\ nextSeq \in Ids /\ nextSeq' = nextSeq + 1 /\ ready' = ready
          /\ timers' = timers \cup {nextSeq}
          /\ trace' = Append(trace, Event("schedule", now, nextSeq))
      BY <1>0, <1>3 DEF TimesNew, NewHandle, Ids
    <2>2. Event("schedule", now, nextSeq) \in Events
          /\ Event("schedule", now, nextSeq).kind \notin Dispatch
      BY <1>0, <1>e, <1>k, <2>1
    <2>3. \A s : Dispatched(s)' <=> Dispatched(s)
      BY <2>1, <2>2, DispatchedAfter
    <2>4. nextSeq \notin Entries(ready) /\ ~Dispatched(nextSeq)
      BY <1>0, <2>1 DEF Accounted
    <2>5. \A s \in Ids : s < nextSeq' <=> s < nextSeq \/ s = nextSeq
      BY <1>0, <1>n, <2>1
    <2>6. \A i, j \in DOMAIN trace' :
            /\ trace'[i].kind \in Dispatch /\ trace'[j].kind \in Dispatch
            /\ trace'[i].seq = trace'[j].seq
            => i = j
      BY <2>1, <2>2, DispatchedAfter DEF Accounted
    <2>7. \A s \in Ids : s < nextSeq' <=> (s \in Entries(ready') \cup timers' \/ Dispatched(s)')
      BY <2>1, <2>3, <2>5 DEF Accounted
    <2>8. /\ \A s \in timers' : s \notin Entries(ready') /\ ~Dispatched(s)'
          /\ \A s \in Entries(ready') : ~Dispatched(s)'
          /\ \A i, j \in DOMAIN ready' : ready'[i] = ready'[j] => i = j
      BY <2>1, <2>3, <2>4 DEF Accounted
    <2> QED
      BY <2>6, <2>7, <2>8 DEF Accounted, Entries
  <1>4. CASE Draws
    <2> PICK i \in DOMAIN ready, kind \in Dispatch :
          /\ ready' = RemoveAt(ready, i)
          /\ trace' = Append(trace, Event(kind, now, ready[i]))
          /\ UNCHANGED <<timers, nextSeq>>
      BY <1>4 DEF Draws
    <2>1. ready[i] \in Ids /\ ready[i] \in Entries(ready)
      BY <1>0 DEF Entries
    <2>2. Event(kind, now, ready[i]) \in Events /\ Event(kind, now, ready[i]).kind = kind
          /\ Event(kind, now, ready[i]).seq = ready[i]
      BY <1>0, <1>e, <1>k, <2>1
    <2>3. \A s : Dispatched(s)' <=> Dispatched(s) \/ s = ready[i]
      BY <2>2, DispatchedAfter
    <2>4. Entries(ready') = Entries(ready) \ {ready[i]}
          /\ \A j, k \in DOMAIN ready' : ready'[j] = ready'[k] => j = k
      BY <1>0, EntriesRemove DEF Accounted
    <2>5. \A j, k \in DOMAIN trace' :
            /\ trace'[k].kind \in Dispatch /\ trace'[j].kind \in Dispatch
            /\ trace'[k].seq = trace'[j].seq
            => j = k
      BY <2>1, <2>2, DispatchedAfter DEF Accounted
    <2>6. \A s \in Ids : s < nextSeq' <=> (s \in Entries(ready') \cup timers' \/ Dispatched(s)')
      BY <2>1, <2>3, <2>4 DEF Accounted
    <2>7. /\ \A s \in timers' : s \notin Entries(ready') /\ ~Dispatched(s)'
          /\ \A s \in Entries(ready') : ~Dispatched(s)'
      BY <2>1, <2>3, <2>4 DEF Accounted
    <2> QED
      BY <2>4, <2>5, <2>6, <2>7 DEF Accounted, Entries
  <1>5. CASE Discards
    <2> PICK t \in timers :
          /\ timers' = timers \ {t}
          /\ trace' = Append(trace, Event("cancel", now, t))
          /\ UNCHANGED <<ready, nextSeq>>
      BY <1>5 DEF Discards
    <2>1. t \in Ids /\ "cancel" \in Dispatch
      BY <1>0 DEF Dispatch
    <2>2. Event("cancel", now, t) \in Events /\ Event("cancel", now, t).kind = "cancel"
          /\ Event("cancel", now, t).seq = t
      BY <1>0, <1>e, <1>k, <2>1
    <2>3. \A s : Dispatched(s)' <=> Dispatched(s) \/ s = t
      BY <2>1, <2>2, DispatchedAfter
    <2>4. \A i, j \in DOMAIN trace' :
            /\ trace'[i].kind \in Dispatch /\ trace'[j].kind \in Dispatch
            /\ trace'[i].seq = trace'[j].seq
            => i = j
      BY <2>1, <2>2, DispatchedAfter DEF Accounted
    <2>5. \A s \in Ids : s < nextSeq' <=> (s \in Entries(ready') \cup timers' \/ Dispatched(s)')
      BY <2>1, <2>3 DEF Accounted
    <2>6. /\ \A s \in timers' : s \notin Entries(ready') /\ ~Dispatched(s)'
          /\ \A s \in Entries(ready') : ~Dispatched(s)'
          /\ \A i, j \in DOMAIN ready' : ready'[i] = ready'[j] => i = j
      BY <2>1, <2>3 DEF Accounted
    <2> QED
      BY <2>4, <2>5, <2>6 DEF Accounted, Entries
  <1>6. CASE Advances
    <2>1. now' \in Int
      BY <1>0, <1>6 DEF Advances, TypeInv, TypeOK, HandleTypes
    <2>2. trace' = Append(trace, Event("advance", now', NoId))
          /\ UNCHANGED <<ready, timers, nextSeq>>
      BY <1>6 DEF Advances
    <2>3. Event("advance", now', NoId) \in Events
          /\ Event("advance", now', NoId).kind \notin Dispatch
      BY <1>e, <1>k, <2>1
    <2>4. \A s : Dispatched(s)' <=> Dispatched(s)
      BY <2>2, <2>3, DispatchedAfter
    <2>5. \A i, j \in DOMAIN trace' :
            /\ trace'[i].kind \in Dispatch /\ trace'[j].kind \in Dispatch
            /\ trace'[i].seq = trace'[j].seq
            => i = j
      BY <2>2, <2>3, DispatchedAfter DEF Accounted
    <2>6. /\ \A s \in Ids : s < nextSeq' <=> (s \in Entries(ready') \cup timers' \/ Dispatched(s)')
          /\ \A s \in timers' : s \notin Entries(ready') /\ ~Dispatched(s)'
          /\ \A s \in Entries(ready') : ~Dispatched(s)'
          /\ \A i, j \in DOMAIN ready' : ready'[i] = ready'[j] => i = j
      BY <2>2, <2>4 DEF Accounted
    <2> QED
      BY <2>5, <2>6 DEF Accounted, Entries
  <1>7. CASE Readies
    <2> PICK t \in timers :
          /\ timers' = timers \ {t} /\ ready' = Append(ready, t)
          /\ UNCHANGED <<nextSeq, trace>>
      BY <1>7 DEF Readies
    <2>1. t \in Ids /\ t \notin Entries(ready) /\ ~Dispatched(t)
      BY <1>0 DEF Accounted
    <2>2. Entries(ready') = Entries(ready) \cup {t}
      BY <1>0, <2>1, EntriesAppend
    <2>3. \A s : Dispatched(s)' <=> Dispatched(s)
      BY DEF Dispatched
    <2>4. \A i, j \in DOMAIN ready' : ready'[i] = ready'[j] => i = j
      <3>1. /\ DOMAIN ready' = 1 .. Len(ready) + 1 /\ DOMAIN ready = 1 .. Len(ready)
            /\ Len(ready) \in Nat
            /\ ready'[Len(ready) + 1] = t
            /\ \A i \in 1 .. Len(ready) : ready'[i] = ready[i]
        BY <1>0, <2>1
      <3>2. \A i \in DOMAIN ready : ready[i] # t
        BY <2>1 DEF Entries
      <3> QED
        BY <3>1, <3>2 DEF Accounted
    <2>5. \A i, j \in DOMAIN trace' :
            /\ trace'[i].kind \in Dispatch /\ trace'[j].kind \in Dispatch
            /\ trace'[i].seq = trace'[j].seq
            => i = j
      BY DEF Accounted
    <2>6. \A s \in Ids : s < nextSeq' <=> (s \in Entries(ready') \cup timers' \/ Dispatched(s)')
      BY <2>1, <2>2, <2>3 DEF Accounted
    <2>7. /\ \A s \in timers' : s \notin Entries(ready') /\ ~Dispatched(s)'
          /\ \A s \in Entries(ready') : ~Dispatched(s)'
      BY <2>1, <2>2, <2>3 DEF Accounted
    <2> QED
      BY <2>4, <2>5, <2>6, <2>7 DEF Accounted, Entries
  <1> QED
    BY <1>1, <1>2, <1>3, <1>4, <1>5, <1>6, <1>7 DEF QueueStep

-----------------------------------------------------------------------------
(***************************************************************************)
(* Time: what the trace and the heap say about the clock.  TraceIsAHistory *)
(* needs to know that whatever is ready is due and that whatever was       *)
(* created was recorded.                                                   *)
(***************************************************************************)
ReadyIsDue == \A s \in Entries(ready) : deadline[s] <= now

CreationRecorded == \A s \in Ids : s < nextSeq =>
    \E j \in DOMAIN trace : trace[j].seq = s /\ trace[j].kind = "schedule"

RunsNamed == \A i \in DOMAIN trace : trace[i].kind = "run" => trace[i].seq \in Ids

TimeInv ==
    /\ ReadyIsDue /\ CreationRecorded /\ RunsNamed
    /\ TraceIsAHistory /\ NoTimerOvertaken

\* What an event in the trace says stays said.
Kept == \A x : (\E i \in DOMAIN trace : trace[i] = x) => \E i \in DOMAIN trace' : trace'[i] = x

\* Recording an event whose time is not before the clock's keeps the history
\* one, if a run it records is due and was scheduled.
LEMMA HistoryAfter ==
    ASSUME TypeInv, TraceIsAHistory, RunsNamed, NEW e \in Events, trace' = Append(trace, e),
           now' \in Int, now <= now', e.when = now',
           \A i \in DOMAIN trace :
              trace[i].kind = "run" => deadline'[trace[i].seq] = deadline[trace[i].seq],
           e.kind = "run" =>
              /\ e.seq \in Ids /\ deadline'[e.seq] <= now'
              /\ \E j \in DOMAIN trace : trace[j].seq = e.seq /\ trace[j].kind = "schedule"
    PROVE  TraceIsAHistory' /\ RunsNamed'
  <1>0. trace \in Seq(Events) /\ now \in Int
    BY DEF TypeInv, TypeOK, HandleTypes, QueueTypes
  <1>1. /\ Len(trace) \in Nat /\ DOMAIN trace = 1 .. Len(trace)
        /\ DOMAIN trace' = 1 .. Len(trace) + 1
        /\ trace'[Len(trace) + 1] = e
        /\ \A i \in 1 .. Len(trace) : trace'[i] = trace[i]
    BY <1>0, Recorded
  <1>2. \A i \in 1 .. Len(trace) : trace[i].when \in Int
    <2>1. \A i \in 1 .. Len(trace) : trace[i] \in Events
      BY <1>0
    <2>2. \A f \in Events : f.when \in Int
      BY DEF Events
    <2> QED
      BY <2>1, <2>2
  <1>3. \A i \in DOMAIN trace' : trace'[i].when <= now'
    BY <1>0, <1>1, <1>2 DEF TraceIsAHistory
  <1>4. \A i, j \in DOMAIN trace' : i < j => trace'[i].when <= trace'[j].when
    BY <1>0, <1>1, <1>2, <1>3 DEF TraceIsAHistory
  <1>5. ASSUME NEW i \in DOMAIN trace', trace'[i].kind = "run"
        PROVE  /\ deadline'[trace'[i].seq] <= trace'[i].when
               /\ \E j \in 1 .. i - 1 : trace'[j].seq = trace'[i].seq
                                        /\ trace'[j].kind = "schedule"
    <2>1. CASE i = Len(trace) + 1
      <3>1. trace'[i] = e /\ 1 .. i - 1 = DOMAIN trace
        BY <1>1, <2>1
      <3> QED
        BY <1>1, <1>5, <3>1
    <2>2. CASE i \in 1 .. Len(trace)
      <3>1. trace'[i] = trace[i] /\ \A j \in 1 .. i - 1 : trace'[j] = trace[j]
        BY <1>1, <2>2
      <3>2. /\ deadline[trace[i].seq] <= trace[i].when
            /\ \E j \in 1 .. i - 1 : trace[j].seq = trace[i].seq /\ trace[j].kind = "schedule"
        BY <1>1, <1>5, <2>2, <3>1 DEF TraceIsAHistory
      <3>3. deadline'[trace[i].seq] = deadline[trace[i].seq]
        BY <1>1, <1>5, <2>2, <3>1
      <3> QED
        BY <3>1, <3>2, <3>3
    <2> QED
      BY <1>1, <2>1, <2>2
  <1>6. \A i \in DOMAIN trace' : trace'[i].kind = "run" => trace'[i].seq \in Ids
    BY <1>1 DEF RunsNamed
  <1> QED
    BY <1>3, <1>4, <1>5, <1>6 DEF TraceIsAHistory, RunsNamed

\* Recording an event forgets no creation and no time of creation.
LEMMA CreationAfter ==
    ASSUME TypeInv, CreationRecorded, NEW e \in Events, trace' = Append(trace, e),
           nextSeq' = nextSeq \/ (nextSeq' = nextSeq + 1 /\ e.seq = nextSeq /\ e.kind = "schedule")
    PROVE  CreationRecorded' /\ Kept /\ \E i \in DOMAIN trace' : trace'[i] = e
  <1>0. trace \in Seq(Events) /\ nextSeq \in Int /\ Ids \subseteq Int
    BY DEF TypeInv, TypeOK, HandleTypes, Ids
  <1>1. /\ Len(trace) \in Nat /\ DOMAIN trace = 1 .. Len(trace)
        /\ DOMAIN trace' = 1 .. Len(trace) + 1
        /\ trace'[Len(trace) + 1] = e
        /\ \A i \in 1 .. Len(trace) : trace'[i] = trace[i]
    BY <1>0, Recorded
  <1>2. ASSUME NEW s \in Ids, s < nextSeq'
        PROVE  \E j \in DOMAIN trace' : trace'[j].seq = s /\ trace'[j].kind = "schedule"
    <2>1. CASE s < nextSeq
      BY <1>1, <2>1 DEF CreationRecorded
    <2>2. CASE ~(s < nextSeq)
      <3>1. s = nextSeq /\ e.seq = s /\ e.kind = "schedule"
        BY <1>0, <1>2, <2>2
      <3>2. Len(trace) + 1 \in DOMAIN trace'
        BY <1>1
      <3> QED
        BY <1>1, <3>1, <3>2
    <2> QED
      BY <2>1, <2>2
  <1>3. Kept
    BY <1>1 DEF Kept
  <1>4. Len(trace) + 1 \in DOMAIN trace' /\ trace'[Len(trace) + 1] = e
    BY <1>1
  <1> QED
    BY <1>2, <1>3, <1>4 DEF CreationRecorded

\* No step disturbs the history, readies a handle too early or leaves a timer
\* behind.
LEMMA TimeStep == TypeInv /\ Accounted /\ TimeInv /\ QueueStep => TimeInv'
  <1> SUFFICES ASSUME TypeInv, Accounted, TimeInv, QueueStep PROVE TimeInv'
    OBVIOUS
  <1> USE SimLoopAssumption
  <1>0. /\ ready \in Seq(Ids) /\ timers \subseteq Ids /\ nextSeq \in 0 .. MaxSeq
        /\ trace \in Seq(Events) /\ now \in Int /\ deadline \in [Ids -> Int]
        /\ Ids \subseteq Int
    BY DEF TypeInv, TypeOK, QueueTypes, HandleTypes, Ids
  <1>e. \A kind \in EventKinds, when \in Int, s \in Ids \cup {NoId} :
          /\ Event(kind, when, s) \in Events /\ Event(kind, when, s).kind = kind
          /\ Event(kind, when, s).seq = s /\ Event(kind, when, s).when = when
    BY DEF Event, Events
  <1>a. \A s \in Ids : s \in Entries(ready) \cup timers => s # nextSeq
    BY <1>0 DEF Accounted
  <1>i. Entries(ready) \subseteq Ids
    BY <1>0 DEF Entries
  <1>1. CASE Same
    BY <1>1 DEF Same, TimeInv, ReadyIsDue, CreationRecorded, RunsNamed, TraceIsAHistory,
       NoTimerOvertaken, Scheduled, Event, Entries
  <1>2. CASE QueuesNew
    <2>1. /\ nextSeq \in Ids /\ nextSeq' = nextSeq + 1 /\ now' = now
          /\ trace' = Append(trace, Event("schedule", now, nextSeq)) /\ pc # "due"
      BY <1>0, <1>2 DEF QueuesNew, Enqueue, NewHandle, Ids
    <2>2. /\ Event("schedule", now, nextSeq) \in Events
          /\ Event("schedule", now, nextSeq).kind = "schedule"
          /\ Event("schedule", now, nextSeq).seq = nextSeq
          /\ Event("schedule", now, nextSeq).when = now'
      BY <1>0, <1>e, <2>1 DEF EventKinds
    <2>3. \A s \in Ids : s # nextSeq => deadline'[s] = deadline[s]
      BY <1>0, <1>2 DEF QueuesNew, Enqueue, NewHandle
    <2>4. \A i \in DOMAIN trace : trace[i].kind = "run" => trace[i].seq \in Ids /\ trace[i].seq # nextSeq
      <3>1. ASSUME NEW i \in DOMAIN trace, trace[i].kind = "run"
            PROVE  trace[i].seq \in Ids /\ trace[i].seq < nextSeq
        <4>1. Dispatched(trace[i].seq)
          BY <3>1 DEF Dispatched, Dispatch
        <4>2. trace[i].seq \in Ids
          BY <3>1 DEF TimeInv, RunsNamed
        <4> QED
          BY <4>1, <4>2 DEF Accounted
      <3> QED
        BY <1>0, <2>1, <3>1
    <2> DEFINE e == Event("schedule", now, nextSeq)
    <2>5. TraceIsAHistory' /\ RunsNamed'
      <3>1. \A i \in DOMAIN trace :
              trace[i].kind = "run" => deadline'[trace[i].seq] = deadline[trace[i].seq]
        BY <2>3, <2>4
      <3>2. e \in Events /\ e.when = now' /\ e.kind # "run" /\ trace' = Append(trace, e)
            /\ now' \in Int /\ now <= now'
        BY <1>0, <2>1, <2>2
      <3> HIDE DEF e
      <3> QED
        BY <3>1, <3>2, HistoryAfter DEF TimeInv
    <2>6. CreationRecorded' /\ Kept /\ \E i \in DOMAIN trace' : trace'[i] = e
      <3>1. e \in Events /\ trace' = Append(trace, e)
            /\ nextSeq' = nextSeq + 1 /\ e.seq = nextSeq /\ e.kind = "schedule"
        BY <2>1, <2>2
      <3> HIDE DEF e
      <3> QED
        BY <3>1, CreationAfter DEF TimeInv
    <2>7. deadline'[nextSeq] = now /\ ready' = Append(ready, nextSeq) /\ timers' = timers
      BY <1>0, <1>2, <2>1 DEF QueuesNew, Enqueue, NewHandle
    <2>8. Entries(ready') = Entries(ready) \cup {nextSeq}
      BY <1>0, <2>1, <2>7, EntriesAppend
    <2>9. ASSUME NEW s \in Entries(ready') PROVE deadline'[s] <= now'
      <3>1. CASE s = nextSeq
        BY <1>0, <2>1, <2>7, <3>1
      <3>2. CASE s \in Entries(ready)
        <4>1. deadline'[s] = deadline[s]
          BY <1>a, <1>i, <2>3, <3>2
        <4> QED
          BY <2>1, <3>2, <4>1 DEF TimeInv, ReadyIsDue
      <3> QED
        BY <2>8, <2>9, <3>1, <3>2
    <2>10. NoTimerOvertaken'
      BY <1>0, <1>a, <2>1, <2>3, <2>6, <2>7 DEF TimeInv, NoTimerOvertaken, Scheduled, Event, Kept
    <2> QED
      BY <2>5, <2>6, <2>9, <2>10 DEF TimeInv, ReadyIsDue, Entries
  <1>3. CASE TimesNew
    <2>1. /\ nextSeq \in Ids /\ nextSeq' = nextSeq + 1 /\ now' = now
          /\ trace' = Append(trace, Event("schedule", now, nextSeq)) /\ pc # "due"
      BY <1>0, <1>3 DEF TimesNew, Enqueue, NewHandle, Ids
    <2>2. /\ Event("schedule", now, nextSeq) \in Events
          /\ Event("schedule", now, nextSeq).kind = "schedule"
          /\ Event("schedule", now, nextSeq).seq = nextSeq
          /\ Event("schedule", now, nextSeq).when = now'
      BY <1>0, <1>e, <2>1 DEF EventKinds
    <2>3. \A s \in Ids : s # nextSeq => deadline'[s] = deadline[s]
      BY <1>0, <1>3 DEF TimesNew, Enqueue, NewHandle
    <2>4. \A i \in DOMAIN trace : trace[i].kind = "run" => trace[i].seq \in Ids /\ trace[i].seq # nextSeq
      <3>1. ASSUME NEW i \in DOMAIN trace, trace[i].kind = "run"
            PROVE  trace[i].seq \in Ids /\ trace[i].seq < nextSeq
        <4>1. Dispatched(trace[i].seq)
          BY <3>1 DEF Dispatched, Dispatch
        <4>2. trace[i].seq \in Ids
          BY <3>1 DEF TimeInv, RunsNamed
        <4> QED
          BY <4>1, <4>2 DEF Accounted
      <3> QED
        BY <1>0, <2>1, <3>1
    <2> DEFINE e == Event("schedule", now, nextSeq)
    <2>5. TraceIsAHistory' /\ RunsNamed'
      <3>1. \A i \in DOMAIN trace :
              trace[i].kind = "run" => deadline'[trace[i].seq] = deadline[trace[i].seq]
        BY <2>3, <2>4
      <3>2. e \in Events /\ e.when = now' /\ e.kind # "run" /\ trace' = Append(trace, e)
            /\ now' \in Int /\ now <= now'
        BY <1>0, <2>1, <2>2
      <3> HIDE DEF e
      <3> QED
        BY <3>1, <3>2, HistoryAfter DEF TimeInv
    <2>6. CreationRecorded' /\ Kept /\ \E i \in DOMAIN trace' : trace'[i] = e
      <3>1. e \in Events /\ trace' = Append(trace, e)
            /\ nextSeq' = nextSeq + 1 /\ e.seq = nextSeq /\ e.kind = "schedule"
        BY <2>1, <2>2
      <3> HIDE DEF e
      <3> QED
        BY <3>1, CreationAfter DEF TimeInv
    <2>7. ready' = ready /\ timers' = timers \cup {nextSeq}
      BY <1>3 DEF TimesNew
    <2>8. ReadyIsDue'
      BY <1>0, <1>a, <1>i, <2>1, <2>3, <2>7 DEF TimeInv, ReadyIsDue, Entries
    <2>9. NoTimerOvertaken'
      BY <1>0, <1>a, <2>1, <2>3, <2>6, <2>7 DEF TimeInv, NoTimerOvertaken, Scheduled, Event, Kept
    <2> QED
      BY <2>5, <2>6, <2>8, <2>9 DEF TimeInv
  <1>4. CASE Draws
    <2> PICK i \in DOMAIN ready, kind \in Dispatch :
          /\ ready' = RemoveAt(ready, i)
          /\ trace' = Append(trace, Event(kind, now, ready[i]))
          /\ pc = "due" => \A t \in timers : deadline[t] > now
          /\ UNCHANGED <<timers, nextSeq, deadline, now>>
      BY <1>4 DEF Draws
    <2>1. ready[i] \in Ids /\ ready[i] \in Entries(ready) /\ kind \in EventKinds
      BY <1>0 DEF Entries, Dispatch, EventKinds
    <2>2. /\ Event(kind, now, ready[i]) \in Events
          /\ Event(kind, now, ready[i]).seq = ready[i]
          /\ Event(kind, now, ready[i]).when = now'
      <3>1. now' = now /\ now \in Int
        BY <1>0
      <3>2. ASSUME NEW s \in Ids
            PROVE  /\ Event(kind, now, s) \in Events
                   /\ Event(kind, now, s).seq = s /\ Event(kind, now, s).when = now
        BY <1>e, <2>1, <3>1
      <3> QED
        BY <2>1, <3>1, <3>2
    <2>3. /\ deadline'[ready[i]] <= now'
          /\ \E j \in DOMAIN trace : trace[j].seq = ready[i] /\ trace[j].kind = "schedule"
      BY <1>0, <2>1 DEF TimeInv, ReadyIsDue, CreationRecorded, Accounted
    <2>4. TraceIsAHistory' /\ RunsNamed'
      BY <1>0, <2>1, <2>2, <2>3, HistoryAfter DEF TimeInv
    <2>5. CreationRecorded' /\ Kept
      BY <2>2, CreationAfter DEF TimeInv
    <2>6. Entries(ready') \subseteq Entries(ready)
      BY <1>0, EntriesRemove DEF Accounted
    <2>7. \A s \in Entries(ready') : deadline'[s] <= now'
      BY <2>6 DEF TimeInv, ReadyIsDue
    <2>8. NoTimerOvertaken'
      BY <2>5 DEF TimeInv, NoTimerOvertaken, Scheduled, Event, Kept
    <2> QED
      BY <2>4, <2>5, <2>7, <2>8 DEF TimeInv, ReadyIsDue, Entries
  <1>5. CASE Discards
    <2> PICK t \in timers :
          /\ timers' = timers \ {t}
          /\ trace' = Append(trace, Event("cancel", now, t))
          /\ pc = "due" => pc' = "due"
          /\ UNCHANGED <<ready, nextSeq, deadline, now>>
      BY <1>5 DEF Discards
    <2>1. t \in Ids /\ "cancel" \in EventKinds
      BY <1>0 DEF EventKinds
    <2>2. /\ Event("cancel", now, t) \in Events /\ Event("cancel", now, t).kind # "run"
          /\ Event("cancel", now, t).when = now'
      BY <1>0, <1>e, <2>1
    <2>3. TraceIsAHistory' /\ RunsNamed'
      BY <1>0, <2>2, HistoryAfter DEF TimeInv
    <2>4. CreationRecorded' /\ Kept
      BY <2>2, CreationAfter DEF TimeInv
    <2>5. ReadyIsDue' /\ NoTimerOvertaken'
      BY <2>4 DEF TimeInv, ReadyIsDue, NoTimerOvertaken, Entries, Scheduled, Event, Kept
    <2> QED
      BY <2>3, <2>4, <2>5 DEF TimeInv
  <1>6. CASE Advances
    <2> PICK t \in timers :
          /\ ready = <<>> /\ pc' = "due"
          /\ now' = IF deadline[t] > now THEN deadline[t] ELSE now
          /\ trace' = Append(trace, Event("advance", now', NoId))
          /\ UNCHANGED <<ready, timers, nextSeq, deadline>>
      BY <1>6 DEF Advances
    <2>1. now' \in Int /\ now <= now' /\ "advance" \in EventKinds
      BY <1>0 DEF EventKinds
    <2>2. /\ Event("advance", now', NoId) \in Events
          /\ Event("advance", now', NoId).kind # "run"
          /\ Event("advance", now', NoId).when = now'
      BY <1>e, <2>1
    <2>3. TraceIsAHistory' /\ RunsNamed'
      BY <2>1, <2>2, HistoryAfter DEF TimeInv
    <2>4. CreationRecorded'
      BY <2>2, CreationAfter DEF TimeInv
    <2>5. ReadyIsDue' /\ NoTimerOvertaken'
      BY DEF ReadyIsDue, NoTimerOvertaken, Entries
    <2> QED
      BY <2>3, <2>4, <2>5 DEF TimeInv
  <1>7. CASE Readies
    <2> PICK t \in timers :
          /\ pc' = "due" /\ DueHead(t)
          /\ timers' = timers \ {t} /\ ready' = Append(ready, t)
          /\ UNCHANGED <<nextSeq, deadline, trace, now>>
      BY <1>7 DEF Readies
    <2>1. t \in Ids /\ deadline[t] <= now
      BY <1>0 DEF DueHead
    <2>2. Entries(ready') = Entries(ready) \cup {t}
      BY <1>0, <2>1, EntriesAppend
    <2>3. \A s \in Entries(ready') : deadline'[s] <= now'
      BY <2>1, <2>2 DEF TimeInv, ReadyIsDue
    <2>4. TraceIsAHistory' /\ CreationRecorded' /\ RunsNamed' /\ NoTimerOvertaken'
      BY DEF TimeInv, TraceIsAHistory, CreationRecorded, RunsNamed, NoTimerOvertaken
    <2> QED
      BY <2>3, <2>4 DEF TimeInv, ReadyIsDue, Entries
  <1> QED
    BY <1>1, <1>2, <1>3, <1>4, <1>5, <1>6, <1>7 DEF QueueStep

(***************************************************************************)
(* The inductive invariant and the theorems.                               *)
(***************************************************************************)
LoopInv == TypeInv /\ Accounted /\ TimeInv

\* The inductive invariant holds in every behaviour of the loop.
THEOREM LoopInvariant == Spec => []LoopInv
  <1>1. Init => Accounted /\ TimeInv
    BY SimLoopAssumption DEF Init, Accounted, TimeInv, Entries, Dispatched, ReadyIsDue,
       CreationRecorded, RunsNamed, TraceIsAHistory, NoTimerOvertaken, Ids
  <1>2. LoopInv /\ [Next]_vars => LoopInv'
    BY TypeStep, StepsAreQueueSteps, AccountedStep, TimeStep DEF LoopInv
  <1>3. Init => TypeInv
    BY InitTyped
  <1> QED
    BY <1>1, <1>2, <1>3, PTL DEF Spec, LoopInv

\* Nothing scheduled is ever lost, duplicated or run twice, whatever the user
\* code, the scheduling policy and the bounds (_step, _advance_clock).
THEOREM NothingLost == Spec => []Accounted
  BY LoopInvariant, PTL DEF LoopInv

\* No timer is ever left behind by the clock (_advance_clock).
THEOREM NoneOvertaken == Spec => []NoTimerOvertaken
  BY LoopInvariant, PTL DEF LoopInv, TimeInv

\* The trace is a history: ordered in time, and no run before its schedule or
\* its deadline.
THEOREM HistoryHolds == Spec => []TraceIsAHistory
  BY LoopInvariant, PTL DEF LoopInv, TimeInv

\* The clock only ever jumps, with nothing ready, to the earliest deadline
\* that is not cancelled.
THEOREM ClockJumps == Spec => ClockJumpsToEarliestLive
  <1>1. LoopInv /\ [Next]_vars =>
          [now' # now =>
             /\ ready = <<>>
             /\ \E t \in timers \ cancelled : deadline[t] = now'
             /\ \A t \in timers \ cancelled : now < now' /\ now' <= deadline[t]]_vars
    <2> SUFFICES ASSUME LoopInv, [Next]_vars, now' # now
                 PROVE  /\ ready = <<>>
                        /\ \E t \in timers \ cancelled : deadline[t] = now'
                        /\ \A t \in timers \ cancelled : now < now' /\ now' <= deadline[t]
      OBVIOUS
    <2>0. timers \subseteq Ids /\ now \in Int /\ deadline \in [Ids -> Int]
      BY DEF LoopInv, TypeInv, TypeOK, QueueTypes, HandleTypes
    <2>1. Advances
      <3>1. QueueStep
        BY StepsAreQueueSteps DEF LoopInv
      <3> QED
        BY <3>1 DEF QueueStep, Same, QueuesNew, TimesNew, Draws, Discards, Readies
    <2>2. PICK t \in timers : /\ IsHead(t) /\ t \notin cancelled /\ ready = <<>>
                              /\ now' = IF deadline[t] > now THEN deadline[t] ELSE now
      BY <2>1 DEF Advances
    <2>3. now' = deadline[t] /\ now < now'
      BY <2>0, <2>2
    <2>4. \A u \in timers : deadline[t] <= deadline[u]
      BY <2>0, <2>2 DEF IsHead, Before
    <2> QED
      BY <2>2, <2>3, <2>4
  <1> QED
    BY <1>1, LoopInvariant, PTL DEF Spec, ClockJumpsToEarliestLive

-----------------------------------------------------------------------------
(***************************************************************************)
(* Failures: a run that reports success hides none.  What carries it is    *)
(* that a failure, once raised, stays visible: it is reported, or it waits *)
(* in a task not yet collected, and a run's end looks at both.             *)
(***************************************************************************)
\* The handlers that neither swallow a failure nor exit over it.
Loud == handler \in {"none", "broken"}

FailuresHeld ==
    Loud /\ unhandled = 0 /\ orphans = 0 => raised = 0

NoOutcomeYet == Running => outcome = "none"

OutcomeInv == FailuresHeld /\ NoOutcomeYet /\ SuccessIsHonest

\* A failure that is not swallowed leaves an entry in _unhandled.
LEMMA ReportedWhenLoud == Loud => Reported \in {1, 2}
  BY DEF Loud, Reported

\* An empty _unhandled after the forced collection means there was nothing to
\* collect either.
LEMMA CollectedFacts ==
    TypeOK => /\ Collected \in Nat
              /\ Loud /\ Collected = 0 => unhandled = 0 /\ orphans = 0
  <1> SUFFICES ASSUME TypeOK
               PROVE  /\ Collected \in Nat
                      /\ Loud /\ Collected = 0 => unhandled = 0 /\ orphans = 0
    OBVIOUS
  <1>1. unhandled \in Nat /\ orphans \in Nat
    BY DEF TypeOK, FailTypes
  <1>2. CASE ~Loud
    <2>1. Reported = 0
      BY <1>2 DEF Reported, Loud, TypeOK, FailTypes
    <2> QED
      BY <1>1, <1>2, <2>1 DEF Collected
  <1>3. CASE Loud
    <2>1. Reported = 1 \/ Reported = 2
      BY <1>3, ReportedWhenLoud
    <2> QED
      BY <1>1, <2>1 DEF Collected
  <1> QED
    BY <1>2, <1>3

\* The steps that report or hold a failure, and the ends of a run, keep the
\* invariant; every other step of a running loop leaves it alone.
LEMMA OutcomeStep == TypeInv /\ OutcomeInv /\ [Next]_vars => OutcomeInv'
  <1> SUFFICES ASSUME TypeInv, OutcomeInv, [Next]_vars PROVE OutcomeInv'
    OBVIOUS
  <1>0. unhandled \in Nat /\ orphans \in Nat /\ raised \in Nat
    BY DEF TypeInv, TypeOK, FailTypes
  <1>r. Reported \in Nat /\ (Loud => Reported \in {1, 2})
    BY ReportedNat, ReportedWhenLoud DEF TypeInv
  <1>c. Collected \in Nat /\ (Loud /\ Collected = 0 => unhandled = 0 /\ orphans = 0)
    BY CollectedFacts DEF TypeInv
  <1> USE DEF OutcomeInv, FailuresHeld, NoOutcomeYet, SuccessIsHonest, Loud, Running
  <1>1. ASSUME UNCHANGED <<failVars, fut, outcome>>, pc' = pc PROVE OutcomeInv'
    BY <1>1 DEF failVars
  <1>2. CASE Schedule
    <2>1. UNCHANGED <<failVars, fut, outcome>> /\ pc' = pc
      BY <1>2 DEF Schedule, CallSoon, CallLater, CallAt, CallAtTrue, runVars
    <2> QED
      BY <1>1, <2>1
  <1>3. CASE \/ \E s \in Ids : CancelHandle(s)
             \/ \E h \in Machines, o \in Offsets : SetClock(h, o)
             \/ Stop \/ Close
    <2>1. UNCHANGED <<failVars, fut, outcome>> /\ pc' = pc
      BY <1>3 DEF CancelHandle, SetClock, Stop, Close, runVars
    <2> QED
      BY <1>1, <2>1
  <1>4. CASE \E state \in {"done", "failed", "cancelled"} : Complete(state)
    <2>1. pc = "callback" /\ pc' = pc /\ UNCHANGED <<failVars, outcome>>
      BY <1>4 DEF Complete
    <2> QED
      BY <2>1 DEF failVars
  <1>5. CASE OrphanFails
    <2>1. /\ pc = "callback" /\ pc' = pc /\ UNCHANGED <<outcome, unhandled, handler>>
          /\ orphans' = orphans + 1
      BY <1>5 DEF OrphanFails, runVars
    <2>2. orphans' # 0
      BY <1>0, <2>1
    <2> QED
      BY <2>1, <2>2
  <1>6. CASE CollectOrphan
    <2>1. /\ pc' = pc /\ UNCHANGED <<outcome, raised, handler, fut>>
          /\ unhandled' = unhandled + Reported
      BY <1>6 DEF CollectOrphan, runVars
    <2>2. Loud => unhandled' # 0
      BY <1>0, <1>r, <2>1
    <2> QED
      BY <2>1, <2>2
  <1>7. CASE Return
    BY <1>7 DEF Return, failVars, runVars
  <1>8. CASE Raise
    <2>1. /\ pc = "callback" /\ UNCHANGED <<orphans, handler>>
          /\ (pc' = "loop" /\ outcome' = outcome) \/ (pc' = "idle" /\ outcome' = "interrupted")
          /\ unhandled' = unhandled + Reported
      BY <1>8 DEF Raise, HandlerReturns, HandlerExits, Unwind
    <2>2. Loud => unhandled' # 0
      BY <1>0, <1>r, <2>1
    <2> QED
      BY <2>1, <2>2
  <1>9. CASE Interrupt
    BY <1>9 DEF Interrupt, Unwind, failVars
  <1>10. CASE \E i \in DOMAIN ready : Step(i)
    BY <1>10 DEF Step, KeepGoing, failVars
  <1>11. CASE \E t \in timers : DiscardCancelledHead(t)
    <2> PICK t \in timers : DiscardCancelledHead(t)
      BY <1>11
    <2>1. pc = "loop" /\ UNCHANGED <<failVars, fut>>
      BY DEF DiscardCancelledHead
    <2>2. (pc' = "idle" /\ outcome' = "deadlock") \/ (pc' = pc /\ outcome' = outcome)
      BY DEF DiscardCancelledHead, Unwind
    <2> QED
      BY <2>1, <2>2 DEF failVars
  <1>12. CASE \E t \in timers : AdvanceClock(t)
    BY <1>12 DEF AdvanceClock, failVars, runVars
  <1>13. CASE \E t \in timers : PopDue(t)
    <2>1. UNCHANGED <<failVars, fut, outcome>> /\ pc' = pc
      BY <1>13 DEF PopDue, runVars
    <2> QED
      BY <1>1, <2>1
  <1>14. CASE StopForever
    BY <1>14 DEF StopForever, failVars
  <1>15. CASE FinishRun
    <2>1. /\ FutDone /\ pc' = "idle" /\ orphans' = 0 /\ unhandled' = Collected
          /\ outcome' = IF fut # "done" THEN "error"
                        ELSE IF Collected # 0 THEN "unhandled" ELSE "result"
          /\ UNCHANGED <<raised, handler, fut>>
      BY <1>15 DEF FinishRun
    <2>2. FailuresHeld'
      BY <1>c, <2>1
    <2>3. outcome' = "result" => fut = "done" /\ Collected = 0
      BY <2>1
    <2>4. SuccessIsHonest'
      BY <1>c, <2>1, <2>3
    <2> QED
      BY <2>1, <2>2, <2>4
  <1>16. CASE CancelStalled
    <2>1. pc = "loop" /\ pc' = pc /\ UNCHANGED <<failVars, outcome>>
      BY <1>16 DEF CancelStalled, ForeverEnds
    <2> QED
      BY <2>1 DEF failVars
  <1>17. CASE ReportStall
    <2>1. /\ pc' = "idle" /\ orphans' = 0 /\ unhandled' = Collected
          /\ outcome' # "result" /\ UNCHANGED <<raised, handler>>
      BY <1>17 DEF ReportStall
    <2>2. FailuresHeld'
      BY <1>c, <2>1
    <2> QED
      BY <2>1, <2>2
  <1>18. CASE RunForever
    BY <1>18 DEF RunForever, failVars
  <1>19. CASE \E kind \in Futures : RunUntilComplete(kind)
    <2>1. outcome' = "none" /\ UNCHANGED failVars
      BY <1>19 DEF RunUntilComplete
    <2> QED
      BY <2>1 DEF failVars
  <1>20. CASE UNCHANGED vars
    BY <1>1, <1>20 DEF vars, runVars
  <1> QED
    BY <1>2, <1>3, <1>4, <1>5, <1>6, <1>7, <1>8, <1>9, <1>10, <1>11, <1>12, <1>13,
       <1>14, <1>15, <1>16, <1>17, <1>18, <1>19, <1>20 DEF Next, LoopStep

\* A run that reports success hides nothing, whatever fails, whenever the
\* collector runs and however the user's handler behaves
\* (run_until_complete, default_exception_handler).
THEOREM SuccessHonest == Spec => []SuccessIsHonest
  <1>1. Init => OutcomeInv
    BY DEF Init, OutcomeInv, FailuresHeld, NoOutcomeYet, SuccessIsHonest, Running
  <1>2. LoopInv => TypeInv
    BY DEF LoopInv
  <1>3. OutcomeInv => SuccessIsHonest
    BY DEF OutcomeInv
  <1> QED
    BY <1>1, <1>2, <1>3, OutcomeStep, LoopInvariant, PTL DEF Spec

\* run_until_complete gives up only on a future that was cancelled to its end,
\* or that ignored the cancellation and left nothing that could run.
THEOREM StallDrained == Spec => StallIsDrained
  <1>1. [Next]_vars =>
          [pc # "idle" /\ pc' = "idle" /\ outcome' \in {"stalled", "unhandled"}
             => FutDone \/ (ready = <<>> /\ timers = {})]_vars
    <2> SUFFICES ASSUME [Next]_vars, pc # "idle", pc' = "idle",
                        outcome' \in {"stalled", "unhandled"}
                 PROVE  FutDone \/ (ready = <<>> /\ timers = {})
      OBVIOUS
    <2>1. CASE FinishRun
      BY <2>1 DEF FinishRun
    <2>2. CASE ReportStall
      BY <2>2 DEF ReportStall, Work
    <2>3. CASE StopForever \/ Interrupt
      BY <2>3 DEF StopForever, Interrupt, Unwind
    <2>4. CASE \E t \in timers : DiscardCancelledHead(t)
      BY <2>4 DEF DiscardCancelledHead, Unwind
    <2>5. CASE \/ \E i \in DOMAIN ready : Step(i)
               \/ \E t \in timers : AdvanceClock(t)
               \/ \E t \in timers : PopDue(t)
               \/ CancelStalled
      BY <2>5 DEF Step, AdvanceClock, PopDue, CancelStalled
    <2>6. CASE Schedule
      BY <2>6 DEF Schedule, CallSoon, CallLater, CallAt, CallAtTrue
    <2>7. CASE \/ \E s \in Ids : CancelHandle(s)
               \/ \E h \in Machines, o \in Offsets : SetClock(h, o)
               \/ Stop \/ OrphanFails \/ CollectOrphan \/ Return \/ Raise
      BY <2>7 DEF CancelHandle, SetClock, Stop, OrphanFails, CollectOrphan, Return, Raise,
         HandlerReturns, HandlerExits
    <2>8. CASE \E state \in {"done", "failed", "cancelled"} : Complete(state)
      BY <2>8 DEF Complete
    <2>9. CASE RunForever \/ Close \/ \E kind \in Futures : RunUntilComplete(kind)
      BY <2>9 DEF RunForever, Close, RunUntilComplete
    <2>10. CASE UNCHANGED vars
      BY <2>10 DEF vars
    <2> QED
      BY <2>1, <2>2, <2>3, <2>4, <2>5, <2>6, <2>7, <2>8, <2>9, <2>10 DEF Next, LoopStep
  <1> QED
    BY <1>1, PTL DEF Spec, StallIsDrained

-----------------------------------------------------------------------------
(***************************************************************************)
(* Clocks: what a handle shows is its true deadline on the clock of the    *)
(* machine that asked for it, for as long as that clock is not set anew,   *)
(* and a handle that runs is due.                                          *)
(***************************************************************************)
ShownOnMakersClock == \A s \in Ids : s < nextSeq /\ s \notin restated =>
    shown[s] = deadline[s] + offset[maker[s]]

RunningIsDue == pc = "callback" => current < nextSeq /\ deadline[current] <= now

ClockInv == ShownOnMakersClock /\ RunningIsDue

\* What a step does to the handle tables and the offsets.
KeepsHandles == UNCHANGED <<heapVars, clockVars>>

MakesHandle == \E h \in Hosts, w \in Int :
    NewHandle(h, w, w + offset[here]) /\ nextSeq < MaxSeq /\ UNCHANGED clockVars

SetsClock == \E h \in Hosts, o \in Int :
    /\ offset' = [offset EXCEPT ![h] = o]
    /\ restated' = restated \cup {s \in Ids : s < nextSeq /\ maker[s] = h}
    /\ UNCHANGED heapVars

\* A callback starts with a handle drawn from the ready queue, or goes on.
StartsReady ==
    /\ pc' = "callback" => now' = now
    /\ pc' = "callback" => \/ pc = "callback" /\ current' = current
                           \/ \E i \in DOMAIN ready : current' = ready[i]

\* call_soon shows the time it was called at on its caller's clock.
LEMMA EnqueueMakes ==
    ASSUME TypeInv, nextSeq < MaxSeq, NEW h \in Hosts, Enqueue(h), UNCHANGED clockVars
    PROVE  MakesHandle
  <1>1. now \in Int
    BY DEF TypeInv, TypeOK, QueueTypes
  <1>2. NewHandle(h, now, now + offset[here])
    BY DEF Enqueue, Reading
  <1> QED
    BY <1>1, <1>2 DEF MakesHandle

\* Every action does one of the three things to the handle tables, and starts
\* no callback but a ready one.
LEMMA StepsKeepClocks ==
    TypeInv /\ [Next]_vars => (KeepsHandles \/ MakesHandle \/ SetsClock) /\ StartsReady
  <1> SUFFICES ASSUME TypeInv, [Next]_vars
               PROVE  (KeepsHandles \/ MakesHandle \/ SetsClock) /\ StartsReady
    OBVIOUS
  <1> USE SimLoopAssumption
  <1>here. here \in Hosts
    BY DEF TypeInv, TypeOK, RunTypes, Machines
  <1>types. now \in Int /\ offset \in [Hosts -> Int] /\ nextSeq \in 0 .. MaxSeq
    BY DEF TypeInv, TypeOK, QueueTypes, ClockTypes, HandleTypes
  <1>1. CASE \E h \in Machines : CallSoon(h)
    <2> PICK h \in Machines : CallSoon(h)
      BY <1>1
    <2>1. nextSeq < MaxSeq /\ Enqueue(h) /\ UNCHANGED clockVars
      BY <1>types DEF CallSoon, RoomForUser
    <2>2. StartsReady
      BY DEF CallSoon, runningVars, StartsReady
    <2> QED
      BY <2>1, <2>2, EnqueueMakes DEF Machines
  <1>2. ASSUME NEW h \in Hosts, NEW w \in Int, NEW d \in Int, d = w + offset[here],
               CallAtTrue(h, w, d)
        PROVE  MakesHandle /\ StartsReady
    <2>1. nextSeq < MaxSeq /\ NewHandle(h, w, w + offset[here]) /\ UNCHANGED clockVars
      BY <1>2, <1>types DEF CallAtTrue, RoomForUser
    <2>2. StartsReady
      BY <1>2 DEF CallAtTrue, runningVars, StartsReady
    <2> QED
      BY <1>here, <2>1, <2>2 DEF MakesHandle
  <1>3. CASE Schedule
    <2>1. CASE \E h \in Hosts, d \in Delays : CallLater(h, d)
      <3> PICK h \in Hosts, d \in Delays : CallLater(h, d)
        BY <2>1
      <3>1. now + d \in Int /\ now + d + offset[here] = (now + d) + offset[here]
            /\ now + d + offset[here] \in Int
        BY <1>here, <1>types
      <3> QED
        BY <1>2, <3>1 DEF CallLater
    <2>2. CASE \E h \in Machines, w \in Deadlines : CallAt(h, w)
      <3> PICK h \in Machines, w \in Deadlines : CallAt(h, w)
        BY <2>2
      <3>1. w \in Int /\ w - offset[here] \in Int /\ w = (w - offset[here]) + offset[here]
        BY <1>here, <1>types
      <3> QED
        BY <1>2, <3>1 DEF CallAt, Machines
    <2> QED
      BY <1>1, <1>3, <2>1, <2>2 DEF Schedule
  <1>4. CASE \E h \in Machines, o \in Offsets : SetClock(h, o)
    <2> PICK h \in Machines, o \in Offsets : SetClock(h, o)
      BY <1>4
    <2> QED
      BY DEF SetClock, SetsClock, Machines, runningVars, StartsReady
  <1>5. CASE \/ \E s \in Ids : CancelHandle(s)
             \/ Stop \/ Close \/ OrphanFails \/ CollectOrphan
    BY <1>5 DEF CancelHandle, Stop, Close, OrphanFails, CollectOrphan, KeepsHandles,
       runningVars, StartsReady
  <1>6. CASE Return \/ Raise \/ Interrupt \/ RunForever
    BY <1>6 DEF Return, Raise, Interrupt, RunForever, HandlerReturns, HandlerExits, Unwind,
       KeepsHandles, StartsReady
  <1>7. CASE \E state \in {"done", "failed", "cancelled"} : Complete(state)
    <2> PICK state \in {"done", "failed", "cancelled"} : Complete(state)
      BY <1>7
    <2>1. /\ pc = "callback" /\ fut = "pending" /\ pc' = pc
          /\ UNCHANGED <<now, current, clockVars>>
      BY DEF Complete, runningVars
    <2>2. CASE watched
      <3>1. Enqueue(Driver)
        BY <2>2, Zenon DEF Complete
      <3>2. nextSeq < MaxSeq
        BY <2>1, <2>2, Zenon DEF TypeInv, RunPhases, Running
      <3>3. MakesHandle
        BY <2>1, <3>1, <3>2, EnqueueMakes
      <3> QED
        BY <2>1, <3>3 DEF StartsReady
    <2>3. CASE ~watched
      <3>1. UNCHANGED heapVars
        BY <2>3, Zenon DEF Complete
      <3> QED
        BY <2>1, <3>1 DEF KeepsHandles, StartsReady
    <2> QED
      BY <2>2, <2>3
  <1>8. CASE \E kind \in Futures : RunUntilComplete(kind)
    <2> PICK kind \in Futures : RunUntilComplete(kind)
      BY <1>8
    <2>1. pc' = "loop" /\ UNCHANGED clockVars /\ nextSeq < MaxSeq
      BY <1>types DEF RunUntilComplete, RoomForUser
    <2>2. CASE kind = "future"
      BY <2>1, <2>2 DEF RunUntilComplete, KeepsHandles, StartsReady
    <2>3. CASE kind # "future"
      <3>1. Enqueue(Driver)
        BY <2>3 DEF RunUntilComplete
      <3> QED
        BY <2>1, <3>1, EnqueueMakes DEF StartsReady
    <2> QED
      BY <2>2, <2>3
  <1>9. CASE CancelStalled
    <2>1. pc = "loop" /\ pc' = pc /\ UNCHANGED clockVars
      BY <1>9 DEF CancelStalled, ForeverEnds
    <2>2. nextSeq < MaxSeq
      BY <1>9 DEF CancelStalled, ForeverEnds, TypeInv, RunPhases, Running
    <2>3. CASE WakesToCancel
      <3>1. MakesHandle
        BY <2>1, <2>2, <2>3, EnqueueMakes DEF WakesToCancel
      <3> QED
        BY <2>1, <3>1 DEF StartsReady
    <2>4. CASE UNCHANGED <<heapVars, trace, ready, tasks>>
      BY <2>1, <2>4 DEF KeepsHandles, StartsReady
    <2> QED
      BY <1>9, <2>3, <2>4 DEF CancelStalled, RidesAlong
  <1>10. CASE \E i \in DOMAIN ready : Step(i)
    <2> PICK i \in DOMAIN ready : Step(i)
      BY <1>10
    <2>1. UNCHANGED <<now, heapVars, clockVars>> /\ (pc' = "callback" => current' = ready[i])
      BY DEF Step
    <2> QED
      BY <2>1 DEF KeepsHandles, StartsReady
  <1>11. CASE \E t \in timers : DiscardCancelledHead(t)
    <2> PICK t \in timers : DiscardCancelledHead(t)
      BY <1>11
    <2>1. pc = "loop" /\ UNCHANGED <<heapVars, clockVars>> /\ pc' # "callback"
      BY DEF DiscardCancelledHead, Unwind
    <2> QED
      BY <2>1 DEF KeepsHandles, StartsReady
  <1>12. CASE (\E t \in timers : AdvanceClock(t)) \/ \E t \in timers : PopDue(t)
    BY <1>12 DEF AdvanceClock, PopDue, runningVars, KeepsHandles, StartsReady
  <1>13. CASE StopForever \/ FinishRun \/ ReportStall
    BY <1>13 DEF StopForever, FinishRun, ReportStall, KeepsHandles, StartsReady
  <1>14. CASE UNCHANGED vars
    BY <1>14 DEF vars, runningVars, KeepsHandles, StartsReady
  <1> QED
    BY <1>3, <1>4, <1>5, <1>6, <1>7, <1>8, <1>9, <1>10, <1>11, <1>12, <1>13, <1>14
       DEF Next, LoopStep

\* A step keeps what every handle shows in line with its deadline, and readies
\* for its callback only a handle that is due.
LEMMA ClockStep == LoopInv /\ ClockInv /\ [Next]_vars => ClockInv'
  <1> SUFFICES ASSUME LoopInv, ClockInv, [Next]_vars PROVE ClockInv'
    OBVIOUS
  <1> USE SimLoopAssumption
  <1>0. /\ deadline \in [Ids -> Int] /\ shown \in [Ids -> Int] /\ maker \in [Ids -> Hosts]
        /\ nextSeq \in 0 .. MaxSeq /\ offset \in [Hosts -> Int] /\ restated \subseteq Ids
        /\ here \in Hosts /\ ready \in Seq(Ids) /\ Ids = 0 .. MaxSeq - 1 /\ now \in Int
    BY DEF LoopInv, TypeInv, TypeOK, QueueTypes, HandleTypes, ClockTypes, RunTypes,
       Machines, Ids
  <1>1. (KeepsHandles \/ MakesHandle \/ SetsClock) /\ StartsReady
    BY StepsKeepClocks DEF LoopInv
  <1>2. /\ nextSeq' \in Nat /\ nextSeq <= nextSeq'
        /\ \A s \in Ids : s < nextSeq => deadline'[s] = deadline[s]
    <2>1. CASE KeepsHandles \/ SetsClock
      BY <1>0, <2>1 DEF KeepsHandles, SetsClock, heapVars
    <2>2. CASE MakesHandle
      BY <1>0, <2>2 DEF MakesHandle, NewHandle
    <2> QED
      BY <1>1, <2>1, <2>2
  <1>3. \A s \in Entries(ready) : s \in Ids /\ s < nextSeq /\ deadline[s] <= now
    <2>1. Entries(ready) \subseteq Ids
      BY <1>0 DEF Entries
    <2> QED
      BY <2>1 DEF LoopInv, Accounted, TimeInv, ReadyIsDue
  <1>4. RunningIsDue'
    <2> SUFFICES ASSUME pc' = "callback"
                 PROVE  current' < nextSeq' /\ deadline'[current'] <= now'
      BY DEF RunningIsDue
    <2>1. now' = now
      BY <1>1 DEF StartsReady
    <2>2. current' \in Ids /\ current' < nextSeq /\ deadline[current'] <= now
      <3>1. CASE pc = "callback" /\ current' = current
        <4>1. current \in Ids
          BY <3>1 DEF LoopInv, TypeInv, TypeOK, RunTypes
        <4> QED
          BY <3>1, <4>1 DEF ClockInv, RunningIsDue
      <3>2. CASE \E i \in DOMAIN ready : current' = ready[i]
        <4>1. current' \in Entries(ready)
          BY <3>2 DEF Entries
        <4> QED
          BY <1>3, <4>1
      <3> QED
        BY <1>1, <3>1, <3>2 DEF StartsReady
    <2> QED
      BY <1>0, <1>2, <2>1, <2>2
  <1>5. ShownOnMakersClock'
    <2>1. CASE KeepsHandles
      BY <2>1 DEF KeepsHandles, heapVars, clockVars, ClockInv, ShownOnMakersClock
    <2>2. CASE MakesHandle
      <3> PICK h \in Hosts, w \in Int :
            /\ NewHandle(h, w, w + offset[here]) /\ nextSeq < MaxSeq
            /\ UNCHANGED clockVars
        BY <2>2 DEF MakesHandle
      <3>1. /\ nextSeq' = nextSeq + 1 /\ nextSeq \in Ids
            /\ maker' = [maker EXCEPT ![nextSeq] = here]
            /\ deadline' = [deadline EXCEPT ![nextSeq] = w]
            /\ shown' = [shown EXCEPT ![nextSeq] = w + offset[here]]
            /\ offset' = offset /\ restated' = restated
        BY <1>0 DEF NewHandle, clockVars
      <3> SUFFICES ASSUME NEW s \in Ids, s < nextSeq', s \notin restated'
                   PROVE  shown'[s] = deadline'[s] + offset'[maker'[s]]
        BY DEF ShownOnMakersClock
      <3>2. CASE s = nextSeq
        BY <1>0, <3>1, <3>2
      <3>3. CASE s # nextSeq
        <4>1. s < nextSeq
          BY <1>0, <3>1, <3>3
        <4>2. shown[s] = deadline[s] + offset[maker[s]]
          BY <3>1, <4>1 DEF ClockInv, ShownOnMakersClock
        <4> QED
          BY <1>0, <3>1, <3>3, <4>2
      <3> QED
        BY <3>2, <3>3
    <2>3. CASE SetsClock
      <3> PICK h \in Hosts, o \in Int :
            /\ offset' = [offset EXCEPT ![h] = o]
            /\ restated' = restated \cup {s \in Ids : s < nextSeq /\ maker[s] = h}
            /\ UNCHANGED heapVars
        BY <2>3 DEF SetsClock
      <3> SUFFICES ASSUME NEW s \in Ids, s < nextSeq', s \notin restated'
                   PROVE  shown'[s] = deadline'[s] + offset'[maker'[s]]
        BY DEF ShownOnMakersClock
      <3>1. UNCHANGED <<deadline, shown, maker, nextSeq>>
        BY DEF heapVars
      <3>2. maker[s] # h /\ s \notin restated /\ s < nextSeq
        BY <3>1
      <3>3. shown[s] = deadline[s] + offset[maker[s]]
        BY <3>2 DEF ClockInv, ShownOnMakersClock
      <3>4. offset'[maker[s]] = offset[maker[s]]
        BY <1>0, <3>2
      <3> QED
        BY <3>1, <3>3, <3>4
    <2> QED
      BY <1>1, <2>1, <2>2, <2>3
  <1> QED
    BY <1>4, <1>5 DEF ClockInv

\* A timer keeps its word: no callback runs before the clock of the machine
\* that asked for it has reached the deadline its handle shows, whatever context
\* the callback runs in, unless that clock was set anew after the timer was made
\* (call_later, call_at, and the network's own deliveries).
THEOREM WhenHolds == Spec => []WhenHasCome
  <1>1. Init => ClockInv
    BY DEF Init, ClockInv, ShownOnMakersClock, RunningIsDue, Ids
  <1>2. LoopInv /\ ClockInv => WhenHasCome
    <2> SUFFICES ASSUME LoopInv, ClockInv, pc = "callback", current \notin restated
                 PROVE  Reading(maker[current]) >= shown[current]
      BY DEF WhenHasCome
    <2>1. /\ current \in Ids /\ now \in Int /\ deadline \in [Ids -> Int]
          /\ offset \in [Hosts -> Int] /\ maker \in [Ids -> Hosts]
      BY DEF LoopInv, TypeInv, TypeOK, RunTypes, QueueTypes, HandleTypes, ClockTypes
    <2>2. current < nextSeq /\ deadline[current] <= now
      BY DEF ClockInv, RunningIsDue
    <2>3. shown[current] = deadline[current] + offset[maker[current]]
      BY <2>1, <2>2 DEF ClockInv, ShownOnMakersClock
    <2> QED
      BY <2>1, <2>2, <2>3 DEF Reading
  <1> QED
    BY <1>1, <1>2, ClockStep, LoopInvariant, PTL DEF Spec

=============================================================================
