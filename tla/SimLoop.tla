------------------------------ MODULE SimLoop ------------------------------
(***************************************************************************)
(* The scheduling core of simloop (src/src/simloop/_loop.py): a ready      *)
(* queue, a timer heap and a virtual clock, driven by run_forever and      *)
(* run_until_complete.                                                     *)
(*                                                                         *)
(* Everything happens in one thread, so the interleavings are the ones     *)
(* the scheduling policy and the user's callbacks choose: a step of the    *)
(* loop draws one ready entry and runs its callback, and until that        *)
(* callback returns it may schedule, cancel, stop the loop, finish the     *)
(* awaited future or leave a failed task behind.  User code also runs      *)
(* between runs, when the loop is idle.                                    *)
(*                                                                         *)
(* A handle is named by its seq.  Each loop iteration of _advance_clock    *)
(* is an action of its own; nothing but the next iteration can follow it.  *)
(***************************************************************************)
EXTENDS Integers, Sequences, FiniteSets

CONSTANTS
    Hosts,        \* simulated machines a handle's context can be pinned to
    Driver,       \* the implicit host of code outside any machine
    Wire,         \* the host of the network's own delivery steps, no machine
    Delays,       \* delays user code passes to call_later
    Deadlines,    \* clock readings user code passes to call_at
    Offsets,      \* clock offsets user code passes to set_clock
    Handlers,     \* which user exception handlers are installed
    Futures,      \* what run_until_complete is given: a coroutine ("task"), a
                  \* pending "future", or one that is already "done"
    MaxSeq,       \* bound: handles created in one behaviour
    MaxRuns,      \* bound: runs started in one behaviour
    MaxFailures,  \* bound: failures raised in one behaviour
    MaxClocks     \* bound: set_clock calls in one behaviour

ASSUME SimLoopAssumption ==
    /\ Driver \in Hosts /\ Wire \in Hosts /\ Driver # Wire
    /\ Delays \subseteq Int /\ Deadlines \subseteq Int /\ Offsets \subseteq Int
    /\ Handlers \subseteq {"none", "quiet", "broken", "exiting"}
    /\ Futures \subseteq {"task", "future", "done"}
    /\ MaxSeq \in Nat /\ MaxRuns \in Nat /\ MaxFailures \in Nat /\ MaxClocks \in Nat

Ids   == 0 .. MaxSeq - 1
NoId  == -1
Machines == Hosts \ {Wire}     \* set_clock and user code know only these

EventKinds == {"schedule", "run", "advance", "cancel"}
Events     == [kind : EventKinds, when : Int, seq : Ids \cup {NoId}]
Outcomes   == {"none", "stopped", "result", "error", "unhandled", "deadlock",
               "stalled", "interrupted"}

VARIABLES
    pc,         \* "idle", "loop" (top of the while loop), "due" (inside
                \* _advance_clock, clock moved), "callback" (handle._run)
    now,        \* _now, the true virtual clock
    ready,      \* _ready, a sequence of seqs
    timers,     \* _timers, the heap as a set; its order is (deadline, seq)
    deadline,   \* true time of each handle; a call_soon is due when queued
    shown,      \* TimerHandle.when(), on the scheduling host's clock
    host,       \* the host each handle's context is pinned to
    maker,      \* the host its schedule event names: who asked for it
    cancelled,  \* handles whose cancel() was called
    nextSeq,    \* _next_seq
    trace,      \* _recorder._events
    choiceLog,  \* _choice_log
    stopping,   \* _stopping
    closed,     \* _closed
    current,    \* the handle whose callback is running
    here,       \* _current_host: the host user code is running as
    fut,        \* state of the awaited future
    first,      \* seq of the awaited task's first step; NoId for a bare future
    watched,    \* _stop_when_done is among the future's done callbacks
    draining,   \* run_until_complete is in its drain loop
    stopCbs,    \* handles that run _stop_when_done
    tasks,      \* handles that step the awaited task; only asyncio holds them
    unhandled,  \* how many failures _unhandled holds
    orphans,    \* failed tasks the collector has not finalized yet
    raised,     \* history: failures raised by user code so far
    handler,    \* _exception_handler: none, one that returns, one that raises,
                \* one that raises SystemExit or KeyboardInterrupt
    offset,     \* _clock_offsets
    clocksSet,  \* set_clock calls so far
    restated,   \* history: handles whose maker's offset changed since
    runs,       \* runs started so far
    outcome     \* how the last run ended

clockVars == <<offset, clocksSet, restated>>
heapVars  == <<deadline, shown, host, maker, nextSeq>>
runningVars == <<current, here>>
failVars  == <<unhandled, orphans, raised, handler>>
runVars   == <<stopping, closed, fut, first, watched, draining, runs, outcome>>
vars == <<pc, now, ready, timers, heapVars, cancelled, trace, choiceLog, runningVars,
          stopCbs, tasks, failVars, clockVars, runVars>>

-----------------------------------------------------------------------------
\* Helpers

Event(kind, when, seq) == [kind |-> kind, when |-> when, seq |-> seq]
Entries(q)   == {q[i] : i \in DOMAIN q}
PopsFront(q, i) == Tail(q)                   \* slip: pop(0), not pop(index)
RemoveAt(q, i) == [j \in 1 .. Len(q) - 1 |-> IF j < i THEN q[j] ELSE q[j + 1]]
FutDone      == fut \in {"done", "failed", "cancelled"}
Running      == pc # "idle"
Leave        == current' = NoId /\ here' = Driver
UserCode     == pc \in {"idle", "callback"} /\ ~closed
Reading(h)   == now + offset[h]

\* The heap compares (when, seq) tuples; nothing after seq is ever compared.
Before(s, t) == deadline[s] < deadline[t] \/ (deadline[s] = deadline[t] /\ s <= t)
IsHead(t)    == t \in timers /\ \A u \in timers : Before(t, u)

\* Entries one failure adds to _unhandled: call_exception_handler hands it to
\* default_exception_handler, or to the user's handler, and to the former too,
\* with the handler's own error, when the user's handler raises.  A handler
\* that exits adds none: what it raises leaves call_exception_handler.
Reported ==
    CASE handler = "none"   -> 1
      [] handler \in {"quiet", "exiting"} -> 0
      [] handler = "broken" -> 2

-----------------------------------------------------------------------------
\* Scheduling, from user code

\* One new handle: its seq, its context's host, who asked for it, its two
\* deadlines, its event.
NewHandle(h, when, display) ==
    /\ nextSeq' = nextSeq + 1
    /\ host'     = [host EXCEPT ![nextSeq] = h]
    /\ maker'    = [maker EXCEPT ![nextSeq] = here]
    /\ deadline' = [deadline EXCEPT ![nextSeq] = when]
    /\ shown'    = [shown EXCEPT ![nextSeq] = display]
    /\ trace'    = Append(trace, Event("schedule", now, nextSeq))

\* One seq is always left for the handle asyncio needs to end a pending run.
RoomForUser == nextSeq + 1 < MaxSeq

\* call_soon's own work, from user code or from inside asyncio.
Enqueue(h) ==
    /\ NewHandle(h, now, Reading(here))
    /\ ready' = Append(ready, nextSeq)

CallSoon(h) ==
    /\ UserCode /\ RoomForUser
    /\ Enqueue(h)
    /\ UNCHANGED <<pc, now, timers, cancelled, choiceLog, runningVars, stopCbs, tasks,
                   failVars, clockVars, runVars>>

\* _call_at_true: h is the host of the context= argument, or of the caller's own.
CallAtTrue(h, when, display) ==
    /\ UserCode /\ RoomForUser
    /\ NewHandle(h, when, display)
    /\ timers' = timers \cup {nextSeq}
    /\ UNCHANGED <<pc, now, ready, cancelled, choiceLog, runningVars, stopCbs, tasks,
                   failVars, clockVars, runVars>>

CallLater(h, d) == CallAtTrue(h, now + d, now + d + offset[here])

CallAtUnconverted(h, when) == CallAtTrue(h, when, when)      \* slip: offset ignored

CallAt(h, when) == CallAtTrue(h, when - offset[here], when)

CancelHandle(s) ==
    /\ UserCode
    /\ s \in (Entries(ready) \cup timers) \ (cancelled \cup stopCbs \cup tasks)
    /\ cancelled' = cancelled \cup {s}
    /\ UNCHANGED <<pc, now, ready, timers, heapVars, trace, choiceLog, runningVars,
                   stopCbs, tasks, failVars, clockVars, runVars>>

SetClock(h, o) ==
    /\ UserCode /\ clocksSet < MaxClocks
    /\ offset' = [offset EXCEPT ![h] = o]
    /\ clocksSet' = clocksSet + 1
    /\ restated' = restated \cup {s \in Ids : s < nextSeq /\ maker[s] = h}
    /\ UNCHANGED <<pc, now, ready, timers, heapVars, cancelled, trace, choiceLog,
                   runningVars, stopCbs, tasks, failVars, runVars>>

Stop ==
    /\ UserCode /\ ~stopping
    /\ stopping' = TRUE
    /\ UNCHANGED <<pc, now, ready, timers, heapVars, cancelled, trace, choiceLog,
                   runningVars, stopCbs, tasks, failVars, clockVars, closed, fut, first,
                   watched, draining, runs, outcome>>

\* The awaited future finishes.  Its done callbacks are queued with call_soon,
\* and _stop_when_done is one of them unless it was removed again.
Complete(state) ==
    /\ pc = "callback" /\ fut = "pending"
    /\ fut' = state
    /\ IF watched
       THEN /\ Enqueue(Driver)
            /\ stopCbs' = stopCbs \cup {nextSeq}
       ELSE UNCHANGED <<heapVars, trace, ready, stopCbs>>
    /\ UNCHANGED <<pc, now, timers, cancelled, choiceLog, runningVars, tasks, failVars,
                   clockVars, stopping, closed, first, watched, draining, runs,
                   outcome>>

\* A fire-and-forget task fails: nothing hears of it until it is collected.
OrphanFails ==
    /\ pc = "callback" /\ raised < MaxFailures
    /\ raised' = raised + 1
    /\ orphans' = orphans + 1
    /\ UNCHANGED <<pc, now, ready, timers, heapVars, cancelled, trace, choiceLog,
                   runningVars, stopCbs, tasks, unhandled, handler, clockVars, runVars>>

\* The cycle collector may finalize a failed task at any allocation.
CollectOrphan ==
    /\ UserCode /\ orphans > 0
    /\ orphans' = orphans - 1
    /\ unhandled' = unhandled + Reported
    /\ UNCHANGED <<pc, now, ready, timers, heapVars, cancelled, trace, choiceLog,
                   runningVars, stopCbs, tasks, raised, handler, clockVars, runVars>>

-----------------------------------------------------------------------------
\* The callback ends: normally, or by raising, which handle._run reports.

Return ==
    /\ pc = "callback"
    /\ pc' = "loop" /\ Leave
    /\ UNCHANGED <<now, ready, timers, heapVars, cancelled, trace, choiceLog,
                   stopCbs, tasks, failVars, clockVars, runVars>>

\* The finally clauses an exception passes on its way out of the loop.
Unwind ==
    /\ pc' = "idle" /\ Leave
    /\ stopping' = (draining /\ stopping)
    /\ watched' = FALSE /\ draining' = FALSE

\* SystemExit and KeyboardInterrupt pass call_exception_handler, and the loop.
HandlerExits == handler = "exiting" /\ Unwind /\ outcome' = "interrupted"
HandlerReturns ==
    /\ handler # "exiting"
    /\ pc' = "loop" /\ Leave
    /\ UNCHANGED <<outcome, stopping, watched, draining>>

Raise ==
    /\ pc = "callback" /\ raised < MaxFailures
    /\ raised' = raised + 1
    /\ unhandled' = unhandled + Reported
    /\ HandlerReturns \/ HandlerExits
    /\ UNCHANGED <<now, ready, timers, heapVars, cancelled, trace, choiceLog,
                   stopCbs, tasks, orphans, handler, clockVars, closed, fut, first,
                   runs>>

-----------------------------------------------------------------------------
\* One step of the loop

\* The two while conditions: run_forever's, and the drain's.
Work == ready # <<>> \/ timers # {}
KeepGoing ==
    /\ pc \in {"loop", "due"}
    /\ Work
    /\ IF draining THEN ~FutDone ELSE ~stopping

DueHeadStrict(t) == IsHead(t) /\ deadline[t] < now      \* slip: < for <=
DueHead(t) == IsHead(t) /\ deadline[t] <= now

\* A callback runs as its context's host; a delivery runs on the wire, and
\* _deliver pins the machine the packet is for before it hands it up.
RunsAs(s) == here' \in IF host[s] = Wire THEN Machines ELSE {host[s]}

\* _step: the policy picks an index, the entry leaves the queue, and it is
\* recorded as cancelled or as run.  _stop_when_done runs to its end here.
Step(i) ==
    /\ KeepGoing /\ ready # <<>>
    /\ pc = "due" => \A t \in timers : deadline[t] > now
    /\ i \in DOMAIN ready
    /\ choiceLog' = Append(choiceLog, i - 1)
    /\ ready' = RemoveAt(ready, i)
    /\ LET s == ready[i]
           runs_it == s \notin cancelled
       IN /\ trace' = Append(trace, Event(IF runs_it THEN "run" ELSE "cancel", now, s))
          /\ stopping' = (stopping \/ (runs_it /\ s \in stopCbs))
          /\ IF runs_it /\ s \notin stopCbs
             THEN pc' = "callback" /\ current' = s /\ RunsAs(s)
             ELSE pc' = "loop" /\ Leave
    /\ UNCHANGED <<now, timers, heapVars, cancelled, stopCbs, tasks, failVars,
                   clockVars, closed, fut, first, watched, draining, runs, outcome>>

\* A callback raises KeyboardInterrupt or SystemExit: handle._run lets it out.
Interrupt ==
    /\ pc = "callback"
    /\ Unwind /\ outcome' = "interrupted"
    /\ UNCHANGED <<now, ready, timers, heapVars, cancelled, trace, choiceLog,
                   stopCbs, tasks, failVars, clockVars, closed, fut, first, runs>>

\* _advance_clock, first loop: a cancelled timer at the head of the heap goes.
DiscardCancelledHead(t) ==
    /\ pc = "loop" /\ KeepGoing /\ ready = <<>>
    /\ IsHead(t) /\ t \in cancelled
    /\ timers' = timers \ {t}
    /\ trace' = Append(trace, Event("cancel", now, t))
    \* The last timer is gone: _advance_clock raises SimulationDeadlockError
    \* out of run_forever or out of the drain loop, through their finally
    \* clauses and past everything run_until_complete does after them.
    /\ IF timers = {t}
       THEN Unwind /\ outcome' = "deadlock"
       ELSE UNCHANGED <<pc, runningVars, outcome, stopping, watched, draining>>
    /\ UNCHANGED <<now, ready, heapVars, cancelled, choiceLog, stopCbs, tasks,
                   failVars, clockVars, closed, fut, first, runs>>

\* slip: no max(), so a deadline in the past turns the clock back.
AdvanceClockBack(t) ==
    /\ pc = "loop" /\ KeepGoing /\ ready = <<>>
    /\ IsHead(t) /\ t \notin cancelled
    /\ now' = deadline[t]
    /\ trace' = Append(trace, Event("advance", now', NoId))
    /\ pc' = "due"
    /\ UNCHANGED <<ready, timers, heapVars, cancelled, choiceLog, runningVars, stopCbs,
                   tasks, failVars, clockVars, runVars>>

\* slip: cancelled timers at the head are not skipped first.
AdvanceClockToCancelled(t) ==
    /\ pc = "loop" /\ KeepGoing /\ ready = <<>>
    /\ IsHead(t)
    /\ now' = IF deadline[t] > now THEN deadline[t] ELSE now
    /\ trace' = Append(trace, Event("advance", now', NoId))
    /\ pc' = "due"
    /\ UNCHANGED <<ready, timers, heapVars, cancelled, choiceLog, runningVars, stopCbs,
                   tasks, failVars, clockVars, runVars>>

\* _advance_clock, middle: the clock jumps to the earliest deadline.
AdvanceClock(t) ==
    /\ pc = "loop" /\ KeepGoing /\ ready = <<>>
    /\ IsHead(t) /\ t \notin cancelled
    /\ now' = IF deadline[t] > now THEN deadline[t] ELSE now
    /\ trace' = Append(trace, Event("advance", now', NoId))
    /\ pc' = "due"
    /\ UNCHANGED <<ready, timers, heapVars, cancelled, choiceLog, runningVars, stopCbs,
                   tasks, failVars, clockVars, runVars>>

\* slip: an if where the while is, so only one due timer leaves the heap.
PopOneDue(t) ==
    /\ pc = "due" /\ DueHead(t)
    /\ timers' = timers \ {t}
    /\ IF t \in cancelled
       THEN trace' = Append(trace, Event("cancel", now, t)) /\ UNCHANGED ready
       ELSE ready' = Append(ready, t) /\ UNCHANGED trace
    /\ pc' = "loop"
    /\ UNCHANGED <<now, heapVars, cancelled, choiceLog, runningVars, stopCbs, tasks,
                   failVars, clockVars, runVars>>

\* _advance_clock, second loop: every timer due at this instant leaves the heap.
PopDue(t) ==
    /\ pc = "due" /\ DueHead(t)
    /\ timers' = timers \ {t}
    /\ IF t \in cancelled
       THEN trace' = Append(trace, Event("cancel", now, t)) /\ UNCHANGED ready
       ELSE ready' = Append(ready, t) /\ UNCHANGED trace
    /\ UNCHANGED <<pc, now, heapVars, cancelled, choiceLog, runningVars, stopCbs, tasks,
                   failVars, clockVars, runVars>>

-----------------------------------------------------------------------------
\* Runs

RunForever ==
    /\ pc = "idle" /\ ~closed /\ runs < MaxRuns
    /\ runs' = runs + 1
    /\ pc' = "loop" /\ fut' = "none" /\ outcome' = "none"
    /\ UNCHANGED <<now, ready, timers, heapVars, cancelled, trace, choiceLog, runningVars,
                   stopCbs, tasks, failVars, clockVars, stopping, closed, first,
                   watched, draining>>

\* A coroutine becomes a task, which queues its first step; a future is
\* awaited as it is.  Then _stop_when_done is added, which a future already
\* done queues at once, and run_forever starts.
RunUntilComplete(kind) ==
    /\ pc = "idle" /\ ~closed /\ runs < MaxRuns /\ RoomForUser
    /\ runs' = runs + 1
    /\ first' = IF kind = "task" THEN nextSeq ELSE NoId
    /\ IF kind = "future"
       THEN UNCHANGED <<heapVars, trace, ready>>
       ELSE Enqueue(Driver)
    /\ tasks' = IF kind = "task" THEN tasks \cup {nextSeq} ELSE tasks
    /\ stopCbs' = IF kind = "done" THEN stopCbs \cup {nextSeq} ELSE stopCbs
    /\ fut' = IF kind = "done" THEN "done" ELSE "pending"
    /\ pc' = "loop" /\ watched' = TRUE /\ outcome' = "none"
    /\ UNCHANGED <<now, timers, cancelled, choiceLog, runningVars, failVars, clockVars,
                   stopping, closed, draining>>

ForeverEnds == pc = "loop" /\ ~draining /\ (stopping \/ ~Work)

\* run_forever called on its own returns.
StopForever ==
    /\ ForeverEnds /\ fut = "none"
    /\ pc' = "idle" /\ stopping' = FALSE /\ outcome' = "stopped"
    /\ UNCHANGED <<now, ready, timers, heapVars, cancelled, trace, choiceLog, runningVars,
                   stopCbs, tasks, failVars, clockVars, closed, fut, first, watched,
                   draining, runs>>

NotCollected == unhandled                           \* slip: no gc.collect()

\* Failures the forced gc.collect() leaves in _unhandled.
Collected == unhandled + orphans * Reported

\* run_until_complete, the future done: its own outcome wins, then failures.
FinishRun ==
    /\ ForeverEnds /\ FutDone
    /\ pc' = "idle" /\ stopping' = FALSE /\ watched' = FALSE
    /\ orphans' = 0 /\ unhandled' = Collected
    /\ outcome' = IF fut # "done" THEN "error"
                  ELSE IF Collected # 0 THEN "unhandled" ELSE "result"
    /\ UNCHANGED <<now, ready, timers, heapVars, cancelled, trace, choiceLog, runningVars,
                   stopCbs, tasks, raised, handler, clockVars, closed, fut, first,
                   draining, runs>>

\* run_until_complete, the future still pending: cancel it and drain.  A bare
\* future is cancelled on the spot; a waiting task is woken by its cancelled
\* waiter; a task with a step already queued takes the request along with it.
RidesAlong == ready # <<>> /\ UNCHANGED <<heapVars, trace, ready, tasks>>

WakesToCancel ==
    /\ first \notin Entries(ready)
    /\ Enqueue(Driver)
    /\ tasks' = tasks \cup {nextSeq}

CancelStalled ==
    /\ ForeverEnds /\ fut = "pending"
    /\ stopping' = FALSE /\ watched' = FALSE /\ draining' = TRUE
    /\ IF first = NoId
       THEN fut' = "cancelled" /\ UNCHANGED <<heapVars, trace, ready, tasks>>
       ELSE UNCHANGED fut /\ (RidesAlong \/ WakesToCancel)
    /\ UNCHANGED <<pc, now, timers, cancelled, choiceLog, runningVars, stopCbs, failVars,
                   clockVars, closed, first, runs, outcome>>

\* slip: the stall is reported without draining the cancelled future.
ReportStallAtOnce ==
    /\ pc = "loop" /\ draining
    /\ pc' = "idle" /\ draining' = FALSE
    /\ orphans' = 0 /\ unhandled' = Collected
    /\ outcome' = IF Collected # 0 THEN "unhandled" ELSE "stalled"
    /\ UNCHANGED <<now, ready, timers, heapVars, cancelled, trace, choiceLog, runningVars,
                   stopCbs, tasks, raised, handler, clockVars, stopping, closed, fut,
                   first, watched, runs>>

\* run_until_complete after the drain: a collected failure, or the stall.
ReportStall ==
    /\ pc = "loop" /\ draining /\ (FutDone \/ ~Work)
    /\ pc' = "idle" /\ draining' = FALSE
    /\ orphans' = 0 /\ unhandled' = Collected
    /\ outcome' = IF Collected # 0 THEN "unhandled" ELSE "stalled"
    /\ UNCHANGED <<now, ready, timers, heapVars, cancelled, trace, choiceLog, runningVars,
                   stopCbs, tasks, raised, handler, clockVars, stopping, closed, fut,
                   first, watched, runs>>

Close ==
    /\ pc = "idle" /\ ~closed
    /\ closed' = TRUE
    /\ UNCHANGED <<pc, now, ready, timers, heapVars, cancelled, trace, choiceLog,
                   runningVars, stopCbs, tasks, failVars, clockVars, stopping, fut, first,
                   watched, draining, runs, outcome>>

-----------------------------------------------------------------------------
Init ==
    /\ pc = "idle" /\ now = 0 /\ ready = <<>> /\ timers = {}
    /\ deadline = [s \in Ids |-> 0]
    /\ shown = [s \in Ids |-> 0]
    /\ host = [s \in Ids |-> Driver]
    /\ maker = [s \in Ids |-> Driver]
    /\ nextSeq = 0 /\ cancelled = {} /\ trace = <<>> /\ choiceLog = <<>>
    /\ current = NoId /\ here = Driver /\ stopCbs = {} /\ tasks = {}
    /\ unhandled = 0 /\ orphans = 0 /\ raised = 0 /\ handler \in Handlers
    /\ offset = [h \in Hosts |-> 0] /\ clocksSet = 0 /\ restated = {}
    /\ stopping = FALSE /\ closed = FALSE /\ fut = "none" /\ first = NoId
    /\ watched = FALSE /\ draining = FALSE /\ runs = 0 /\ outcome = "none"

Schedule ==
    \/ \E h \in Machines : CallSoon(h)
    \/ \E h \in Hosts, d \in Delays : CallLater(h, d)
    \/ \E h \in Machines, w \in Deadlines : CallAt(h, w)

LoopStep ==
    \/ \E i \in DOMAIN ready : Step(i)
    \/ \E t \in timers : DiscardCancelledHead(t)
    \/ \E t \in timers : AdvanceClock(t)
    \/ \E t \in timers : PopDue(t)
    \/ StopForever
    \/ FinishRun
    \/ CancelStalled
    \/ ReportStall

Next ==
    \/ Schedule
    \/ \E s \in Ids : CancelHandle(s)
    \/ \E h \in Machines, o \in Offsets : SetClock(h, o)
    \/ Stop
    \/ \E state \in {"done", "failed", "cancelled"} : Complete(state)
    \/ OrphanFails
    \/ CollectOrphan
    \/ Return
    \/ Raise
    \/ Interrupt
    \/ LoopStep
    \/ RunForever
    \/ \E kind \in Futures : RunUntilComplete(kind)
    \/ Close

Spec == Init /\ [][Next]_vars

(***************************************************************************)
(* The thread runs the loop whenever the loop can run, and a callback that *)
(* is running returns: the code under test does not block the thread.      *)
(***************************************************************************)
FairSpec == Spec /\ WF_vars(LoopStep) /\ WF_vars(Return)

-----------------------------------------------------------------------------
\* What the trace says of a handle

Dispatch == {"run", "cancel"}
Scheduled(s, when) == \E i \in DOMAIN trace : trace[i] = Event("schedule", when, s)
Dispatched(s) == \E i \in DOMAIN trace : trace[i].seq = s /\ trace[i].kind \in Dispatch

QueueTypes ==
    /\ now \in Int /\ ready \in Seq(Ids) /\ timers \subseteq Ids
    /\ cancelled \subseteq Ids /\ stopCbs \subseteq Ids /\ tasks \subseteq Ids

HandleTypes ==
    /\ deadline \in [Ids -> Int] /\ shown \in [Ids -> Int]
    /\ host \in [Ids -> Hosts] /\ maker \in [Ids -> Hosts]
    /\ nextSeq \in 0 .. MaxSeq
    /\ trace \in Seq(Events) /\ choiceLog \in Seq(Nat)

RunTypes ==
    /\ pc \in {"idle", "loop", "due", "callback"}
    /\ current \in Ids \cup {NoId} /\ first \in Ids \cup {NoId}
    /\ pc = "callback" <=> current # NoId
    /\ here \in Machines /\ (pc # "callback" => here = Driver)
    /\ fut \in {"none", "pending", "done", "failed", "cancelled"}
    /\ runs \in Nat /\ outcome \in Outcomes

FlagTypes ==
    /\ stopping \in BOOLEAN /\ closed \in BOOLEAN /\ watched \in BOOLEAN
    /\ draining \in BOOLEAN

FailTypes ==
    /\ unhandled \in Nat /\ orphans \in Nat /\ raised \in Nat
    /\ handler \in {"none", "quiet", "broken", "exiting"}

ClockTypes ==
    /\ offset \in [Hosts -> Int] /\ clocksSet \in Nat /\ restated \subseteq Ids

\* Every variable keeps its type; a callback is running exactly when the loop
\* is inside handle._run, and every seq in use is below the bound.
TypeOK ==
    /\ QueueTypes /\ HandleTypes /\ RunTypes /\ FlagTypes /\ FailTypes /\ ClockTypes

\* Nothing scheduled is lost, duplicated or run twice: every handle the loop
\* ever created waits in the ready queue, waits in the timer heap, or has been
\* dispatched, and the trace has exactly one event saying which way it went
\* (_step, _advance_clock).
Accounted ==
    /\ \A s \in Ids : s < nextSeq <=> s \in Entries(ready) \cup timers \/ Dispatched(s)
    /\ \A s \in timers : s \notin Entries(ready) /\ ~Dispatched(s)
    /\ \A i, j \in DOMAIN ready : ready[i] = ready[j] => i = j
    /\ \A s \in Entries(ready) : ~Dispatched(s)
    /\ \A i, j \in DOMAIN trace :
          /\ trace[i].kind \in Dispatch /\ trace[j].kind \in Dispatch
          /\ trace[i].seq = trace[j].seq
          => i = j

\* Time never leaves a timer behind: outside _advance_clock, a timer still in
\* the heap is due later than now, unless it was put there at this very
\* instant with a deadline that had already come.
NoTimerOvertaken ==
    pc # "due" => \A t \in timers : deadline[t] > now \/ Scheduled(t, now)

\* The trace is a history: its times never go back and never pass the clock,
\* and no handle runs before it was scheduled or before its deadline.
TraceIsAHistory ==
    /\ \A i \in DOMAIN trace : trace[i].when <= now
    /\ \A i, j \in DOMAIN trace : i < j => trace[i].when <= trace[j].when
    /\ \A i \in DOMAIN trace : trace[i].kind = "run" =>
          /\ deadline[trace[i].seq] <= trace[i].when
          /\ \E j \in 1 .. i - 1 : trace[j].seq = trace[i].seq /\ trace[j].kind = "schedule"

\* A timer keeps its word to whoever set it: when its callback runs, the clock
\* of the machine that asked for it has reached the deadline TimerHandle.when()
\* shows, whichever machine's context the callback runs in, that machine's skew
\* and anything the network schedules on a sender's behalf included, unless the
\* asker's clock was set anew after the timer was made (call_later, call_at).
WhenHasCome ==
    pc = "callback" /\ current \notin restated => Reading(maker[current]) >= shown[current]

\* The clock moves only when nothing is ready, never back, and exactly to the
\* earliest deadline that is not cancelled: a cancelled timer never costs
\* virtual time (_advance_clock).
ClockJumpsToEarliestLive ==
    [][now' # now =>
         /\ ready = <<>>
         /\ \E t \in timers \ cancelled : deadline[t] = now'
         /\ \A t \in timers \ cancelled : now < now' /\ now' <= deadline[t]]_vars

\* A run that reports success hides nothing: the awaited future has a result
\* and no callback or fire-and-forget task of this loop ever failed, unless
\* the user installed a handler that swallows failures, or exits over them.
SuccessIsHonest ==
    outcome = "result" => fut = "done" /\ (handler \in {"none", "broken"} => raised = 0)

\* When run_until_complete gives up by its own diagnosis, the awaited future
\* has been cancelled to its end, or it ignored the cancellation and nothing
\* is left that could ever run it.
StallIsDrained ==
    [][pc # "idle" /\ pc' = "idle" /\ outcome' \in {"stalled", "unhandled"}
         => FutDone \/ (ready = <<>> /\ timers = {})]_vars

\* Every run comes back to its caller: no loop iteration can be stuck between
\* the ready queue, the heap and the drain.
RunReturns == Running ~> ~Running

\* The comment at _loop.py:560: a collected failure takes precedence over the
\* deadlock diagnosis of the run it explains.
FailureOutranksDeadlock ==
    outcome \in {"deadlock", "stalled"} /\ fut # "none" => unhandled = 0 /\ orphans = 0
=============================================================================
