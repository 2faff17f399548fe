# A verification project for simloop

simloop is a deterministic simulator for asyncio programs: an event loop with a
virtual clock, a scheduling policy that picks which ready callback runs next, a
simulated network and disk that lose, delay and tear things on purpose, an
explorer that runs a workload under many seeds, and a shrinker that reduces a
failing schedule to the choices that matter.  A simulator is only worth what it
can be trusted for: if it loses a callback, lets a timer overtake another, hands
bytes up out of order or reports a failure nobody can reproduce, every result
found with it is in doubt.  The repository also holds two programs to run under it, a
raft cluster and a job queue, with promises of their own.  This directory models those promises in TLA+, checks
them with TLC on small instances and proves the central ones with TLAPS for every
instance.

Paths below are relative to `src/`, the repository; line numbers are in
`PROJECT.json`, which maps each definition to the lines it stands for.

## 1. Inventory

| Component | State | Operations | Interacts with | Model |
|---|---|---|---|---|
| Event loop (`_loop.py`) | ready list, timer heap, true clock, seq counter, stop flag, collected failures | `call_soon`, `call_later`, `call_at`, `Handle.cancel`, `_step`, `_advance_clock`, `run_forever`, `run_until_complete`, `stop`, `close`, the exception handlers | policy (choice of the next entry), trace, network (which host is running, its clock offset) | `SimLoop` |
| Trace (`_trace.py`) | list of events | record, hash | written by the loop and the network | `trace` in `SimLoop` |
| Policies (`_policy.py`) | seeded generator, PCT priorities, a script and its divergence | `choose` | loop | `Policies`; any choice, in `SimLoop` |
| Network (`_net.py`) | hosts up or down, cuts, listeners, pending connects, packets held or queued early | connect, transmit, deliver, dispatch, partition, heal, crash, restart | loop (each packet in flight is a timer), transports | `SimNet` |
| Stream transports (`_transports.py`) | closing and eof flags, out sequence, write buffer, reading backlog | write, write_eof, close, abort, pause and resume reading, `_finish` | network | life cycle in `SimNet`, flow control and reading in `StreamFlow` |
| Datagrams (`_net.py`, `_transports.py`) | bound endpoints | sendto, deliver with loss and duplication | network | planned |
| Disk (`SimDisk` in `_net.py`) | durable dict, journal, overlay | set, delete, get, iterate, `sync`, `set_disk`, `_crash` | host crash | `SimDisk`, `CrashSafeDisk` |
| Explorer (`_explore.py`) | seeds passed, last passing trace | `explore`, `_run_seed`, `_explore_parallel` | loop, parallel search, shrinker | `SeedVerdict`, `ParallelSearch` |
| Parallel search (`_parallel.py`) | frontier, futures running, lowest failure | take, submit, wait, record, re-run in the parent | worker processes | `ParallelSearch` |
| Shrinker (`_shrink.py`) | best candidate, probes spent, steps kept | prefix and FIFO searches, ddmin | replays of the workload | `Shrink` |
| Run teardown (`_run.py`) | - | `run_once`, `finish`, `_drain` | loop | exceptions in `ParallelSearch`; `_drain` planned |
| Name resolution, sockets, TLS, entropy, timeline, pytest plugin | - | lookups, shims, formatting | - | not modelled: no state of their own that a property could tell apart |
| Raft example (`examples/raft/raft`) | term, vote and log of a node, its role and commit mark, the records on its disk, the calls of its campaign or leadership | the election timeout, solicit, push, the three request handlers, `_persist`, restart | its peers, by one request per connection; the disk of its machine | `RaftNode` |
| Job queue example (`examples/jobqueue/jobqueue`) | the broker's jobs, order and lease timers; the store's newest tokens and commits; where each client and worker is | submit, acquire, renew, complete, wait; lease expiry and backoff; begin and commit; retries | client and workers call the broker, workers the store | `JobQueue` |
| Benchmarks and probes | - | - | - | not modelled: measurements |

What is hard here:

* **Ordering.** Nothing in the simulator is concurrent in the threads' sense, and
  everything is in the schedule's: any ready entry may be drawn next, any packet
  in flight may land next, and callbacks run in the middle of the library's loops
  (`_step`, `_InOrder.push`, `crash`) and do whatever user code does.
* **Failure.** Hosts crash and come back between any two steps; links are cut with
  packets on them; callbacks raise out of library loops; tasks fail with nobody
  awaiting them.
* **Real concurrency.** The parallel search does have processes: batches finish in
  any order and workers die.
* **Calls that outlive their callers.** In both examples a caller gives up after a
  timeout, its request may still land, and its tasks go on for a while after the
  state they began in is gone.
* **Two copies of one thing.** The disk's journal and overlay, the shrinker's best
  candidate and its passes' own variables, the clock and the heap.

For each component, correctness means:

* loop: every handle runs or is dropped as cancelled exactly once; no timer is
  overtaken by the clock; the trace is a possible history; the clock jumps exactly
  to the earliest live deadline; a host reads its own skewed clock consistently; a
  run that says it succeeded hides no failure; a stalled run is drained before it
  is reported; every run returns;
* parallel search: it gives the sequential answer or none, names real mismatches
  only, and always comes back;
* disk: reads see the host's own writes; a crash leaves a prefix of them;
* network: bytes in order, nothing dropped between live machines, no transport
  outliving its machine unless the crash itself was cut short, no connect waiting for
  ever but by its own exception; the write buffer is what is
  outstanding, and a paused writer is released;
* policies: a recording replays, and a replay says where it stopped being faithful;
* shrinker: what it reports still fails and holds no superfluous step;
* raft: one leader a term, logs that match, and what is committed stays committed and
  is applied alike;
* job queue: no job is lost from the queue or queued twice, every lease can be taken
  back, an effect happens at most once and before the job is called done, what a
  client was told stays true, and everything is settled in the end.

`PROJECT.json` lists the hazards behind these, each at its line.

## 2. Modules

| Module | Role |
|---|---|
| `SimLoop` | the event loop |
| `SimLoopProofs` | its theorems |
| `SeedVerdict` | what exploring a list of seeds promises (the loop in `explore`) |
| `ParallelSearch` | the parallel search and the parent's re-runs; implements `SeedVerdict` |
| `ParallelSearchProofs` | its theorems |
| `CrashSafeDisk` | what a disk promises: a list of versions, of which a crash keeps a prefix |
| `SimDisk` | the disk of `_net.py`; implements `CrashSafeDisk` |
| `SimDiskProofs` | its theorems |
| `SimNet` | hosts, links, connections and the packet pipeline |
| `SimNetProofs` | its theorems |
| `StreamFlow` | the write buffer and the reading pauses of one direction of a stream |
| `StreamFlowProofs` | its theorems |
| `Policies` | the three policies, recordings and replays |
| `Shrink` | the shrinker against an arbitrary oracle |
| `ScheduleProofs` | the theorems of `Policies` and `Shrink` |
| `RaftNode` | the nodes of the raft example, their disks and the calls between them |
| `RaftNodeProofs` | its theorems |
| `JobQueue` | broker, store, workers and clients of the job queue example |
| `JobQueueProofs` | its theorems |
| `MCRaftStale` | nine raft nodes behind a network that follows one schedule |
| `MC*` | instances for TLC |

Operators named "slip" in a comment are deliberate mistakes, one per property;
they are used by no specification.  `PROJECT.json` says which definition each one
replaces to show that the property would notice.

### SimLoop

State is `_now`, `_ready` (a sequence of sequence numbers), `_timers` (a set, whose
heap order is deadline then number), the trace and choice log, the flags of the
runs, and what is known of the failures: `unhandled` is `_unhandled`, `orphans` are
tasks that failed with nobody awaiting them and are not collected yet.  A handle is
its number.  The actions of user code (`CallSoon`, `CallLater`, `CallAt`,
`CancelHandle`, `SetClock`, `Stop`, `Complete`, `OrphanFails`) happen inside a
callback or while the loop is idle.  `Step` draws *any* ready entry, so every result
holds under the seeded policy, PCT, FIFO and any script.  `_advance_clock` is three
actions, one per turn of its loops: `DiscardCancelledHead`, `AdvanceClock`,
`PopDue`.  A timer keeps three hosts apart: `host`, the machine of the context its callback
runs in, which `call_later` and `call_at` take as an argument; `maker`, the one that asked
for it, named by its schedule event and whose clock offset its two deadlines are made with;
and `here`, the one code is running as.  The network's deliveries are made on the sender's
clock, in the context of the wire, and run as the machine the packet is for (`RunsAs`).
A user handler that raises SystemExit or KeyboardInterrupt takes the loop down
(`HandlerExits`), as a callback that raises one does.  `ForeverEnds`, `CancelStalled`, `ReportStall` and `FinishRun` are the tail
of `run_until_complete`, with its drain, its collection and its three diagnoses.
The awaited future is a task, a bare future or one that is already done.

### ParallelSearch

A batch is named by its first position.  `Take`, `SubmitFails`, `Filled` and `Collect`
are the loop of `find_lowest_failure`; `WorkerSeed` is one turn of `_run_batch`;
`WorkerRaises` and `PoolBreaks` are a `BaseException` out of the workload and the loss
of a process, after which every unfinished future fails and `submit` refuses.
`Below` and `Again` are the parent's two re-runs.  Which seeds fail in a worker
(`there`), in the parent (`here`), and with another exception in the parent
(`other`) are arbitrary sets when `Flaky`.

### SimDisk

A Python dict is a function and the sequence of its keys.  `Record` is
`__setitem__`/`__delitem__` on either kind of disk; `Flush` is `sync`, `Configure`
`set_disk`, `Crash` `_crash` with any cut point of the journal.  `Merged` is the
generator behind iteration, `Lookup` is `__getitem__`.

### SimNet

A connection has two ends; a packet carries its kind, its end and its sequence
number.  `Deliver` is the end of a flight, in any order; `Dispatch` is one turn of
`_InOrder.push`, up to the call it makes into user code: a factory, `connection_made`,
`data_received`, `eof_received` or `connection_lost`.  While that runs (`calling`) user code
and faults may act, and then it returns (`FactoryReturns`, `MadeReturns`,
`CallbackReturns`) or, with `Raising`, raises out of the loop (`CallbackRaises`).  An end in
`bare` is registered and has no protocol yet, or never will, its factory having raised.
A connect is `answering` from the moment its `_pending` entry is popped until its future is
set; a raise in between makes it `botched`, pending for ever, and a cancel in between makes
the setting of the future raise (`MadeReturns`).  `doomed` is a connect whose cancellation
is on its way while the accept has resolved it: its next step aborts the transport.

`Crash` cancels the host's connectors, drops its listeners, finishes its transports and
discards what is held for it; with `Reactive`, the `connection_lost` it calls may close
other connections of the host.  `CrashCutShort` is the crash whose loop a raising
`connection_lost` leaves: some transports finished, the others still registered
(`leftBehind`, which the machine's next life finds there), and what is held not discarded.  Which are
finished first is left open: the registry's order is that of the connections' making, and
a subset covers it.  With `Zombies`, tasks of a crashed host that ignored their cancellation keep
acting.  A machine may connect to itself, which gives it two transports with one connection.

### StreamFlow

Takes from `SimNet` that packets reach a transport in order, so what is in flight is a
queue.  `calls` is the stack of `data_received` and `resume_reading` calls: `resume_reading`
may be called from inside `data_received`, which it then calls again, and the credit it
gives may run the sender's `resume_writing` in the middle of its loop.  `Write` charges,
`Return` credits once `data_received` is back, `SwitchOn`, `SwitchOff` and `SetLimits` are
the reconfigurations.

### Policies

The workload is a function from the choices made so far to the next ready queue, met
lazily, so that every deterministic workload of the bounded size is covered.  A first
run is scheduled by any of the three policies; a second replays its recording, or the
script it had without the trailing FIFO choices, as `shrink_schedule` reports it.
`RerunsAlike` is what entitles `Shrink` to identify a candidate with its set of choices.

### Shrink

How a candidate runs depends only on the set of steps at which it makes a choice
other than 0, since a replay is FIFO elsewhere and past its end.  The oracle
(`fails`) is *any* set of such sets: editing a schedule may change everything after
the edit, so neither monotonicity nor anything else is assumed.  Each action is one
probe of one pass, or the step from one pass to the next.

### RaftNode

`node` is what a process keeps in memory and `disk` the records it has saved, the first
of them durable: `_persist` without a sync only appends, and `Restart` boots from any
record of the list, as a disk that keeps a prefix of its writes (`CrashSafeDisk`) would
let it.  The three request handlers are synchronous in the code and one step here.
`_follow`, `_campaign` and `_lead` suspend, so `doing` and `mine` keep the coroutine a node
is in and the term that coroutine began with, which may both be out of date when a
handler has changed the node: `SolicitReplied`, `PushReplied`, `CampaignEnds` and `LeadEnds`
look again, exactly where the code does, and `Push` does not, as it does not.  `call` holds the
task for each peer; a request goes from it to the handler and the answer back, or the
call fails, and then the request may stay behind in `late` and land at any time.  Election
timeouts may fire at any time.  The `Safeguards` are definitions, as the code ships them.

### JobQueue

One connection is one request.  `Pending` are the requests the broker has not finished with:
of callers who wait, and in `late` of callers who do not.  An `acquire` with nothing ready is
held until a job is ready or its wait is over, whether or not its caller is still there.
`timers` are the armed `_expire` timers, `Expire` one of them firing; a lease's length and a
backoff's only say that the timer may fire.  `Leased` and `Executed` are `_work` up to and from
its only await before `complete`, with the store's `begin` and `commit`, which are plain
calls.  Renewals run beside it, and no answer to them is read.

## 3. Runs

| Run | Instance | Shows |
|---|---|---|
| `loop` | one machine and the wire, 3 handles, delay 2, deadline 1, the clock set slow or fast by 1, 2 runs, 1 failure, a user handler that swallows it, raises or exits, every kind of future, fairness | `Accounted`, `NoTimerOvertaken`, `TraceIsAHistory`, `WhenHasCome`, `ClockJumpsToEarliestLive`, `SuccessIsHonest`, `StallIsDrained`, `RunReturns` |
| `parallel` | 5 seeds, batches of 2 (the last of 1), 2 workers, flaky and mortal, fairness | `FindsLowest`, `ReportsReproduce`, `MismatchIsReal`, `ParallelIsTheVerdict`, `SearchEnds` |
| `disk` | 3 keys, 2 values, 3 queued writes | `ReadsOwnWrites`, `IterationListsTheView`, `ImplementsCrashSafeDisk` |
| `net` | one connection of a machine to the driver or to itself, writes while fewer than 3 packets were sent over it, 1 crash, 1 cut, zombies and raising factories and callbacks, fairness | `InOrder`, `NothingDropped`, `NoResurrection`, `EverythingArrives`, `ConnectResolves` |
| `flow` | 3 chunks of 1 or 2 bytes, marks <0,1> and <1,2>, 2 reconfigurations, fairness | `ReadInOrder`, `BufferIsOutstanding`, `PausedForAReason`, `PausedIsReleased` |
| `policies` | runs of 4 steps, queues of up to 2 entries of 2 owners, choices up to 2, depth 3 | `DivergenceIsTold`, `RerunsAlike` |
| `shrink` | recordings of 4 steps, every oracle, budgets 4 and 30 | `TypeOK`, `AnswerReproduces`, `OneMinimalIfFifoPasses` |
| `raft` | 3 nodes; elections of a in term 1 and of a and b in term 2; one call at a time with a client and one fault, or with two faults, or all calls at once | `ElectionSafety`, `LogMatching`, `LeaderCompleteness`, `StateMachineSafety` |
| `jobqueue` | 1 job, 2 workers, 2 attempts, 2 tries of a call, 1 renewal, 2 faults, fairness | `QueueHoldsQueued`, `LeaseIsWatched`, `ExactlyOnce`, `DoneIsCommitted`, `AnswerStands`, `Converges` |
| `loop_masked` | one failure, one run | refutes `FailureOutranksDeadlock` |
| `net_silent` | two connections, one crash, reactive | refutes `CrashIsSilent` |
| `raft_stale` | 9 nodes, 4 terms, one schedule of 30 calls | refutes `CommandsApplyAlike` |

Type invariants are proved as a part of each module's inductive invariant (`TypeOK`,
`ContentTypes`, `NetTypes`, `FlowTypes`, `PolicyTypes`); `shrink` checks its own as well, since
it carries the bounds of the binary searches and of ddmin's granularity.
The inductive invariants were model-checked on the instances of this table, but those of
`RaftNodeProofs`, which ask for sets of ballots and acknowledgements TLC cannot enumerate.

**Bounds.** Each is a named constant in a guard.  Of three handles user code
makes two, such as a callback and a timer it cancels, or two timers due at the same instant;
the last is left for the one asyncio needs to end a run.  A delay of 2 with a deadline of 1
on a clock slow or fast by 1 gives equal deadlines, deadlines in the past and real jumps, and
a timer in the wire's context has another clock than the one that asked for it.  A user handler that raises falls back to
the default one, so no handler at all is the same path with one failure less to collect.
Five seeds in batches of two give
a ragged last batch, a batch above and a batch below a known failure while both
workers are busy.  Three keys and three queued writes give delete-and-rewrite with
another key between.  In the network no write, eof or
abort begins once three packets were sent over a connection (`MaxSent`), which leaves room for a syn, an accept and
a write, with the closing fins and resets behind them: packets of one direction overtake one another, and one crash with its
restart separates two incarnations.  The connection of a machine to itself has both ends on
the machine that crashes, which is what a crash cut short needs to leave one behind.  Four recorded steps make ddmin go through
granularities 2 and 4, with both chunks and complements; a budget of 4 runs out in
each pass for some oracle.  Three chunks let `resume_reading` nest twice in `data_received`,
and two reconfigurations switch flow control off and on again with bytes on their way.
Owners of ready entries are interchangeable, so `policies` uses symmetry.  In `raft`,
two terms and two rivals let a leader be deposed while its pushers run, and meet the
winner again as a candidate.  A fault is a restart from any record the disk has, a call
that fails, or a request that lands after its caller is gone; `Bounds` are three
environments: a command behind the no-op with one fault, no command with two (a request
that outlives the process that sent it), and all the calls of a campaign or a leadership
in flight together with none.  `Elections` names who may run in which term, because a
third candidate only renames one of the two.  Overwriting a counted entry of an older term
(`commit_own_term_only`) takes a third term and, as the code's own comment says, cannot
happen while `leader_noop` is on.  In `jobqueue`, two attempts give a lease that expires into
another and one that expires into death, two workers an old and a new holder, and two
faults a lost answer with a crash, or two calls that outlive their callers.

**Deadlock.** `disk` checks for it: a disk can always be written, synced or
reconfigured.  The others say `CHECK_DEADLOCK FALSE` because these systems stop: a
loop is closed, a search has answered, and a bounded network has nothing left to do.

**Fairness.** `loop`: the thread runs the loop whenever it can run, and a
callback that was started returns (`WF(LoopStep)`, `WF(Return)`); user code owes
nothing else.  `parallel`: the parent process runs, and so does each worker, since a
seed is a finite run; no worker is obliged to die.  `net`: the loop runs every
handle it holds, which includes each packet in flight, the running push loop and
each queued `_finish`, and what it calls returns or raises; user code and faults owe
nothing, and the properties assume in so many words that the cuts are healed for good.
`ConnectResolves` excepts, by name, the connect whose own factory or `connection_made` raised.  `EverythingArrives` excepts only
what a raising callback left behind it in the reassembly queue, until another packet of
that direction comes.  `jobqueue`: timers fire, a task that can go on does, and the
broker gets to a request whose caller stays; a request nobody waits for may as well be
lost, and faults owe nothing.  `flow`: a callback comes back however
often it pauses and resumes meanwhile (strong fairness, since those calls nest in it and
disable its return for a while), `resume_reading` runs to its end, and user code does not
keep the thread or the virtual clock busy for ever, so what is in flight arrives.  That the
peer keeps coming back to read is a hypothesis of `PausedIsReleased` itself.

### What the refuted runs show

* `loop_masked` - when the last timers of a run are all cancelled, `_advance_clock`
  raises `SimulationDeadlockError` past the check that prefers a collected failure,
  so the failure that explains the stall is not the one reported.
* `net_silent` - `crash` calls `connection_lost` with the host's other connections
  still up; a protocol that closes one there sends its peer a fin, which is
  delivered if the host is restarted before it lands.
* `raft_stale` - state machine safety fails in the raft example, with every safeguard
  on.  `_push` asks who leads only after a reply, so the pusher of a deposed leader goes on
  with one request made of whatever log and commit mark its node has taken over since, under
  the old term.  Four leaders, of terms 1 to 4: the fourth commits X; the
  second, deposed, has learnt of it and pushes both X and the commit mark to the first under
  term 2; the third, cut off and still in office, takes X back from the first's log, which
  keeps its mark; and the first's own pusher hands that log and mark to a node still in term 1, which
  applies another command where X was.  In the model the timing is free and seven nodes
  suffice; with the example's own heartbeats and timeouts nine nodes do it, without a fault
  but calls that time out, and `tests/checks.py` then reports the violation on the real code.
  On the three nodes of `raft`, `LeaderCompleteness` and `StateMachineSafety`
  hold.  What is missing is the look at role and term before the send, and nothing else
  is: `AppliedAlike` proves, on any nodes, that two entries are applied at one index only
  after a request was sent out of office.

Other behaviour met while modelling that a reader may find surprising, with no run
of its own: `_ddmin` never asks whether the last step is needed, so when plain FIFO fails too
and the halvings missed it, the step reported is superfluous, though the docstring says
"1-minimal" (with FIFO passing it is, `OneMinimalIfFifoPasses`); `run_until_complete` reports a `stop()` by user code as a deadlock though
work remains; a callback that raises out of `_InOrder.push` leaves the packets behind
it queued until the next one of that direction arrives; a connect cancelled before its
accept lands leaves the server's end registered; one cancelled while its `connection_made` runs
(by that callback itself) leaves its own transport open, though a comment in
`_open_connection` says that "a cancelled connect leaves nothing connected behind it": the
future is cancelled, so nothing is aborted, and setting it raises out of the push loop; a factory or
`connection_made` that raises leaves its connect pending for ever, its entry in `_pending`
being gone, and on the server's side a transport without a protocol, on which every later
packet of data raises; a `connection_lost` that raises in `crash` leaves the host's other
transports registered, and the packets held for it, though `restart` calls its stream
connections dead; bytes written before flow control
is armed are credited but never charged, so the buffer may undercount (it never
overcounts); a `data_received` that raises inside `resume_reading` lets later data
overtake the backlog, and its chunk is never credited; a durable key deleted and written
again before a sync is listed in its old place and moves to the end when it is flushed; in the job queue the
store knows only the tokens announced to it, so a worker whose lease has expired may still
commit while the next holder has not begun, and a job that dies of its last attempt may
have had its effect (the example's README promises "no commit accepted from a superseded
lease", which `Commit.stale` judges by the same knowledge).

## 4. Proofs

All constants are arbitrary within the named assumptions of each module.

**SimLoopProofs.**  `TypeInv` is `TypeOK` with `RunPhases`, which says which flags go
with which phase: without it a callback could be typed to return to a run that is
over.  `TypeCorrect` follows action by action.  For the rest, each action is first
shown to be one of seven `QueueStep`s, all that can happen to the queue, the heap and
the trace: nothing, a new ready handle, a new timer, a draw, a discard, an advance, a
timer becoming ready.  `Accounted` (every handle ever made is in exactly one place) is
inductive over those.  `TimeInv` adds that ready handles are due, that every handle's
creation is in the trace, and that run events name handles; it is what makes
`NoTimerOvertaken` and `TraceIsAHistory` inductive.  `ClockJumps` is the action property.
`SuccessHonest` needs that the failures a run has not reported are counted
(`FailuresHeld`) and that a run under way has no outcome; `StallDrained` looks at each way
a run ends; for `WhenHolds`, `ClockInv` keeps, for each timer, the deadline its handle shows
and its true one together, on the clock of the machine that asked for it, until that clock
is set anew.

**ParallelSearchProofs.**  The heart of `SearchInv` is `CoverInv`: every failing
position below the cursor is covered, either by a recorded failure at or below it or by
a batch still out that has not passed it.  When nothing is out and the frontier offers
nothing more, that is exactly "the recorded failure is the lowest".  `BatchInv` keeps
batches apart and their workers inside them, `FreshInv` says batches not handed out are
untouched, `PhaseInv` ties the answer to the phase.  From it follow `LowestFound`,
`CleanHolds`, `ReportHolds`, `MismatchHolds` and, step by step, `ParallelRefines`: the
search implements `SeedVerdict`, with `Searching` for a search that raised.

**SimDiskProofs.**  `OverlayInv` says the overlay is, key by key, the latest entry of
the journal.  `ReplayAppend` (replaying one more write) carries it through a write,
`OwnWritesRead` follows, and `DiskRefines` maps the disk to the versions its journal's
prefixes would leave.  `OrderInv` says that the keys kept in order beside the data and
beside the overlay are each listed once and are theirs; a replay keeps this write by write
(`ReplayListed`), and `ListsTheView` puts the two lists together.  `Without` and
`OrderAfter` are recursive functions: that such a function exists is `Stepwise`, and what
it computes is proved at the least place where it could fail.

**SimNetProofs.**  `NetInv` has three parts above its types.  `FlowInv` is about packets: each one under way
carries a number its reader has not passed and its writer has used (`PacketsFit`), there is
one of a number and in one place (`OnePlace`), what is held waits for a cut that stands
(`HeldAtCut`), and from the reader's next number to the writer's last there is no hole
(`NoGap`).  `LifeInv` says that a connect that still waits belongs to its machine's present
life, and so does every transport but those a crash cut short did not get to;
`NoneResurrected` is its second part.  `OrderInv` says that what was handed up is what came
first: a transport with a protocol has been handed all its direction released since the packet that
opened it, one without (`bare`) nothing, and a factory is only called for that first packet
(`CallsInLoop`), so that no protocol is adopted in the middle of a stream.  `ReadInOrder` is
then read off; `NoneDropped` combines `NoGap` and `OnePlace`.

**StreamFlowProofs.**  What was handed up, the backlog, the eof that waits behind it and
what is in flight are one line, in which each place is known (`Line`).  That a chunk may go
straight to the protocol needs that nothing waits whenever reading is not paused and no
call is on the stack; `Stack` says so, and that a call begun by a packet finds nothing
waiting, which is why it may return without looking.  `PausedOwes` needs only that a buffer
with bytes has a switch that is on and a transport that is not gone (`Charged`).
`OwesWhatIsOutstanding` compares the buffer with a sum (`Bytes`, a recursive function that
adds the chunks up in the order written; `Counted` stands in for induction).  By `Line`, the
chunks outstanding are those not handed up and those `data_received` still has
(`OnTheirWay`, `WayIs`), each in one call (`Handlers`).  `Owed` is then inductive: a write
adds its bytes to both sides, a return takes them from both, and an arrival moves the chunk
without counting it twice.  It needs that a sender never charged with the switch off, and
not armed now, has written nothing, so that arming it finds both sides empty.

**ScheduleProofs**, of policies.  A run is a walk through the queues that were met (`Walked`), and a
scripted one chooses by its script, the step and the queue (`Follows`, `Chosen`).  A
recording chooses what it recorded because every entry of it was in range where it was
made (`RecordingChooses`), a trimmed script what the whole one does because an exhausted
script chooses the 0 that was cut off (`TrimmedChooses`).  So the second run stays on the
first's walk and cannot end before it.

**ScheduleProofs**, of the shrinker.  Each pass only asks for steps of the best schedule, so
a candidate that fails is no larger and becomes the best one (`Asked`).  `ShrinkInv` says
that therefore the best schedule makes exactly the choices the pass has not given up
(`BestIsCurrent`), and what the round of ddmin has tried without success (`Tried`).
`AnswersReproduce` needs the first; it also needs that a budget is at least 1, for a search
out of budget at once would answer None.  `ShrunkIsOneMinimal` needs the second: the last
round has chunks of one step, each of which was tried without the others or the others
without it, and with two steps left these are the same, which is why the code may skip the
complements at granularity 2 (`FinestRound`).  Both rest on what `_split` cuts: the
cuts `i * n // granularity` leave no chunk empty and no step out, and at full granularity
one step in each (`Cuts`, `RoundCuts`).  The oracle is any set of candidates.

**RaftNodeProofs.**  `TaskInv` says what the suspended `_campaign`, `_lead` and pushes of a
node may still hold of the term they began in.  `BallotInv` says there are ballots, one per
voter and term, that account for every vote counted, every vote on its way and every
leader elected: a vote is only given once its ballot is durable, so no restart takes it
back.  Two majorities share a voter, and `OneLeaderPerTerm` follows.  `LogInv` says there
is one log per term that had a leader, which only that leader extends, and with which every
log, in memory or on disk, and every slice in a request agrees wherever it has an entry of that
term; `LogsMatch` follows.

`CommitInv` adds, of that log and those ballots, a set of acknowledgements: the node, while
in that term, held the term's log up to that index.  An index is *lost* once a majority has
moved on to later terms without acknowledging it.  Whatever is not lost is shared by the
log of every later term, kept by every node that acknowledged it, and only a candidate
with as fresh a log gets the vote of such a node; so a leader of a later term, having a
majority of votes, has it or it was lost, and what a leader counted was acknowledged by a
majority and is not.  `LeadersComplete` follows.  The argument needs three facts the code does
not state: a request that outlives its caller still describes a log its sender had
(`RequestsHonest`), a deposed leader's push ends in no entry older than its own term, so
it cannot pass for an acknowledgement (`LeadersStay`, `PushEnds`), and a restarted
node boots from a record that holds all it acknowledged.  `LeaderCompleteness` speaks of what
a leader of the term applied first: what a node was first to apply without leading may
come from the stale push of `raft_stale`.

The last theorem, `AppliedAlike`, is about state machine safety, which `Spec` does not have.  `NotedSpec` is
`Spec` with a note, `strayed`, that some push task has sent a request while its node did not
lead in the task's term; the note constrains no step.  Until it is taken the code is safe,
whatever else goes wrong: two entries are applied at one index only in a behaviour that has
strayed.  A commit mark is *settled* when the log it is a mark of has, up to there, what a leader
counted in that term or before.  `SettledInv` adds to `CommitInv` that every node's mark is settled,
that a request carries a slice of its leader's log and a settled mark, and that whatever was
applied was counted.  A leader in office that sends its own log keeps this; what a stale
push sends is a log that is its node's no more, with a mark that is.  Whatever was counted
is in the log of every later leader, so two applied entries of one index are one entry.

**JobQueueProofs.**  `JobQueueInv` says what is true still of what was true when a request,
answer or timer was made: a key has one job (`OneJobPerKey`), a lease has the one timer
(`TimersWatch`), a job has one effect (`EffectsOfJobs`), and a request to complete a job, of
any caller, there or gone, is about one the store has committed (`RequestsHonest`,
`CallsMatch`), so that whoever completes has committed.

Tokens have an invariant of their own.  A worker *holds* lease `t` of job `i` when it works
under it, has it in an answer, or has asked to complete the job by it.  `TokenInv` says that
what is held was granted, and so was whatever a late renewal, the store's notes or its effects
name (a token from 1 to the job's), and that no lease is held by two workers.  A grant is
newer than all of these, and every other step only passes on what somebody held
(`TokenStep`), so both are inductive.  `OnlyHolderCompletes` follows with `DoneByWord`: only
`_complete` calls a job done, on the word of the holder of its present lease.

**Only model-checked.**  Liveness (`RunReturns`, `SearchEnds`, `EverythingArrives`,
`ConnectResolves`, `PausedIsReleased`, `Converges`), which needs ENABLED.
`StateMachineSafety` of `RaftNode` holds on the three nodes of `raft`; for every set of
nodes it cannot be a theorem of `Spec`, since `raft_stale` applies two commands at one index;
`AppliedAlike` is what is left of it.

## 5. Plan

Done, in this order because the rest of the simulator stands on them: the loop, the disk
and its refinement, the parallel search and its refinement, the network's streams, the
shrinker, flow control, the policies, the raft nodes and the job queue, and proofs of all
of these.  Next:

1. Datagrams: loss, duplication, binding and unbinding across a crash.
2. Run teardown (`_drain`) and the explorer's PCT calibration and overrides.

## 6. Not modelled

Name resolution, stand-in sockets, TLS certificates, seeded entropy, the timeline and the
pytest plugin keep no state a property could tell apart, or only format what a run left
behind; benchmarks and probes measure.  Datagrams and `_drain` are left to the plan.  In
`RaftNode` a handler of a dead incarnation (`_stopped`) is a request never handled, which
every request may be; liveness of elections rests on randomised timeouts and is not
stated.  In `JobQueue` the broker does not restart: it keeps its jobs in memory and the
example never crashes it.  The frames of both `wire.py` files are abstracted to messages:
a torn, oversized or undecodable one is a call that fails.
