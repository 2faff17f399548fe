------------------------------ MODULE JobQueue ------------------------------
(***************************************************************************)
(* The job queue example, src/examples/jobqueue/jobqueue: broker.py,       *)
(* store.py, worker.py and client.py.                                      *)
(*                                                                         *)
(* Every call is one request on a connection of its own.  The caller waits *)
(* with a timeout and tries again; the broker knows nothing of that, and a *)
(* request whose caller has left may still land, or may sit in _acquire    *)
(* and take a lease for nobody.  Time only says that a timer may fire.     *)
(***************************************************************************)
EXTENDS Integers, Sequences, SequencesExt, FiniteSets

CONSTANTS
    Keys,         \* logical submits
    Workers,
    MaxAttempts,  \* the broker's max_attempts
    Retries,      \* tries of one submit or one worker rpc
    MaxRenewals,  \* bound: renewals sent in one behaviour
    MaxFaults     \* bound: calls given up and workers crashed in one behaviour

ASSUME JobQueueAssumption ==
    /\ IsFiniteSet(Keys) /\ Keys \cap Workers = {}
    /\ MaxAttempts \in Nat \ {0} /\ Retries \in Nat \ {0}
    /\ MaxRenewals \in Nat /\ MaxFaults \in Nat

VARIABLES
    job,      \* _jobs and _by_key: the records, a job's id being its place
    order,    \* _order
    timers,   \* armed _expire timers, numbered within a lease by its renewals
    newest,   \* the store's _newest
    commits,  \* the store's accepted commits; _committed is their jobs
    client,   \* submit and wait of each key: where it is, the try, the payload, the job
    worker,   \* run of each worker: where it is, the lease, the try
    call,     \* the call each client and worker waits in
    late,     \* requests whose caller does not wait
    renewed, faults

brokerVars == <<job, order, timers>>
storeVars  == <<newest, commits>>
vars == <<brokerVars, storeVars, client, worker, call, late, renewed, faults>>

-----------------------------------------------------------------------------
\* The switches of the Broker, the EffectStore and the Client, as they ship.

\* slip: a check switched off.
Off == FALSE

fencing == TRUE
fenced == TRUE
idempotent == TRUE
idempotency == TRUE

-----------------------------------------------------------------------------
\* Calls

NoCall        == [st |-> "none"]
Asked(m)      == [st |-> "asked", req |-> m]
Held(m)       == [st |-> "held", req |-> m]
Answered(r)   == [st |-> "answered", reply |-> r]

\* Requests the broker has yet to finish with, and who waits for them.
Pending == late \cup {call[c] : c \in {d \in Keys \cup Workers : call[d].st \in {"asked", "held"}}}

\* The broker answers m; the answer is lost if nobody waits for it any more.
Respond(x, r) ==
    \/ /\ x \in late
       /\ late' = late \ {x}
       /\ UNCHANGED call
    \/ \E c \in Keys \cup Workers :
         /\ call[c] = x
         /\ call' = [call EXCEPT ![c] = Answered(r)]
         /\ UNCHANGED late

-----------------------------------------------------------------------------
\* The broker

Jobs == DOMAIN job
Is(i, states) == i \in Jobs /\ job[i].state \in states

\* _submit: the key's job, made if the broker has not seen the key.
HandleSubmit(x) ==
    /\ x.st = "asked" /\ x.req.op = "submit"
    /\ LET known == {i \in Jobs : job[i].key = x.req.key}
           new == Len(job) + 1
       IN IF known # {}
          THEN /\ Respond(x, CHOOSE i \in known : TRUE)
               /\ UNCHANGED <<job, order>>
          ELSE /\ Respond(x, new)
               /\ job' = Append(job, [key |-> x.req.key, payload |-> x.req.payload,
                                      state |-> "queued", attempts |-> 0, token |-> 0,
                                      ready |-> TRUE])
               /\ order' = Append(order, new)
    /\ UNCHANGED <<timers, storeVars, client, worker, renewed, faults>>

\* slip: off by one, the last attempt is never granted.
ReadyBeforeLast(i) == job[i].state = "queued" /\ job[i].ready /\ job[i].attempts < MaxAttempts - 1

\* _next_ready: the first queued job, in order, that is not backing off.
Ready(i) == job[i].state = "queued" /\ job[i].ready
NextReady == SelectInSeq(order, Ready)

\* slip: the job keeps its place in the queue.
LeaseKeepsPlace(i) ==
    /\ job' = [job EXCEPT ![i].state = "leased", ![i].token = @ + 1, ![i].attempts = @ + 1]
    /\ timers' = timers \cup {[job |-> i, token |-> job[i].token + 1, n |-> 0]}
    /\ UNCHANGED order

\* _lease
Lease(i) ==
    /\ job' = [job EXCEPT ![i].state = "leased", ![i].token = @ + 1, ![i].attempts = @ + 1]
    /\ order' = RemoveFirst(order, i)
    /\ timers' = timers \cup {[job |-> i, token |-> job[i].token + 1, n |-> 0]}

NoJob == [job |-> 0, token |-> 0]

\* _acquire: a lease at once if there is a ready job, or else as soon as the
\* event says there is one, or nothing when the wait is over.
HandleAcquire(x) ==
    /\ x.req.op = "acquire"
    /\ \/ /\ NextReady # 0
          /\ Lease(order[NextReady])
          /\ Respond(x, [job |-> order[NextReady], token |-> job[order[NextReady]].token + 1])
       \/ /\ NextReady = 0 /\ x.st = "asked"
          /\ \/ /\ x \in late
                /\ late' = (late \ {x}) \cup {Held(x.req)}
                /\ UNCHANGED call
             \/ \E c \in Workers :
                  /\ call[c] = x
                  /\ call' = [call EXCEPT ![c] = Held(x.req)]
                  /\ UNCHANGED late
          /\ UNCHANGED brokerVars
       \/ /\ x.st = "held"
          /\ Respond(x, NoJob)
          /\ UNCHANGED brokerVars
    /\ UNCHANGED <<storeVars, client, worker, renewed, faults>>

\* _expire: the lease is over unless it was completed or granted anew.
Expire(t) ==
    /\ timers' = timers \ {t}
    /\ IF ~Is(t.job, {"leased"}) \/ job[t.job].token # t.token
       THEN UNCHANGED <<job, order>>
       ELSE IF job[t.job].attempts >= MaxAttempts
       THEN /\ job' = [job EXCEPT ![t.job].state = "dead"]
            /\ UNCHANGED order
       ELSE /\ job' = [job EXCEPT ![t.job].state = "queued", ![t.job].ready = FALSE]
            /\ order' = Append(order, t.job)
    /\ UNCHANGED <<storeVars, client, worker, call, late, renewed, faults>>

\* The backoff of a requeued job has passed.
BackoffOver(i) ==
    /\ ~job[i].ready /\ job' = [job EXCEPT ![i].ready = TRUE]
    /\ UNCHANGED <<order, timers, storeVars, client, worker, call, late, renewed, faults>>

\* job.expiry is the timer armed last; cancelling it leaves any other armed.
Expiry(i) == {t \in timers : t.job = i /\ t.token = job[i].token
                               /\ \A u \in timers : u.job = i => u.n <= t.n}

\* slip: the old timer is forgotten but not cancelled.
StillArmed(i) == timers

Cancelled(i) == timers \ Expiry(i)

\* _renew: the lease's timer starts again.
HandleRenew(x) ==
    /\ x.req.op = "renew"
    /\ LET i == x.req.job
       IN timers' = IF Is(i, {"leased"}) /\ (fencing => x.req.token = job[i].token)
                    THEN Cancelled(i) \cup
                         {[job |-> i, token |-> job[i].token, n |-> t.n + 1] : t \in Expiry(i)}
                    ELSE timers
    /\ late' = late \ {x}
    /\ UNCHANGED <<job, order, storeVars, client, worker, call, renewed, faults>>

\* slip: a dead job is completed by its last holder.
CompletesTheDead(i, token) ==
    Is(i, {"leased", "dead"}) /\ token = job[i].token

\* _complete: the holder's word makes the job done, and anyone may repeat it.
Completes(i, token) ==
    Is(i, {"queued", "leased"}) /\ (fencing => job[i].state = "leased" /\ token = job[i].token)

HandleComplete(x) ==
    /\ x.req.op = "complete"
    /\ LET i == x.req.job
       IN /\ Respond(x, Is(i, {"done"}) \/ Completes(i, x.req.token))
          /\ IF Completes(i, x.req.token)
             THEN /\ job' = [job EXCEPT ![i].state = "done"]
                  /\ order' = RemoveFirst(order, i)
                  /\ timers' = Cancelled(i)
             ELSE UNCHANGED brokerVars
    /\ UNCHANGED <<storeVars, client, worker, renewed, faults>>

-----------------------------------------------------------------------------
\* The client

\* The key a try goes out with.
WireKey(k, try) == IF idempotency THEN <<k, 0>> ELSE <<k, try>>

SubmitCall(k, c) ==
    Asked([op |-> "submit", key |-> WireKey(k, c.try), payload |-> c.payload, from |-> <<k, c.try>>])

\* submit: a value of its own, and an execution that raises or does not.
Submit(k, poison) ==
    /\ client[k].st = "new"
    /\ client' = [client EXCEPT ![k] = [st |-> "submitting", try |-> 1, job |-> 0,
                                        payload |-> [value |-> k, poison |-> poison]]]
    /\ call' = [call EXCEPT ![k] = SubmitCall(k, client'[k])]
    /\ UNCHANGED <<brokerVars, storeVars, worker, late, renewed, faults>>

Acknowledged(k) ==
    /\ client[k].st = "submitting" /\ call[k].st = "answered"
    /\ client' = [client EXCEPT ![k].st = "waiting", ![k].job = call[k].reply]
    /\ call' = [call EXCEPT ![k] = NoCall]
    /\ UNCHANGED <<brokerVars, storeVars, worker, late, renewed, faults>>

\* wait: a poll, _status at the broker, finds the job in a state it stops at.
WaitEnds(k) ==
    /\ client[k].st = "waiting" /\ Is(client[k].job, {"done", "dead"})
    /\ client' = [client EXCEPT ![k].st = job[client[k].job].state]
    /\ UNCHANGED <<brokerVars, storeVars, worker, call, late, renewed, faults>>

-----------------------------------------------------------------------------
\* The worker

Resting == [st |-> "resting", job |-> 0, token |-> 0, try |-> 0]

WorkerCall(w, s) ==
    IF s.st = "acquiring" THEN Asked([op |-> "acquire", from |-> <<w, s.try>>])
    ELSE Asked([op |-> "complete", from |-> <<w, s.try>>, job |-> s.job, token |-> s.token])

Acquire(w) ==
    /\ worker[w].st = "resting"
    /\ worker' = [worker EXCEPT ![w].st = "acquiring", ![w].try = 1]
    /\ call' = [call EXCEPT ![w] = WorkerCall(w, worker'[w])]
    /\ UNCHANGED <<brokerVars, storeVars, client, late, renewed, faults>>

\* The store's begin: refused to a token older than the newest it has seen.
StaleAtStore(i, token) == fenced /\ token < newest[i]
Noted(i, token) == newest' = [newest EXCEPT ![i] = IF token > @ THEN token ELSE @]

\* The lease arrives, and _work announces it to the store before it starts.
Leased(w) ==
    /\ worker[w].st = "acquiring" /\ call[w].st = "answered"
    /\ LET r == call[w].reply
       IN IF r = NoJob \/ StaleAtStore(r.job, r.token)
          THEN /\ worker' = [worker EXCEPT ![w] = Resting]
               /\ UNCHANGED newest
          ELSE /\ worker' = [worker EXCEPT ![w] =
                               [st |-> "executing", job |-> r.job, token |-> r.token, try |-> 0]]
               /\ Noted(r.job, r.token)
    /\ call' = [call EXCEPT ![w] = NoCall]
    /\ UNCHANGED <<brokerVars, commits, client, late, renewed, faults>>

Committed == {commits[n].job : n \in DOMAIN commits}

\* The store's commit
CommitOutcome(i, token) ==
    IF StaleAtStore(i, token) THEN "stale"
    ELSE IF idempotent /\ i \in Committed THEN "duplicate" ELSE "ok"

\* slip: an execution that raised is reported complete.
WalksAwayOnlyIfStale(i, outcome) == outcome = "stale"

\* A poisoned job is left to expire, a superseded one to its new holder.
WalksAway(i, outcome) == job[i].payload.poison \/ outcome = "stale"

\* _execute ends, and _work goes on to commit and complete.
Executed(w) ==
    /\ worker[w].st = "executing"
    /\ LET i == worker[w].job
           token == worker[w].token
           outcome == CommitOutcome(i, token)
       IN /\ IF WalksAway(i, outcome)
             THEN worker' = [worker EXCEPT ![w] = Resting] /\ UNCHANGED call
             ELSE /\ worker' = [worker EXCEPT ![w].st = "completing", ![w].try = 1]
                  /\ call' = [call EXCEPT ![w] = WorkerCall(w, worker'[w])]
          /\ IF job[i].payload.poison \/ outcome # "ok"
             THEN UNCHANGED storeVars
             ELSE /\ Noted(i, token)
                  /\ commits' = Append(commits, [job |-> i, token |-> token,
                                                 value |-> job[i].payload.value])
    /\ UNCHANGED <<brokerVars, client, late, renewed, faults>>

CompleteReplied(w) ==
    /\ worker[w].st = "completing" /\ call[w].st = "answered"
    /\ worker' = [worker EXCEPT ![w] = Resting]
    /\ call' = [call EXCEPT ![w] = NoCall]
    /\ UNCHANGED <<brokerVars, storeVars, client, late, renewed, faults>>

\* _renew_forever, which no answer changes, runs until _work is left.
Renew(w) ==
    /\ worker[w].st \in {"executing", "completing"} /\ renewed < MaxRenewals
    /\ renewed' = renewed + 1
    /\ late' = late \cup {Asked([op |-> "renew", job |-> worker[w].job, token |-> worker[w].token])}
    /\ UNCHANGED <<brokerVars, storeVars, client, worker, call, faults>>

-----------------------------------------------------------------------------
\* Faults

\* The caller's timeout, or a torn connection.  The request may still be on its
\* way, or at the broker; the answer is lost.
GivesUp(c) ==
    /\ faults < MaxFaults /\ faults' = faults + 1
    /\ call[c] # NoCall
    /\ late' \in IF call[c].st = "answered" THEN {late} ELSE {late, late \cup {call[c]}}

ClientRetries(k) ==
    /\ GivesUp(k)
    /\ IF client[k].try < Retries
       THEN /\ client' = [client EXCEPT ![k].try = @ + 1]
            /\ call' = [call EXCEPT ![k] = SubmitCall(k, client'[k])]
       ELSE /\ client' = [client EXCEPT ![k].st = "unacknowledged"]
            /\ call' = [call EXCEPT ![k] = NoCall]
    /\ UNCHANGED <<brokerVars, storeVars, worker, renewed>>

\* An rpc out of tries returns None: run asks again, _work is over.
WorkerRetries(w) ==
    /\ GivesUp(w)
    /\ IF worker[w].try < Retries
       THEN /\ worker' = [worker EXCEPT ![w].try = @ + 1]
            /\ call' = [call EXCEPT ![w] = WorkerCall(w, worker'[w])]
       ELSE /\ worker' = [worker EXCEPT ![w] = Resting]
            /\ call' = [call EXCEPT ![w] = NoCall]
    /\ UNCHANGED <<brokerVars, storeVars, client, renewed>>

\* The worker dies, its request perhaps under way, and another is started.
Crash(w) ==
    /\ faults < MaxFaults /\ faults' = faults + 1
    /\ worker[w] # Resting
    /\ worker' = [worker EXCEPT ![w] = Resting]
    /\ call' = [call EXCEPT ![w] = NoCall]
    /\ late' \in IF call[w].st \in {"asked", "held"} THEN {late, late \cup {call[w]}} ELSE {late}
    /\ UNCHANGED <<brokerVars, storeVars, client, renewed>>

-----------------------------------------------------------------------------
MaxJobs == Cardinality(Keys) * Retries

Init ==
    /\ job = <<>> /\ order = <<>> /\ timers = {}
    /\ newest = [i \in 1 .. MaxJobs |-> 0] /\ commits = <<>>
    /\ client = [k \in Keys |-> [st |-> "new", try |-> 0, job |-> 0,
                                payload |-> [value |-> k, poison |-> FALSE]]]
    /\ worker = [w \in Workers |-> Resting]
    /\ call = [c \in Keys \cup Workers |-> NoCall]
    /\ late = {} /\ renewed = 0 /\ faults = 0

Serve(x) == HandleSubmit(x) \/ HandleAcquire(x) \/ HandleRenew(x) \/ HandleComplete(x)
TimerFires == (\E t \in timers : Expire(t)) \/ (\E i \in Jobs : BackoffOver(i))
ClientStep(k) == (\E poison \in BOOLEAN : Submit(k, poison)) \/ Acknowledged(k) \/ WaitEnds(k)
WorkerStep(w) == Acquire(w) \/ Leased(w) \/ Executed(w) \/ CompleteReplied(w)

Next ==
    \/ \E x \in Pending : Serve(x)
    \/ TimerFires
    \/ \E k \in Keys : ClientStep(k) \/ ClientRetries(k)
    \/ \E w \in Workers : WorkerStep(w) \/ Renew(w) \/ WorkerRetries(w) \/ Crash(w)

Spec == Init /\ [][Next]_vars

\* Timers fire, tasks that can go on do, and the broker gets to a request whose
\* caller stays; a request nobody waits for may as well be lost.
Served(c) == call[c] \in Pending /\ Serve(call[c])
FairSpec ==
    /\ Spec
    /\ WF_vars(TimerFires)
    /\ \A k \in Keys : WF_vars(ClientStep(k) \/ Served(k))
    /\ \A w \in Workers : WF_vars(WorkerStep(w) \/ Served(w))

-----------------------------------------------------------------------------
\* The jobs in _order are the queued ones, each once: no expiry, late completion
\* or lease to a caller who is gone loses a job or queues it twice.
QueueHoldsQueued ==
    /\ IsInjective(order)
    /\ ToSet(order) = {i \in Jobs : job[i].state = "queued"}

\* A leased job has one armed timer, that of its present lease, so it can always
\* be taken back, and once; no other job has any.
LeaseIsWatched ==
    \A i \in Jobs :
        LET armed == {t \in timers : t.job = i}
        IN IF job[i].state = "leased"
           THEN Cardinality(armed) = 1 /\ \A t \in armed : t.token = job[i].token
           ELSE armed = {}

\* No job and no logical submit has two accepted effects, whatever was retried,
\* re-leased or lost on the way (README, exactly-once).
ExactlyOnce ==
    \A m, n \in DOMAIN commits :
        commits[m].job = commits[n].job \/ commits[m].value = commits[n].value => m = n

\* A job is called done only when its effect is in the store.
DoneIsCommitted == \A i \in Jobs : job[i].state = "done" => i \in Committed

\* What wait has told a client stays so: no late completion revives a dead job.
AnswerStands ==
    \A k \in Keys : client[k].st \in {"done", "dead"} => job[client[k].job].state = client[k].st

\* In the end every job is done or dead, and every client has heard so of its own
\* or was never acknowledged (README, no-loss and convergence).
Settled ==
    /\ \A i \in Jobs : job[i].state \in {"done", "dead"}
    /\ \A k \in Keys : client[k].st \in {"done", "dead", "unacknowledged"}
Converges == <>[]Settled
=============================================================================
