--------------------------- MODULE JobQueueProofs ---------------------------
(***************************************************************************)
(* The job queue's safety for any submits, workers, retry limits and       *)
(* faults: every job is queued, leased under one armed timer, or settled   *)
(* for good, and every logical submit takes effect at most once.           *)
(*                                                                         *)
(* None of the properties is inductive.  They need what the properties do  *)
(* not mention: what each caller waits for and what a request still on its *)
(* way may carry.  A request to complete a job, whoever sent it and        *)
(* whether or not he still waits, is about a job the store has committed   *)
(* (RequestsHonest, CallsMatch); a submit carries the one key of its       *)
(* logical submit; and no step gives a job another key or payload, or      *)
(* takes back that it is done or dead (Kept).                              *)
(*                                                                         *)
(* Tokens have an invariant of their own (TokenInv): whatever names a      *)
(* lease names one that was granted, and no lease is in two workers'       *)
(* hands, so only its one holder makes a job done.                         *)
(***************************************************************************)
EXTENDS JobQueue, FiniteSetTheorems, SequenceTheorems, WellFoundedInduction, TLAPS

Payloads == [value : Keys, poison : BOOLEAN]

JobRecords ==
    [key : Keys \X {0}, payload : Payloads, state : {"queued", "leased", "done", "dead"},
     attempts : Nat, token : Nat, ready : BOOLEAN]

Timers == [job : Nat, token : Nat, n : Nat]
Effects == [job : Nat, token : Nat, value : Keys]

ClientRecords ==
    [st : {"new", "submitting", "waiting", "unacknowledged", "done", "dead"},
     try : Nat, job : Nat, payload : Payloads]

WorkerRecords ==
    [st : {"resting", "acquiring", "executing", "completing"}, job : Nat, token : Nat, try : Nat]

SubmitRequests == [op : {"submit"}, key : Keys \X {0}, payload : Payloads, from : Keys \X Nat]
AcquireRequests == [op : {"acquire"}, from : Workers \X Nat]
RenewRequests == [op : {"renew"}, job : Nat, token : Nat]
CompleteRequests == [op : {"complete"}, from : Workers \X Nat, job : Nat, token : Nat]
Requests == SubmitRequests \cup AcquireRequests \cup RenewRequests \cup CompleteRequests

\* What the broker answers: a job, a lease or nothing, a yes or no.
Replies == Nat \cup [job : Nat, token : Nat] \cup BOOLEAN

Sent == [st : {"asked", "held"}, req : Requests]
Calls == {NoCall} \cup Sent \cup [st : {"answered"}, reply : Replies]

BrokerTypes ==
    /\ job \in Seq(JobRecords)
    /\ order \in Seq(Nat)
    /\ timers \subseteq Timers

StoreTypes ==
    /\ newest \in [1 .. MaxJobs -> Nat]
    /\ commits \in Seq(Effects)

CallerTypes ==
    /\ client \in [Keys -> ClientRecords]
    /\ worker \in [Workers -> WorkerRecords]
    /\ call \in [Keys \cup Workers -> Calls]
    /\ late \subseteq Sent
    /\ renewed \in 0 .. MaxRenewals /\ faults \in 0 .. MaxFaults

\* Every variable has its type.
TypeOK == BrokerTypes /\ StoreTypes /\ CallerTypes

-----------------------------------------------------------------------------
\* A job is made under the one key of its logical submit, once.
OneJobPerKey ==
    /\ \A i \in Jobs : job[i].key = <<job[i].payload.value, 0>>
    /\ \A i, j \in Jobs : job[i].key = job[j].key => i = j

\* The one timer of each lease, and no timer of anything else.
Armed(i) == {t \in timers : t.job = i}
Watched(i) ==
    IF job[i].state = "leased"
    THEN \E t \in timers : Armed(i) = {t} /\ t.token = job[i].token
    ELSE Armed(i) = {}

TimersWatch ==
    /\ \A t \in timers : t.job \in Jobs
    /\ \A i \in Jobs : Watched(i)

\* An accepted effect is that of a job of the broker, and the only one of it.
EffectsOfJobs ==
    /\ \A n \in DOMAIN commits :
          commits[n].job \in Jobs /\ commits[n].value = job[commits[n].job].payload.value
    /\ \A m, n \in DOMAIN commits : commits[m].job = commits[n].job => m = n

\* What a request may carry, wherever it is.
Honest(m) ==
    /\ m.op = "submit" => m.key = <<m.payload.value, 0>>
    /\ m.op = "complete" => m.job \in Committed

RequestsHonest ==
    /\ \A x \in late : Honest(x.req)
    /\ \A c \in Keys \cup Workers : call[c].st \in {"asked", "held"} => Honest(call[c].req)

\* A client has a submit under way, its own job, or none.
ClientMatches(k) ==
    /\ client[k].payload.value = k
    /\ call[k].st \in {"asked", "held"} =>
          client[k].st = "submitting" /\ call[k].req.op = "submit"
    /\ call[k].st = "answered" => client[k].st = "submitting" /\ call[k].reply \in Jobs
    /\ client[k].st \in {"waiting", "done", "dead"} => client[k].job \in Jobs

\* A worker has a request under way that fits what it does, and a job that is
\* the broker's, in the store once it goes on to complete it.
WorkerMatches(w) ==
    /\ call[w].st \in {"asked", "held"} =>
          \/ worker[w].st = "acquiring" /\ call[w].req.op = "acquire"
          \/ worker[w].st = "completing" /\ call[w].req.op = "complete"
    /\ call[w].st = "answered" => worker[w].st \in {"acquiring", "completing"}
    /\ worker[w].st = "acquiring" /\ call[w].st = "answered" =>
          call[w].reply = NoJob \/ call[w].reply \in [job : Jobs, token : Nat]
    /\ worker[w].st = "executing" => worker[w].job \in Jobs
    /\ worker[w].st = "completing" => worker[w].job \in Committed

CallsMatch == (\A k \in Keys : ClientMatches(k)) /\ (\A w \in Workers : WorkerMatches(w))

BrokerInv == OneJobPerKey /\ QueueHoldsQueued /\ TimersWatch
StoreInv == EffectsOfJobs /\ DoneIsCommitted

\* The inductive invariant.
JobQueueInv == TypeOK /\ BrokerInv /\ StoreInv /\ RequestsHonest /\ CallsMatch /\ AnswerStands

-----------------------------------------------------------------------------
(***************************************************************************)
(* The queue as a sequence.                                                *)
(***************************************************************************)

\* The least of a nonempty set of naturals is one of them.
LEMMA MinIn ==
    ASSUME NEW S \in SUBSET Nat, S # {}
    PROVE  Min(S) \in S
<1>1. PICK p \in S : \A q \in S : <<q, p>> \notin OpToRel(<, Nat)
  BY NatLessThanWellFounded, WFMin
<1>2. ASSUME NEW q \in S, q < p PROVE FALSE
  <2>1. <<q, p>> \in Nat \X Nat /\ <<q, p>>[1] < <<q, p>>[2]
    BY <1>2
  <2>2. <<q, p>> \in OpToRel(<, Nat)
    BY <2>1, Zenon DEF OpToRel
  <2> QED BY <1>1, <2>2
<1>3. \A q \in S : p <= q
  BY <1>2
<1> QED BY <1>3 DEF Min

\* _next_ready finds the place of a queued job that is not backing off.
LEMMA NextReadyIs ==
    ASSUME order \in Seq(Nat), NextReady # 0
    PROVE  NextReady \in DOMAIN order /\ Ready(order[NextReady])
<1> DEFINE I == {n \in 1 .. Len(order) : Ready(order[n])}
<1>1. NextReady = (IF I # {} THEN Min(I) ELSE 0)
  BY DEF NextReady, SelectInSeq
<1>2. I # {} /\ NextReady = Min(I)
  BY <1>1
<1>3. I \in SUBSET Nat
  OBVIOUS
<1>4. NextReady \in I
  BY <1>2, <1>3, MinIn
<1> QED BY <1>4

\* Vacating one place of a queue closes the gap.
LEMMA RemoveAtFacts ==
    ASSUME NEW S, NEW q \in Seq(S), NEW n \in DOMAIN q
    PROVE  /\ RemoveAt(q, n) \in Seq(S) /\ Len(RemoveAt(q, n)) = Len(q) - 1
           /\ \A j \in 1 .. Len(q) - 1 : RemoveAt(q, n)[j] = IF j < n THEN q[j] ELSE q[j + 1]
<1> DEFINE a == SubSeq(q, 1, n - 1)
           b == SubSeq(q, n + 1, Len(q))
<1>1. Len(q) \in Nat /\ n \in 1 .. Len(q) /\ DOMAIN q = 1 .. Len(q)
  OBVIOUS
<1>2. a \in Seq(S) /\ Len(a) = n - 1 /\ \A j \in 1 .. n - 1 : a[j] = q[j]
  BY <1>1
<1>3. b \in Seq(S) /\ Len(b) = Len(q) - n /\ \A j \in 1 .. Len(q) - n : b[j] = q[n + j]
  BY <1>1
<1>4. RemoveAt(q, n) = a \o b
  BY DEF RemoveAt
<1> HIDE DEF a, b
<1>5. /\ a \o b \in Seq(S) /\ Len(a \o b) = Len(a) + Len(b)
      /\ \A j \in 1 .. Len(a) + Len(b) : (a \o b)[j] = IF j <= Len(a) THEN a[j] ELSE b[j - Len(a)]
  BY <1>2, <1>3, ConcatProperties
<1>6. ASSUME NEW j \in 1 .. Len(q) - 1
      PROVE  (a \o b)[j] = IF j < n THEN q[j] ELSE q[j + 1]
  <2>1. CASE j < n
    BY <1>1, <1>2, <1>3, <1>5, <2>1
  <2>2. CASE j >= n
    <3>1. j - (n - 1) \in 1 .. Len(q) - n /\ ~(j <= n - 1) /\ n + (j - (n - 1)) = j + 1
      BY <1>1, <1>6, <2>2
    <3>2. (a \o b)[j] = b[j - (n - 1)]
      BY <1>1, <1>2, <1>3, <1>5, <1>6, <3>1
    <3>3. b[j - (n - 1)] = q[n + (j - (n - 1))]
      BY <1>3, <3>1
    <3>4. (a \o b)[j] = q[j + 1]
      BY <3>1, <3>2, <3>3
    <3> QED BY <1>1, <2>2, <3>4
  <2>3. j < n \/ j >= n
    BY <1>1
  <2> QED BY <2>1, <2>2, <2>3
<1> QED BY <1>1, <1>2, <1>3, <1>4, <1>5, <1>6

\* What is left when one place of a queue without repetitions is vacated.
LEMMA RemoveAtIs ==
    ASSUME NEW S, NEW q \in Seq(S), IsInjective(q), NEW n \in DOMAIN q
    PROVE  /\ RemoveAt(q, n) \in Seq(S) /\ IsInjective(RemoveAt(q, n))
           /\ ToSet(RemoveAt(q, n)) = ToSet(q) \ {q[n]}
<1> DEFINE r == RemoveAt(q, n)
<1>1. /\ r \in Seq(S) /\ n \in 1 .. Len(q)
      /\ DOMAIN r = 1 .. Len(q) - 1 /\ DOMAIN q = 1 .. Len(q) /\ Len(q) \in Nat
      /\ \A j \in 1 .. Len(q) - 1 : r[j] = IF j < n THEN q[j] ELSE q[j + 1]
  BY RemoveAtFacts
<1> HIDE DEF r
<1>2. \A i, j \in 1 .. Len(q) : q[i] = q[j] => i = j
  BY <1>1 DEF IsInjective
<1>3. IsInjective(r)
  <2>1. \A i, j \in DOMAIN r : r[i] = r[j] => i = j
    BY <1>1, <1>2
  <2> QED BY <2>1 DEF IsInjective
<1>4. ASSUME NEW k \in DOMAIN q, k # n PROVE q[k] \in ToSet(r)
  <2>1. CASE k < n
    BY <1>1, <1>4, <2>1 DEF ToSet
  <2>2. CASE k > n
    <3>1. k - 1 \in DOMAIN r /\ r[k - 1] = q[k]
      BY <1>1, <1>4, <2>2
    <3> QED BY <3>1 DEF ToSet
  <2> QED BY <1>1, <1>4, <2>1, <2>2
<1>5. \A j \in DOMAIN r : r[j] # q[n] /\ \E k \in DOMAIN q : r[j] = q[k]
  BY <1>1, <1>2
<1>6. ToSet(r) = ToSet(q) \ {q[n]}
  BY <1>4, <1>5 DEF ToSet
<1> QED BY <1>1, <1>3, <1>6 DEF r

\* _order.remove takes the job out, and changes nothing if it is not there.
LEMMA RemoveFirstIs ==
    ASSUME NEW q \in Seq(Nat), IsInjective(q), NEW e
    PROVE  /\ RemoveFirst(q, e) \in Seq(Nat) /\ IsInjective(RemoveFirst(q, e))
           /\ ToSet(RemoveFirst(q, e)) = ToSet(q) \ {e}
<1> DEFINE I == {n \in 1 .. Len(q) : q[n] = e}
<1>1. CASE I # {}
  <2>1. RemoveFirst(q, e) = RemoveAt(q, Min(I))
    BY <1>1 DEF RemoveFirst, SelectInSeq
  <2>2. I \in SUBSET Nat
    OBVIOUS
  <2>3. Min(I) \in I
    BY <1>1, <2>2, MinIn
  <2>4. Min(I) \in DOMAIN q /\ q[Min(I)] = e
    BY <2>3
  <2>5. /\ RemoveAt(q, Min(I)) \in Seq(Nat) /\ IsInjective(RemoveAt(q, Min(I)))
        /\ ToSet(RemoveAt(q, Min(I))) = ToSet(q) \ {q[Min(I)]}
    BY <2>4, RemoveAtIs
  <2> QED BY <2>1, <2>4, <2>5
<1>2. CASE I = {}
  <2>1. RemoveFirst(q, e) = q
    BY <1>2 DEF RemoveFirst
  <2>2. e \notin ToSet(q)
    BY <1>2 DEF ToSet
  <2> QED BY <2>1, <2>2
<1> QED BY <1>1, <1>2

\* A job put at the end of the queue.
LEMMA AppendIs ==
    ASSUME NEW q \in Seq(Nat), IsInjective(q), NEW e \in Nat, e \notin ToSet(q)
    PROVE  /\ Append(q, e) \in Seq(Nat) /\ IsInjective(Append(q, e))
           /\ ToSet(Append(q, e)) = ToSet(q) \cup {e}
<1>1. /\ DOMAIN Append(q, e) = 1 .. Len(q) + 1 /\ DOMAIN q = 1 .. Len(q) /\ Len(q) \in Nat
      /\ \A i \in 1 .. Len(q) : Append(q, e)[i] = q[i]
      /\ Append(q, e)[Len(q) + 1] = e
  OBVIOUS
<1> QED BY <1>1 DEF IsInjective, ToSet

-----------------------------------------------------------------------------
(***************************************************************************)
(* What each handler does to the broker's own state.                       *)
(***************************************************************************)

\* No job is forgotten, changes its key or payload, or stops being settled.
Kept ==
    \A i \in Jobs :
        /\ i \in Jobs'
        /\ job'[i].key = job[i].key /\ job'[i].payload = job[i].payload
        /\ job[i].state \in {"done", "dead"} => job'[i].state = job[i].state

BrokerOK == BrokerTypes /\ BrokerInv

\* One record of the broker is replaced by another of the same submit.
LEMMA JobUpdated ==
    ASSUME BrokerTypes, OneJobPerKey, NEW i \in Jobs, NEW r \in JobRecords,
           r.key = job[i].key, r.payload = job[i].payload,
           job' = [job EXCEPT ![i] = r]
    PROVE  /\ job' \in Seq(JobRecords) /\ Jobs' = Jobs
           /\ job'[i] = r /\ \A j \in Jobs \ {i} : job'[j] = job[j]
           /\ OneJobPerKey'
<1>1. job \in Seq(JobRecords) /\ i \in DOMAIN job
  BY DEF BrokerTypes, Jobs
<1>2. /\ job' \in Seq(JobRecords) /\ DOMAIN job' = DOMAIN job
      /\ job'[i] = r /\ \A j \in DOMAIN job \ {i} : job'[j] = job[j]
  BY <1>1, ExceptSeq
<1>3. \A j \in Jobs : job'[j].key = job[j].key /\ job'[j].payload = job[j].payload
  BY <1>2 DEF Jobs
<1>4. OneJobPerKey'
  BY <1>2, <1>3 DEF OneJobPerKey, Jobs
<1> QED BY <1>2, <1>4 DEF Jobs

\* _submit
LEMMA SubmitBroker ==
    ASSUME BrokerOK, NEW m \in SubmitRequests, Honest(m),
           \A i \in Jobs : job[i].key # m.key,
           job' = Append(job, [key |-> m.key, payload |-> m.payload, state |-> "queued",
                               attempts |-> 0, token |-> 0, ready |-> TRUE]),
           order' = Append(order, Len(job) + 1), timers' = timers
    PROVE  BrokerOK' /\ Kept /\ Len(job) + 1 \in Jobs'
           /\ \A i \in Jobs' : job'[i].state = "done" => i \in Jobs /\ job[i].state = "done"
<1>0. PICK new : new = Len(job) + 1
  OBVIOUS
<1> DEFINE r == [key |-> m.key, payload |-> m.payload, state |-> "queued",
                 attempts |-> 0, token |-> 0, ready |-> TRUE]
<1>1. r \in JobRecords /\ r.state = "queued" /\ r.key = m.key /\ r.payload = m.payload
  BY DEF SubmitRequests, JobRecords
<1> HIDE DEF r
<1>2. /\ job' \in Seq(JobRecords) /\ Jobs = 1 .. Len(job) /\ Jobs' = 1 .. Len(job) + 1
      /\ Len(job) \in Nat /\ new \in Nat
      /\ \A i \in Jobs : job'[i] = job[i]
      /\ job'[new] = r
  BY <1>0, <1>1 DEF BrokerOK, BrokerTypes, Jobs, r
<1>3. m.key = <<m.payload.value, 0>>
  BY DEF Honest, SubmitRequests
<1>4. OneJobPerKey'
  <2>1. \A i \in Jobs' : i \in Jobs \/ i = new
    BY <1>0, <1>2
  <2>2. \A i \in Jobs' : job'[i].key = <<job'[i].payload.value, 0>>
    BY <1>1, <1>2, <1>3, <2>1 DEF BrokerOK, BrokerInv, OneJobPerKey
  <2>3. \A i, j \in Jobs' : job'[i].key = job'[j].key => i = j
    BY <1>1, <1>2, <2>1 DEF BrokerOK, BrokerInv, OneJobPerKey
  <2> QED BY <2>2, <2>3 DEF OneJobPerKey
<1>5. order' \in Seq(Nat) /\ QueueHoldsQueued'
  <2>1. new \notin Jobs
    BY <1>0, <1>2
  <2>2. order \in Seq(Nat) /\ IsInjective(order) /\ new \notin ToSet(order)
    BY <2>1 DEF BrokerOK, BrokerTypes, BrokerInv, QueueHoldsQueued
  <2>3. order' \in Seq(Nat) /\ IsInjective(order') /\ ToSet(order') = ToSet(order) \cup {new}
    BY <1>0, <1>2, <2>2, AppendIs
  <2>4. {i \in Jobs' : job'[i].state = "queued"} = {i \in Jobs : job[i].state = "queued"} \cup {new}
    BY <1>0, <1>1, <1>2
  <2> QED BY <2>3, <2>4 DEF BrokerOK, BrokerInv, QueueHoldsQueued
<1>6. TimersWatch'
  <2>1. \A t \in timers : t.job \in Jobs /\ t.job # new
    BY <1>0, <1>2 DEF BrokerOK, BrokerInv, TimersWatch
  <2>2. Watched(new)'
    BY <1>1, <1>2, <2>1 DEF Watched, Armed
  <2>3. \A i \in Jobs : Watched(i)'
    BY <1>2 DEF BrokerOK, BrokerInv, TimersWatch, Watched, Armed
  <2> QED BY <1>0, <1>2, <2>1, <2>2, <2>3 DEF TimersWatch
<1>7. Kept
  BY <1>2 DEF Kept
<1> QED BY <1>0, <1>1, <1>2, <1>4, <1>5, <1>6, <1>7 DEF BrokerOK, BrokerTypes, BrokerInv

\* _lease
LEMMA LeaseBroker ==
    ASSUME BrokerOK, NEW i \in Jobs, job[i].state = "queued", Lease(i)
    PROVE  BrokerOK' /\ Kept
           /\ \A j \in Jobs' : job'[j].state = "done" => j \in Jobs /\ job[j].state = "done"
<1> DEFINE r == [job[i] EXCEPT !.state = "leased", !.token = job[i].token + 1,
                               !.attempts = job[i].attempts + 1]
           t == [job |-> i, token |-> job[i].token + 1, n |-> 0]
<1>0. job[i] \in JobRecords /\ i \in Nat
  BY DEF BrokerOK, BrokerTypes, Jobs
<1>1. /\ r \in JobRecords /\ r.state = "leased" /\ r.token = job[i].token + 1
      /\ r.key = job[i].key /\ r.payload = job[i].payload
  <2>1. job[i].token + 1 \in Nat /\ job[i].attempts + 1 \in Nat
    BY <1>0 DEF JobRecords
  <2> QED BY <1>0, <2>1, Zenon DEF JobRecords
<1>2. job' = [job EXCEPT ![i] = r] /\ timers' = timers \cup {t} /\ order' = RemoveFirst(order, i)
  BY <1>0, Zenon DEF Lease, JobRecords
<1>3. t \in Timers /\ t.job = i /\ t.token = job[i].token + 1
  BY <1>0 DEF Timers, JobRecords
<1> HIDE DEF r, t
<1>4. /\ job' \in Seq(JobRecords) /\ Jobs' = Jobs /\ OneJobPerKey'
      /\ job'[i] = r /\ \A j \in Jobs \ {i} : job'[j] = job[j]
  BY <1>1, <1>2, JobUpdated DEF BrokerOK, BrokerInv
<1>5. order' \in Seq(Nat) /\ QueueHoldsQueued'
  <2>1. order' \in Seq(Nat) /\ IsInjective(order') /\ ToSet(order') = ToSet(order) \ {i}
    BY <1>2, RemoveFirstIs DEF BrokerOK, BrokerTypes, BrokerInv, QueueHoldsQueued
  <2>2. {j \in Jobs' : job'[j].state = "queued"} = {j \in Jobs : job[j].state = "queued"} \ {i}
    BY <1>1, <1>4
  <2> QED BY <2>1, <2>2 DEF BrokerOK, BrokerInv, QueueHoldsQueued
<1>6. TimersWatch'
  <2>1. Watched(i)'
    <3>1. Armed(i) = {}
      BY DEF BrokerOK, BrokerInv, TimersWatch, Watched
    <3>2. Armed(i)' = {t}
      BY <1>2, <1>3, <3>1 DEF Armed
    <3> QED BY <1>1, <1>2, <1>3, <1>4, <3>2 DEF Watched
  <2>2. ASSUME NEW j \in Jobs, j # i PROVE Watched(j)'
    <3>1. Armed(j)' = Armed(j)
      BY <1>2, <1>3, <2>2 DEF Armed
    <3>2. Watched(j) /\ job'[j] = job[j]
      BY <1>4, <2>2 DEF BrokerOK, BrokerInv, TimersWatch
    <3> QED BY <1>2, <3>1, <3>2 DEF Watched
  <2>3. \A u \in timers' : u.job \in Jobs
    BY <1>2, <1>3 DEF BrokerOK, BrokerInv, TimersWatch
  <2> QED BY <1>4, <2>1, <2>2, <2>3 DEF TimersWatch
<1>7. Kept
  BY <1>1, <1>4 DEF Kept
<1>8. timers' \subseteq Timers
  BY <1>2, <1>3 DEF BrokerOK, BrokerTypes
<1> QED BY <1>1, <1>4, <1>5, <1>6, <1>7, <1>8 DEF BrokerOK, BrokerTypes, BrokerInv

\* A leased job's place among the timers: one, the one job.expiry refers to.
LEMMA LeaseTimer ==
    ASSUME BrokerOK, NEW i \in Jobs, job[i].state = "leased"
    PROVE  \E t \in timers : /\ Armed(i) = {t} /\ Expiry(i) = {t}
                             /\ t.job = i /\ t.token = job[i].token /\ t.n \in Nat
<1>1. PICK t \in timers : Armed(i) = {t} /\ t.token = job[i].token
  BY DEF BrokerOK, BrokerInv, TimersWatch, Watched
<1>2. t.job = i /\ t.n \in Nat
  BY <1>1 DEF Armed, BrokerOK, BrokerTypes, Timers
<1>3. \A u \in timers : u.job = i => u = t
  BY <1>1 DEF Armed
<1>4. Expiry(i) = {t}
  <2>1. t \in Expiry(i)
    BY <1>1, <1>2, <1>3 DEF Expiry
  <2>2. Expiry(i) \subseteq {t}
    BY <1>3 DEF Expiry
  <2> QED BY <2>1, <2>2
<1> QED BY <1>1, <1>2, <1>4

\* A lease that ends, by its timer or by its holder's word, leaves no timer.
LEMMA LeaseEnds ==
    ASSUME BrokerOK, NEW i \in Jobs, job[i].state = "leased",
           NEW t \in timers, Armed(i) = {t}, timers' = timers \ {t},
           NEW r \in JobRecords, r.state \in {"done", "dead", "queued"},
           r.key = job[i].key, r.payload = job[i].payload,
           job' = [job EXCEPT ![i] = r],
           order' \in Seq(Nat), IsInjective(order'),
           ToSet(order') = IF r.state = "queued" THEN ToSet(order) \cup {i} ELSE ToSet(order)
    PROVE  /\ BrokerOK' /\ Kept /\ Jobs' = Jobs
           /\ job'[i] = r /\ \A j \in Jobs \ {i} : job'[j] = job[j]
<1>1. /\ job' \in Seq(JobRecords) /\ Jobs' = Jobs /\ OneJobPerKey'
      /\ job'[i] = r /\ \A j \in Jobs \ {i} : job'[j] = job[j]
  BY JobUpdated DEF BrokerOK, BrokerInv
<1>2. QueueHoldsQueued'
  <2>1. {j \in Jobs' : job'[j].state = "queued"} =
          IF r.state = "queued" THEN {j \in Jobs : job[j].state = "queued"} \cup {i}
                                ELSE {j \in Jobs : job[j].state = "queued"}
    BY <1>1
  <2> QED BY <2>1 DEF BrokerOK, BrokerInv, QueueHoldsQueued
<1>3. TimersWatch'
  <2>1. Watched(i)'
    <3>1. Armed(i)' = {}
      BY DEF Armed
    <3> QED BY <1>1, <3>1 DEF Watched
  <2>2. ASSUME NEW j \in Jobs, j # i PROVE Watched(j)'
    <3>1. Armed(j)' = Armed(j)
      BY <2>2 DEF Armed
    <3>2. Watched(j) /\ job'[j] = job[j]
      BY <1>1, <2>2 DEF BrokerOK, BrokerInv, TimersWatch
    <3>3. CASE job[j].state = "leased"
      <4>1. PICK u \in timers : Armed(j) = {u} /\ u.token = job[j].token
        BY <3>2, <3>3 DEF Watched
      <4>2. u \in timers'
        BY <3>1, <4>1 DEF Armed
      <4> QED BY <3>1, <3>2, <3>3, <4>1, <4>2 DEF Watched
    <3>4. CASE job[j].state # "leased"
      BY <3>1, <3>2, <3>4 DEF Watched
    <3> QED BY <3>3, <3>4
  <2>3. \A u \in timers' : u.job \in Jobs
    BY DEF BrokerOK, BrokerInv, TimersWatch
  <2> QED BY <1>1, <2>1, <2>2, <2>3 DEF TimersWatch
<1>4. Kept
  BY <1>1 DEF Kept
<1> QED BY <1>1, <1>2, <1>3, <1>4 DEF BrokerOK, BrokerTypes, BrokerInv

\* _expire: the timer that fires is the present lease's, and the job is requeued
\* or dead.
LEMMA ExpireBroker ==
    ASSUME BrokerOK, NEW t \in timers, Expire(t)
    PROVE  BrokerOK' /\ Kept
           /\ \A j \in Jobs' : job'[j].state = "done" => j \in Jobs /\ job[j].state = "done"
<1>1. t.job \in Jobs /\ t \in Armed(t.job)
  BY DEF BrokerOK, BrokerInv, TimersWatch, Armed
<1>2. PICK i \in Jobs : i = t.job
  BY <1>1
<1>3. job[i].state = "leased"
  BY <1>1, <1>2 DEF BrokerOK, BrokerInv, TimersWatch, Watched
<1>4. Armed(i) = {t} /\ t.token = job[i].token
  BY <1>1, <1>2, <1>3, LeaseTimer
<1>5. i \notin ToSet(order) /\ order \in Seq(Nat) /\ IsInjective(order) /\ i \in Nat
      /\ job[i] \in JobRecords
  BY <1>3 DEF BrokerOK, BrokerTypes, BrokerInv, QueueHoldsQueued, Jobs
<1>6. timers' = timers \ {t} /\ Is(t.job, {"leased"}) /\ job[t.job].token = t.token
  BY <1>1, <1>2, <1>3, <1>4 DEF Expire, Is
<1>7. CASE job[t.job].attempts >= MaxAttempts
  <2> DEFINE r == [job[i] EXCEPT !.state = "dead"]
  <2>1. r \in JobRecords /\ r.state = "dead" /\ r.key = job[i].key /\ r.payload = job[i].payload
    BY <1>5, Zenon DEF JobRecords
  <2>2. job' = [job EXCEPT ![i] = r] /\ order' = order
    BY <1>2, <1>6, <1>7, Zenon DEF Expire
  <2> HIDE DEF r
  <2>3. /\ BrokerOK' /\ Kept /\ Jobs' = Jobs
        /\ job'[i] = r /\ \A j \in Jobs \ {i} : job'[j] = job[j]
    BY <1>3, <1>4, <1>5, <1>6, <2>1, <2>2, LeaseEnds
  <2> QED BY <2>1, <2>3
<1>8. CASE ~(job[t.job].attempts >= MaxAttempts)
  <2> DEFINE r == [job[i] EXCEPT !.state = "queued", !.ready = FALSE]
  <2>1. r \in JobRecords /\ r.state = "queued" /\ r.key = job[i].key /\ r.payload = job[i].payload
    BY <1>5, Zenon DEF JobRecords
  <2>2. job' = [job EXCEPT ![i] = r] /\ order' = Append(order, i)
    BY <1>2, <1>5, <1>6, <1>8, Zenon DEF Expire, JobRecords
  <2> HIDE DEF r
  <2>3. order' \in Seq(Nat) /\ IsInjective(order') /\ ToSet(order') = ToSet(order) \cup {i}
    BY <1>5, <2>2, AppendIs
  <2>4. /\ BrokerOK' /\ Kept /\ Jobs' = Jobs
        /\ job'[i] = r /\ \A j \in Jobs \ {i} : job'[j] = job[j]
    BY <1>3, <1>4, <1>6, <2>1, <2>2, <2>3, LeaseEnds
  <2> QED BY <2>1, <2>4
<1> QED BY <1>7, <1>8

\* The end of a backoff changes nothing else.
LEMMA BackoffBroker ==
    ASSUME BrokerOK, NEW i \in Jobs, BackoffOver(i)
    PROVE  BrokerOK' /\ Kept
           /\ \A j \in Jobs' : job'[j].state = "done" => j \in Jobs /\ job[j].state = "done"
<1> DEFINE r == [job[i] EXCEPT !.ready = TRUE]
<1>1. job[i] \in JobRecords
  BY DEF BrokerOK, BrokerTypes, Jobs
<1>2. /\ r \in JobRecords /\ r.state = job[i].state /\ r.token = job[i].token
      /\ r.key = job[i].key /\ r.payload = job[i].payload
  BY <1>1, Zenon DEF JobRecords
<1>3. job' = [job EXCEPT ![i] = r] /\ order' = order /\ timers' = timers
  BY Zenon DEF BackoffOver
<1> HIDE DEF r
<1>4. /\ job' \in Seq(JobRecords) /\ Jobs' = Jobs /\ OneJobPerKey'
      /\ job'[i] = r /\ \A j \in Jobs \ {i} : job'[j] = job[j]
  BY <1>2, <1>3, JobUpdated DEF BrokerOK, BrokerInv
<1>5. \A j \in Jobs : job'[j].state = job[j].state /\ job'[j].token = job[j].token
  BY <1>2, <1>4
<1>6. QueueHoldsQueued'
  BY <1>3, <1>4, <1>5 DEF BrokerOK, BrokerInv, QueueHoldsQueued
<1>7. TimersWatch'
  BY <1>3, <1>4, <1>5 DEF BrokerOK, BrokerInv, TimersWatch, Watched, Armed
<1>8. Kept
  BY <1>2, <1>4 DEF Kept
<1> QED BY <1>3, <1>4, <1>5, <1>6, <1>7, <1>8 DEF BrokerOK, BrokerTypes, BrokerInv

\* _renew: the lease's timer is replaced by a new one of the same lease.
LEMMA RenewBroker ==
    ASSUME BrokerOK, NEW x, HandleRenew(x)
    PROVE  BrokerOK'
<1>1. job' = job /\ order' = order
  BY DEF HandleRenew
<1>2. PICK i : i = x.req.job
  OBVIOUS
<1>3. CASE Is(i, {"leased"}) /\ (fencing => x.req.token = job[i].token)
  <2>1. i \in Jobs /\ job[i].state = "leased"
    BY <1>3 DEF Is
  <2>2. PICK t \in timers : /\ Armed(i) = {t} /\ Expiry(i) = {t}
                            /\ t.job = i /\ t.token = job[i].token /\ t.n \in Nat
    BY <2>1, LeaseTimer
  <2>3. PICK u : u = [job |-> i, token |-> job[i].token, n |-> t.n + 1]
    OBVIOUS
  <2>4. timers' = (timers \ {t}) \cup {u}
    BY <1>2, <1>3, <2>2, <2>3 DEF HandleRenew, Cancelled
  <2>5. u \in Timers /\ u.job = i /\ u.token = job[i].token
    <3>1. i \in Nat /\ job[i] \in JobRecords
      BY <2>1 DEF BrokerOK, BrokerTypes, Jobs
    <3> QED BY <2>2, <2>3, <3>1 DEF Timers, JobRecords
  <2>6. Watched(i)'
    <3>1. Armed(i)' = {u}
      BY <2>2, <2>4, <2>5 DEF Armed
    <3> QED BY <1>1, <2>1, <2>4, <2>5, <3>1 DEF Watched
  <2>7. ASSUME NEW j \in Jobs, j # i PROVE Watched(j)'
    <3>1. Armed(j)' = Armed(j) /\ t \notin Armed(j)
      BY <2>2, <2>4, <2>5, <2>7 DEF Armed
    <3>2. Watched(j)
      BY <2>7 DEF BrokerOK, BrokerInv, TimersWatch
    <3>3. CASE job[j].state = "leased"
      <4>1. PICK v \in timers : Armed(j) = {v} /\ v.token = job[j].token
        BY <3>2, <3>3 DEF Watched
      <4>2. v \in timers'
        BY <2>4, <3>1, <4>1
      <4> QED BY <1>1, <3>1, <3>3, <4>1, <4>2 DEF Watched
    <3>4. CASE job[j].state # "leased"
      BY <1>1, <3>1, <3>2, <3>4 DEF Watched
    <3> QED BY <3>3, <3>4
  <2>8. TimersWatch'
    BY <1>1, <2>1, <2>4, <2>5, <2>6, <2>7 DEF BrokerOK, BrokerInv, TimersWatch, Jobs
  <2> QED
    BY <1>1, <2>4, <2>5, <2>8 DEF BrokerOK, BrokerTypes, BrokerInv, OneJobPerKey,
       QueueHoldsQueued, Jobs
<1>4. CASE ~(Is(i, {"leased"}) /\ (fencing => x.req.token = job[i].token))
  <2>1. timers' = timers
    BY <1>2, <1>4 DEF HandleRenew
  <2> QED
    BY <1>1, <2>1 DEF BrokerOK, BrokerTypes, BrokerInv, OneJobPerKey, QueueHoldsQueued,
       TimersWatch, Watched, Armed, Jobs
<1> QED BY <1>3, <1>4

\* _complete: the one job it makes done was leased.
LEMMA CompleteBroker ==
    ASSUME BrokerOK, NEW x, HandleComplete(x), NEW i, i = x.req.job, Completes(i, x.req.token)
    PROVE  BrokerOK' /\ Kept
           /\ \A j \in Jobs' : job'[j].state = "done" => j = i \/ (j \in Jobs /\ job[j].state = "done")
<1>1. i \in Jobs /\ job[i].state = "leased"
  BY DEF Completes, Is, fencing
<1>2. PICK t \in timers : Armed(i) = {t} /\ Expiry(i) = {t}
  BY <1>1, LeaseTimer
<1>3. timers' = timers \ {t} /\ order' = RemoveFirst(order, i)
  BY <1>2, Zenon DEF HandleComplete, Cancelled
<1>4. i \notin ToSet(order) /\ order \in Seq(Nat) /\ IsInjective(order) /\ job[i] \in JobRecords
  BY <1>1 DEF BrokerOK, BrokerTypes, BrokerInv, QueueHoldsQueued, Jobs
<1>5. order' \in Seq(Nat) /\ IsInjective(order') /\ ToSet(order') = ToSet(order)
  <2>1. /\ RemoveFirst(order, i) \in Seq(Nat) /\ IsInjective(RemoveFirst(order, i))
        /\ ToSet(RemoveFirst(order, i)) = ToSet(order) \ {i}
    BY <1>4, RemoveFirstIs, Zenon
  <2>2. ToSet(order) \ {i} = ToSet(order)
    BY <1>4
  <2> QED BY <1>3, <2>1, <2>2, Zenon
<1> DEFINE r == [job[i] EXCEPT !.state = "done"]
<1>6. r \in JobRecords /\ r.state = "done" /\ r.key = job[i].key /\ r.payload = job[i].payload
  BY <1>4, Zenon DEF JobRecords
<1>7. job' = [job EXCEPT ![i] = r]
  BY Zenon DEF HandleComplete
<1> HIDE DEF r
<1>8. /\ BrokerOK' /\ Kept /\ Jobs' = Jobs
      /\ job'[i] = r /\ \A j \in Jobs \ {i} : job'[j] = job[j]
  BY <1>1, <1>2, <1>3, <1>5, <1>6, <1>7, LeaseEnds
<1> QED BY <1>8

-----------------------------------------------------------------------------
(***************************************************************************)
(* The broker's side of a call: it answers, or holds, requests that exist. *)
(***************************************************************************)

\* An answer that suits the request: a job, a lease or nothing, or any word on
\* a completion.
Fits(m, r) ==
    /\ m.op = "submit" => r \in Jobs'
    /\ m.op = "acquire" => r = NoJob \/ r \in [job : Jobs', token : Nat]

Answering ==
    /\ call' \in [Keys \cup Workers -> Calls] /\ late' \subseteq Sent
    /\ \A c \in Keys \cup Workers :
          \/ call'[c] = call[c]
          \/ /\ call[c].st \in {"asked", "held"} /\ call'[c].st = "held"
             /\ call'[c].req = call[c].req
          \/ /\ call[c].st \in {"asked", "held"} /\ call'[c].st = "answered"
             /\ Fits(call[c].req, call'[c].reply)
    /\ \A x \in late' : \E y \in late : x.req = y.req

\* What a call and its request are, told by the fields that tell them apart.
LEMMA CallShapes ==
    ASSUME NEW x \in Calls
    PROVE  /\ x.st \in {"none", "asked", "held", "answered"}
           /\ x.st \in {"asked", "held"} => x \in Sent
           /\ x.st \notin {"none", "answered"} => x \in Sent
           /\ x.st = "none" => x = NoCall
<1>1. CASE x = NoCall
  BY <1>1 DEF NoCall
<1>2. CASE x \in Sent
  BY <1>2 DEF Sent
<1>3. CASE x \in [st : {"answered"}, reply : Replies]
  BY <1>3
<1> QED BY <1>1, <1>2, <1>3 DEF Calls

LEMMA RequestShapes ==
    ASSUME NEW m \in Requests
    PROVE  /\ m.op = "submit" => m \in SubmitRequests
           /\ m.op = "renew" => m \in RenewRequests
           /\ m.op = "complete" => m \in CompleteRequests
<1>1. CASE m \in SubmitRequests
  BY <1>1 DEF SubmitRequests
<1>2. CASE m \in AcquireRequests
  BY <1>2 DEF AcquireRequests
<1>3. CASE m \in RenewRequests
  BY <1>3 DEF RenewRequests
<1>4. CASE m \in CompleteRequests
  BY <1>4 DEF CompleteRequests
<1> QED BY <1>1, <1>2, <1>3, <1>4 DEF Requests

\* Every pending request is typed and honest.
LEMMA PendingShapes ==
    ASSUME JobQueueInv, NEW x \in Pending
    PROVE  x \in Sent /\ x.st \in {"asked", "held"} /\ x.req \in Requests /\ Honest(x.req)
<1>1. CASE x \in late
  BY <1>1 DEF JobQueueInv, TypeOK, CallerTypes, RequestsHonest, Sent
<1>2. CASE \E c \in Keys \cup Workers : x = call[c] /\ call[c].st \in {"asked", "held"}
  <2>1. PICK c \in Keys \cup Workers : x = call[c] /\ call[c].st \in {"asked", "held"}
    BY <1>2
  <2>2. call[c] \in Calls /\ Honest(call[c].req)
    BY <2>1 DEF JobQueueInv, TypeOK, CallerTypes, RequestsHonest
  <2>3. x \in Sent
    BY <2>1, <2>2, CallShapes
  <2> QED BY <2>1, <2>2, <2>3 DEF Sent
<1> QED BY <1>1, <1>2 DEF Pending

\* _handle writes its answer to whoever waits for it.
LEMMA RespondAnswers ==
    ASSUME JobQueueInv, NEW x \in Pending, NEW r \in Replies, Fits(x.req, r), Respond(x, r)
    PROVE  Answering
<1>1. call \in [Keys \cup Workers -> Calls] /\ late \subseteq Sent /\ x.st \in {"asked", "held"}
  BY PendingShapes DEF JobQueueInv, TypeOK, CallerTypes
<1>2. CASE late' = late \ {x} /\ call' = call
  BY <1>1, <1>2 DEF Answering
<1>3. CASE \E c \in Keys \cup Workers :
              call[c] = x /\ call' = [call EXCEPT ![c] = Answered(r)] /\ late' = late
  <2>1. PICK c \in Keys \cup Workers :
              call[c] = x /\ call' = [call EXCEPT ![c] = Answered(r)] /\ late' = late
    BY <1>3
  <2>2. Answered(r) \in Calls /\ Answered(r).st = "answered" /\ Answered(r).reply = r
    BY DEF Answered, Calls
  <2> QED BY <1>1, <2>1, <2>2 DEF Answering
<1> QED BY <1>2, <1>3 DEF Respond

\* A step of the broker that answers suitably, keeps its own state in order and
\* calls done only what is committed keeps everything.
LEMMA AnsweringKeeps ==
    ASSUME JobQueueInv, Answering, BrokerOK', Kept,
           \A j \in Jobs' : job'[j].state = "done" => j \in Committed,
           UNCHANGED <<storeVars, client, worker, renewed, faults>>
    PROVE  JobQueueInv'
<1>1. /\ newest' = newest /\ commits' = commits /\ client' = client /\ worker' = worker
      /\ renewed' = renewed /\ faults' = faults
  BY DEF storeVars
<1>2. Committed' = Committed
  BY <1>1 DEF Committed
<1>3. \A i \in Jobs : i \in Jobs' /\ job'[i].payload = job[i].payload
  BY DEF Kept
<1>4. TypeOK'
  BY <1>1 DEF JobQueueInv, TypeOK, BrokerOK, StoreTypes, MaxJobs, CallerTypes, Answering
<1>5. StoreInv'
  <2>1. EffectsOfJobs'
    BY <1>1, <1>3 DEF JobQueueInv, StoreInv, EffectsOfJobs
  <2>2. DoneIsCommitted'
    BY <1>2 DEF DoneIsCommitted
  <2> QED BY <2>1, <2>2 DEF StoreInv
<1>6. RequestsHonest'
  <2>1. \A m : Honest(m)' <=> Honest(m)
    BY <1>2 DEF Honest
  <2>2. \A x \in late' : Honest(x.req)
    BY DEF Answering, JobQueueInv, RequestsHonest
  <2>3. ASSUME NEW c \in Keys \cup Workers, call'[c].st \in {"asked", "held"}
        PROVE  Honest(call'[c].req)
    BY <2>3 DEF Answering, JobQueueInv, RequestsHonest
  <2> QED BY <2>1, <2>2, <2>3 DEF RequestsHonest
<1>7. ASSUME NEW k \in Keys PROVE ClientMatches(k)'
  <2>1. ClientMatches(k)
    BY DEF JobQueueInv, CallsMatch
  <2>2. \/ call'[k] = call[k]
        \/ /\ call[k].st \in {"asked", "held"} /\ call'[k].st = "held"
           /\ call'[k].req = call[k].req
        \/ /\ call[k].st \in {"asked", "held"} /\ call'[k].st = "answered"
           /\ call[k].req.op = "submit" => call'[k].reply \in Jobs'
    BY DEF Answering, Fits
  <2> QED BY <1>1, <1>3, <2>1, <2>2 DEF ClientMatches
<1>8. ASSUME NEW w \in Workers PROVE WorkerMatches(w)'
  <2>1. WorkerMatches(w)
    BY DEF JobQueueInv, CallsMatch
  <2>2. \A r \in [job : Jobs, token : Nat] : r \in [job : Jobs', token : Nat]
    BY <1>3
  <2>3. CASE call'[w] = call[w]
    BY <1>1, <1>2, <1>3, <2>1, <2>2, <2>3 DEF WorkerMatches, NoJob
  <2>4. CASE /\ call[w].st \in {"asked", "held"} /\ call'[w].st = "held"
             /\ call'[w].req = call[w].req
    BY <1>1, <1>2, <1>3, <2>1, <2>4 DEF WorkerMatches
  <2>5. CASE /\ call[w].st \in {"asked", "held"} /\ call'[w].st = "answered"
             /\ Fits(call[w].req, call'[w].reply)
    BY <1>1, <1>2, <1>3, <2>1, <2>5 DEF WorkerMatches, Fits, NoJob
  <2> QED BY <2>3, <2>4, <2>5 DEF Answering
<1>9. AnswerStands'
  <2>1. ASSUME NEW k \in Keys, client[k].st \in {"done", "dead"}
        PROVE  job'[client[k].job].state = client[k].st
    <3>1. client[k].job \in Jobs /\ job[client[k].job].state = client[k].st
      BY <2>1 DEF JobQueueInv, CallsMatch, ClientMatches, AnswerStands
    <3> QED BY <2>1, <3>1 DEF Kept
  <2> QED BY <1>1, <2>1 DEF AnswerStands
<1> QED BY <1>4, <1>5, <1>6, <1>7, <1>8, <1>9 DEF JobQueueInv, CallsMatch, BrokerOK

\* A step that leaves the broker's records alone keeps what they say.
LEMMA RecordsKept ==
    ASSUME JobQueueInv, job' = job
    PROVE  Kept /\ \A j \in Jobs' : job'[j].state = "done" => j \in Committed
BY DEF Kept, Jobs, JobQueueInv, StoreInv, DoneIsCommitted

LEMMA BrokerUnchanged ==
    ASSUME JobQueueInv, UNCHANGED brokerVars
    PROVE  BrokerOK' /\ Kept /\ \A j \in Jobs' : job'[j].state = "done" => j \in Committed
<1>1. job' = job /\ order' = order /\ timers' = timers
  BY DEF brokerVars
<1>2. BrokerTypes' /\ OneJobPerKey' /\ QueueHoldsQueued'
  BY <1>1 DEF JobQueueInv, TypeOK, BrokerTypes, BrokerInv, OneJobPerKey, QueueHoldsQueued, Jobs
<1>3. TimersWatch'
  BY <1>1 DEF JobQueueInv, BrokerInv, TimersWatch, Watched, Armed, Jobs
<1> QED BY <1>1, <1>2, <1>3, RecordsKept DEF BrokerOK, BrokerInv

\* Nothing the broker had called done is news to the store.
LEMMA DoneBefore ==
    ASSUME JobQueueInv,
           \A j \in Jobs' : job'[j].state = "done" => j \in Jobs /\ job[j].state = "done"
    PROVE  \A j \in Jobs' : job'[j].state = "done" => j \in Committed
BY DEF JobQueueInv, StoreInv, DoneIsCommitted

LEMMA BrokerIsOK ==
    ASSUME JobQueueInv
    PROVE  BrokerOK
BY DEF JobQueueInv, TypeOK, BrokerOK

LEMMA SubmitStep ==
    ASSUME JobQueueInv, NEW x \in Pending, HandleSubmit(x)
    PROVE  JobQueueInv'
<1>1. x.req \in SubmitRequests /\ Honest(x.req) /\ x.req.op = "submit"
  BY PendingShapes, RequestShapes DEF HandleSubmit
<1>2. UNCHANGED <<storeVars, client, worker, renewed, faults>> /\ timers' = timers
  BY DEF HandleSubmit
<1> DEFINE known == {i \in Jobs : job[i].key = x.req.key}
<1>3. CASE known # {}
  <2>1. PICK r \in known : Respond(x, r) /\ job' = job /\ order' = order
    <3>1. (CHOOSE i \in known : TRUE) \in known
      BY <1>3
    <3> QED BY <1>3, <3>1 DEF HandleSubmit
  <2>2. r \in Jobs' /\ r \in Nat
    BY <2>1 DEF Jobs, JobQueueInv, TypeOK, BrokerTypes
  <2>3. Answering
    BY <1>1, <2>1, <2>2, RespondAnswers DEF Fits, Replies
  <2>4. UNCHANGED brokerVars
    BY <1>2, <2>1 DEF brokerVars
  <2> QED BY <1>2, <2>3, <2>4, BrokerUnchanged, AnsweringKeeps
<1>4. CASE known = {}
  <2>1. /\ Respond(x, Len(job) + 1)
        /\ job' = Append(job, [key |-> x.req.key, payload |-> x.req.payload, state |-> "queued",
                               attempts |-> 0, token |-> 0, ready |-> TRUE])
        /\ order' = Append(order, Len(job) + 1)
    BY <1>4 DEF HandleSubmit
  <2>2. /\ BrokerOK' /\ Kept /\ Len(job) + 1 \in Jobs'
        /\ \A i \in Jobs' : job'[i].state = "done" => i \in Jobs /\ job[i].state = "done"
    BY <1>1, <1>2, <1>4, <2>1, SubmitBroker, BrokerIsOK
  <2>3. Len(job) + 1 \in Replies
    BY DEF Replies, JobQueueInv, TypeOK, BrokerTypes
  <2>4. Answering
    BY <1>1, <2>1, <2>2, <2>3, RespondAnswers DEF Fits
  <2> QED BY <1>2, <2>2, <2>4, DoneBefore, AnsweringKeeps
<1> QED BY <1>3, <1>4

LEMMA AcquireStep ==
    ASSUME JobQueueInv, NEW x \in Pending, HandleAcquire(x)
    PROVE  JobQueueInv'
<1>1. x \in Sent /\ x.req \in Requests /\ x.req.op = "acquire"
  BY PendingShapes DEF HandleAcquire
<1>2. UNCHANGED <<storeVars, client, worker, renewed, faults>>
  BY DEF HandleAcquire
<1>3. CASE /\ NextReady # 0
           /\ Lease(order[NextReady])
           /\ Respond(x, [job |-> order[NextReady], token |-> job[order[NextReady]].token + 1])
  <2>1. NextReady \in DOMAIN order /\ Ready(order[NextReady])
    BY <1>3, NextReadyIs DEF JobQueueInv, TypeOK, BrokerTypes
  <2>2. PICK i \in Jobs : i = order[NextReady] /\ job[i].state = "queued"
    BY <2>1 DEF JobQueueInv, BrokerInv, QueueHoldsQueued, ToSet
  <2>3. /\ BrokerOK' /\ Kept
        /\ \A j \in Jobs' : job'[j].state = "done" => j \in Jobs /\ job[j].state = "done"
    BY <1>3, <2>2, BrokerIsOK, LeaseBroker
  <2>4. i \in Nat /\ i \in Jobs' /\ job[i].token + 1 \in Nat
    <3>1. i \in Nat /\ job[i] \in JobRecords
      BY <2>2 DEF Jobs, JobQueueInv, TypeOK, BrokerTypes
    <3> QED BY <2>2, <2>3, <3>1 DEF Kept, JobRecords
  <2> DEFINE r == [job |-> i, token |-> job[i].token + 1]
  <2>5. r \in Replies /\ Fits(x.req, r)
    BY <1>1, <2>4 DEF Replies, Fits
  <2>6. Answering
    BY <1>3, <2>2, <2>5, RespondAnswers
  <2> QED BY <1>2, <2>3, <2>6, DoneBefore, AnsweringKeeps
<1> DEFINE h == Held(x.req)
<1>a. h \in Sent /\ h.st = "held" /\ h.req = x.req /\ h \in Calls
  BY <1>1 DEF Held, Sent, Calls
<1>b. call \in [Keys \cup Workers -> Calls] /\ late \subseteq Sent
  BY DEF JobQueueInv, TypeOK, CallerTypes
<1> HIDE DEF h
<1>4. CASE /\ x \in late /\ late' = (late \ {x}) \cup {h} /\ call' = call
           /\ UNCHANGED brokerVars
  <2>1. \A y \in late' : y \in Sent /\ \E z \in late : y.req = z.req
    BY <1>4, <1>a, <1>b
  <2>2. Answering
    BY <1>4, <1>b, <2>1 DEF Answering
  <2> QED BY <1>2, <1>4, <2>2, BrokerUnchanged, AnsweringKeeps
<1>6. CASE /\ x.st = "asked" /\ UNCHANGED brokerVars
           /\ \E c \in Workers : call[c] = x /\ call' = [call EXCEPT ![c] = h] /\ late' = late
  <2>1. PICK c \in Workers : call[c] = x /\ call' = [call EXCEPT ![c] = h] /\ late' = late
    BY <1>6
  <2>2. call' \in [Keys \cup Workers -> Calls]
    BY <1>a, <1>b, <2>1
  <2>3. \A d \in Keys \cup Workers :
          call'[d] = call[d] \/ (call[d].st = "asked" /\ call'[d].st = "held" /\ call'[d].req = call[d].req)
    BY <1>6, <1>a, <1>b, <2>1
  <2>4. Answering
    BY <1>b, <2>1, <2>2, <2>3 DEF Answering
  <2> QED BY <1>2, <1>6, <2>4, BrokerUnchanged, AnsweringKeeps
<1>5. CASE x.st = "held" /\ Respond(x, NoJob) /\ UNCHANGED brokerVars
  <2>1. NoJob \in Replies /\ Fits(x.req, NoJob)
    BY <1>1 DEF NoJob, Replies, Fits
  <2>2. Answering
    BY <1>5, <2>1, RespondAnswers
  <2> QED BY <1>2, <1>5, <2>2, BrokerUnchanged, AnsweringKeeps
<1> QED BY <1>3, <1>4, <1>5, <1>6 DEF HandleAcquire, h

LEMMA NobodyAnswered ==
    ASSUME JobQueueInv, call' = call, late' \subseteq late
    PROVE  Answering
BY DEF Answering, JobQueueInv, TypeOK, CallerTypes

LEMMA RenewStep ==
    ASSUME JobQueueInv, NEW x \in Pending, HandleRenew(x)
    PROVE  JobQueueInv'
<1>1. /\ UNCHANGED <<storeVars, client, worker, renewed, faults>>
      /\ call' = call /\ job' = job /\ late' \subseteq late
  BY DEF HandleRenew
<1> QED BY <1>1, NobodyAnswered, BrokerIsOK, RenewBroker, RecordsKept, AnsweringKeeps

LEMMA CompleteStep ==
    ASSUME JobQueueInv, NEW x \in Pending, HandleComplete(x)
    PROVE  JobQueueInv'
<1>1. x.req.op = "complete" /\ x.req.job \in Committed
  BY PendingShapes DEF HandleComplete, Honest
<1>2. UNCHANGED <<storeVars, client, worker, renewed, faults>>
  BY DEF HandleComplete
<1>3. PICK i : i = x.req.job
  OBVIOUS
<1>4. PICK r \in BOOLEAN : Respond(x, r)
  BY Zenon DEF HandleComplete
<1>5. Answering
  BY <1>1, <1>4, RespondAnswers DEF Fits, Replies
<1>6. CASE Completes(i, x.req.token)
  <2>1. /\ BrokerOK' /\ Kept
        /\ \A j \in Jobs' : job'[j].state = "done" => j = i \/ (j \in Jobs /\ job[j].state = "done")
    BY <1>3, <1>6, BrokerIsOK, CompleteBroker
  <2>2. \A j \in Jobs' : job'[j].state = "done" => j \in Committed
    BY <1>1, <1>3, <2>1 DEF JobQueueInv, StoreInv, DoneIsCommitted
  <2> QED BY <1>2, <1>5, <2>1, <2>2, AnsweringKeeps
<1>7. CASE ~Completes(i, x.req.token)
  <2>1. UNCHANGED brokerVars
    BY <1>3, <1>7, Zenon DEF HandleComplete
  <2> QED BY <1>2, <1>5, <2>1, BrokerUnchanged, AnsweringKeeps
<1> QED BY <1>6, <1>7

LEMMA TimerStep ==
    ASSUME JobQueueInv, TimerFires
    PROVE  JobQueueInv'
<1>1. ASSUME NEW t \in timers, Expire(t) PROVE JobQueueInv'
  <2>1. UNCHANGED <<storeVars, client, worker, call, late, renewed, faults>>
    BY <1>1, Zenon DEF Expire
  <2> QED
    BY <1>1, <2>1, BrokerIsOK, ExpireBroker, DoneBefore, NobodyAnswered, AnsweringKeeps
<1>2. ASSUME NEW i \in Jobs, BackoffOver(i) PROVE JobQueueInv'
  <2>1. UNCHANGED <<storeVars, client, worker, call, late, renewed, faults>>
    BY <1>2, Zenon DEF BackoffOver
  <2> QED
    BY <1>2, <2>1, BrokerIsOK, BackoffBroker, DoneBefore, NobodyAnswered, AnsweringKeeps
<1> QED BY <1>1, <1>2 DEF TimerFires

-----------------------------------------------------------------------------
(***************************************************************************)
(* The callers' side.                                                      *)
(***************************************************************************)

\* A request given up joins the late ones, as it was.
Abandons(c) ==
    \A x \in late' : x \in late \/ (x = call[c] /\ call[c].st \in {"asked", "held"})

\* A client's step that leaves it and its call in accord keeps everything.
LEMMA ClientKeeps ==
    ASSUME JobQueueInv, UNCHANGED <<brokerVars, storeVars, worker, renewed>>,
           faults' \in 0 .. MaxFaults,
           NEW k \in Keys, NEW r \in ClientRecords, NEW y \in Calls,
           client' = [client EXCEPT ![k] = r], call' = [call EXCEPT ![k] = y], Abandons(k),
           y.st \in {"asked", "held"} => Honest(y.req),
           ClientMatches(k)',
           r.st \in {"done", "dead"} => job[r.job].state = r.st
    PROVE  JobQueueInv'
<1>1. /\ job' = job /\ order' = order /\ timers' = timers /\ newest' = newest
      /\ commits' = commits /\ worker' = worker /\ renewed' = renewed
  BY DEF brokerVars, storeVars
<1>2. BrokerTypes' /\ BrokerInv'
  BY BrokerUnchanged DEF BrokerOK
<1>3. Committed' = Committed /\ Jobs' = Jobs
  BY <1>1 DEF Committed, Jobs
<1>4. /\ client \in [Keys -> ClientRecords] /\ call \in [Keys \cup Workers -> Calls]
      /\ late \subseteq Sent /\ k \notin Workers
  BY JobQueueAssumption DEF JobQueueInv, TypeOK, CallerTypes
<1>5. late' \subseteq Sent
  BY <1>4, CallShapes DEF Abandons
<1>6. TypeOK'
  BY <1>1, <1>2, <1>4, <1>5 DEF JobQueueInv, TypeOK, StoreTypes, MaxJobs, CallerTypes
<1>7. StoreInv'
  BY <1>1, <1>3 DEF JobQueueInv, StoreInv, EffectsOfJobs, DoneIsCommitted
<1>8. RequestsHonest'
  <2>1. \A m : Honest(m)' <=> Honest(m)
    BY <1>3 DEF Honest
  <2>2. \A x \in late' : Honest(x.req)
    BY DEF JobQueueInv, RequestsHonest, Abandons
  <2>3. \A c \in Keys \cup Workers : call'[c].st \in {"asked", "held"} => Honest(call'[c].req)
    BY <1>4 DEF JobQueueInv, RequestsHonest
  <2> QED BY <2>1, <2>2, <2>3 DEF RequestsHonest
<1>9. CallsMatch'
  <2>1. ASSUME NEW j \in Keys, j # k PROVE ClientMatches(j)'
    <3>1. ClientMatches(j) /\ client'[j] = client[j] /\ call'[j] = call[j]
      BY <1>4, <2>1 DEF JobQueueInv, CallsMatch
    <3> QED BY <1>3, <3>1 DEF ClientMatches
  <2>2. ASSUME NEW w \in Workers PROVE WorkerMatches(w)'
    <3>1. WorkerMatches(w) /\ call'[w] = call[w]
      BY <1>4 DEF JobQueueInv, CallsMatch
    <3> QED BY <1>1, <1>3, <3>1 DEF WorkerMatches
  <2> QED BY <2>1, <2>2 DEF CallsMatch
<1>10. AnswerStands'
  BY <1>1, <1>4 DEF JobQueueInv, AnswerStands
<1> QED BY <1>2, <1>6, <1>7, <1>8, <1>9, <1>10 DEF JobQueueInv

LEMMA ClientStepKeeps ==
    ASSUME JobQueueInv, NEW k \in Keys, ClientStep(k)
    PROVE  JobQueueInv'
<1>1. /\ client[k] \in ClientRecords /\ call[k] \in Calls /\ ClientMatches(k)
      /\ client \in [Keys -> ClientRecords] /\ call \in [Keys \cup Workers -> Calls]
      /\ faults \in 0 .. MaxFaults
  BY DEF JobQueueInv, TypeOK, CallerTypes, CallsMatch
<1>2. late' = late => Abandons(k)
  BY DEF Abandons
<1>3. ASSUME NEW poison \in BOOLEAN, Submit(k, poison) PROVE JobQueueInv'
  <2> DEFINE p == [value |-> k, poison |-> poison]
             r == [st |-> "submitting", try |-> 1, job |-> 0, payload |-> p]
             y == SubmitCall(k, r)
  <2>1. /\ UNCHANGED <<brokerVars, storeVars, worker, renewed>> /\ faults' = faults
        /\ late' = late /\ client' = [client EXCEPT ![k] = r]
        /\ call' = [call EXCEPT ![k] = SubmitCall(k, client'[k])]
    BY <1>3 DEF Submit
  <2>2. call' = [call EXCEPT ![k] = y]
    BY <1>1, <2>1
  <2>3. p \in Payloads /\ p.value = k
    BY DEF Payloads
  <2>4. r \in ClientRecords /\ r.st = "submitting" /\ r.payload.value = k
    BY <2>3 DEF ClientRecords
  <2>5. /\ y \in Calls /\ y.st = "asked" /\ y.req.op = "submit" /\ Honest(y.req)
    <3>1. y.req \in SubmitRequests /\ y = Asked(y.req) /\ y.req.op = "submit"
      BY <2>3, Zenon DEF SubmitCall, Asked, SubmitRequests, WireKey, idempotency
    <3>2. y.req.key = <<k, 0>> /\ y.req.payload = p
      BY DEF SubmitCall, Asked, WireKey, idempotency
    <3> QED BY <2>3, <3>1, <3>2 DEF Asked, Calls, Sent, Requests, Honest
  <2> HIDE DEF p, r, y
  <2>6. ClientMatches(k)'
    BY <1>1, <2>1, <2>2, <2>4, <2>5 DEF ClientMatches
  <2> QED BY <1>1, <1>2, <2>1, <2>2, <2>4, <2>5, <2>6, ClientKeeps
<1>4. CASE Acknowledged(k)
  <2> DEFINE r == [client[k] EXCEPT !.st = "waiting", !.job = call[k].reply]
  <2>1. call[k].reply \in Jobs /\ call[k].reply \in Nat
    BY <1>1, <1>4 DEF Acknowledged, ClientMatches, Jobs, JobQueueInv, TypeOK, BrokerTypes
  <2>2. /\ r \in ClientRecords /\ r.st = "waiting" /\ r.job = call[k].reply
        /\ r.payload = client[k].payload
    BY <1>1, <2>1, Zenon DEF ClientRecords
  <2>3. /\ UNCHANGED <<brokerVars, storeVars, worker, renewed>> /\ faults' = faults
        /\ late' = late /\ client' = [client EXCEPT ![k] = r]
        /\ call' = [call EXCEPT ![k] = NoCall]
    BY <1>1, <1>4, Zenon DEF Acknowledged, ClientRecords
  <2>4. NoCall \in Calls /\ NoCall.st = "none" /\ Jobs' = Jobs
    BY <2>3 DEF NoCall, Calls, Jobs, brokerVars
  <2> HIDE DEF r
  <2>5. ClientMatches(k)'
    BY <1>1, <2>1, <2>2, <2>3, <2>4 DEF ClientMatches
  <2> QED BY <1>1, <1>2, <2>2, <2>3, <2>4, <2>5, ClientKeeps
<1>5. CASE WaitEnds(k)
  <2> DEFINE r == [client[k] EXCEPT !.st = job[client[k].job].state]
  <2>1. /\ client[k].st = "waiting" /\ client[k].job \in Jobs
        /\ job[client[k].job].state \in {"done", "dead"}
    BY <1>5 DEF WaitEnds, Is
  <2>2. /\ r \in ClientRecords /\ r.st = job[client[k].job].state /\ r.job = client[k].job
        /\ r.payload = client[k].payload
    BY <1>1, <2>1, Zenon DEF ClientRecords
  <2>3. /\ UNCHANGED <<brokerVars, storeVars, worker, renewed>> /\ faults' = faults
        /\ late' = late /\ client' = [client EXCEPT ![k] = r] /\ call' = call
    BY <1>1, <1>5, Zenon DEF WaitEnds, ClientRecords
  <2>4. call' = [call EXCEPT ![k] = call[k]] /\ Jobs' = Jobs
    BY <1>1, <2>3 DEF Jobs, brokerVars
  <2>5. call[k].st \in {"asked", "held"} => Honest(call[k].req)
    BY DEF JobQueueInv, RequestsHonest
  <2> HIDE DEF r
  <2>6. ClientMatches(k)'
    BY <1>1, <2>1, <2>2, <2>3, <2>4 DEF ClientMatches
  <2> QED BY <1>1, <1>2, <2>1, <2>2, <2>3, <2>4, <2>5, <2>6, ClientKeeps
<1> QED BY <1>3, <1>4, <1>5 DEF ClientStep

\* A timeout: the client asks again under the same key, or gives up.
LEMMA ClientRetriesKeeps ==
    ASSUME JobQueueInv, NEW k \in Keys, ClientRetries(k)
    PROVE  JobQueueInv'
<1>1. /\ client[k] \in ClientRecords /\ call[k] \in Calls /\ ClientMatches(k)
      /\ client \in [Keys -> ClientRecords] /\ call \in [Keys \cup Workers -> Calls]
  BY DEF JobQueueInv, TypeOK, CallerTypes, CallsMatch
<1>2. faults' \in 0 .. MaxFaults
  BY JobQueueAssumption DEF ClientRetries, GivesUp, JobQueueInv, TypeOK, CallerTypes
<1>3. call[k].st \in {"asked", "held", "answered"} /\ client[k].st = "submitting"
  BY <1>1, CallShapes DEF ClientRetries, GivesUp, ClientMatches
<1>4. Abandons(k)
  BY <1>3 DEF Abandons, ClientRetries, GivesUp
<1>5. UNCHANGED <<brokerVars, storeVars, worker, renewed>>
  BY DEF ClientRetries
<1>6. CASE client[k].try < Retries
  <2> DEFINE r == [client[k] EXCEPT !.try = client[k].try + 1]
             y == SubmitCall(k, r)
  <2>1. client[k].try + 1 \in Nat
    BY <1>1 DEF ClientRecords
  <2>2. /\ r \in ClientRecords /\ r.st = "submitting" /\ r.payload.value = k
        /\ r.payload \in Payloads /\ r.try \in Nat
    <3>1. client[k].payload.value = k
      BY <1>1 DEF ClientMatches
    <3> QED BY <1>1, <1>3, <2>1, <3>1, Zenon DEF ClientRecords
  <2>3. client' = [client EXCEPT ![k] = r] /\ call' = [call EXCEPT ![k] = SubmitCall(k, client'[k])]
    BY <1>1, <1>6, Zenon DEF ClientRetries, ClientRecords
  <2> HIDE DEF r
  <2>4. call' = [call EXCEPT ![k] = y]
    BY <1>1, <2>3
  <2>5. y \in Calls /\ y.st = "asked" /\ y.req.op = "submit" /\ Honest(y.req)
    <3>1. y.req \in SubmitRequests /\ y = Asked(y.req) /\ y.req.op = "submit"
      BY <2>2, Zenon DEF SubmitCall, Asked, SubmitRequests, WireKey, idempotency
    <3>2. y.req.key = <<k, 0>> /\ y.req.payload = r.payload
      BY DEF SubmitCall, Asked, WireKey, idempotency
    <3> QED BY <2>2, <3>1, <3>2 DEF Asked, Calls, Sent, Requests, Honest
  <2> HIDE DEF y
  <2>6. ClientMatches(k)'
    BY <1>1, <2>2, <2>3, <2>4, <2>5 DEF ClientMatches
  <2> QED BY <1>2, <1>4, <1>5, <2>2, <2>3, <2>4, <2>5, <2>6, ClientKeeps
<1>7. CASE ~(client[k].try < Retries)
  <2> DEFINE r == [client[k] EXCEPT !.st = "unacknowledged"]
  <2>1. r \in ClientRecords /\ r.st = "unacknowledged" /\ r.payload = client[k].payload
    BY <1>1, Zenon DEF ClientRecords
  <2>2. client' = [client EXCEPT ![k] = r] /\ call' = [call EXCEPT ![k] = NoCall]
    BY <1>1, <1>7, Zenon DEF ClientRetries, ClientRecords
  <2>3. NoCall \in Calls /\ NoCall.st = "none"
    BY DEF NoCall, Calls
  <2> HIDE DEF r
  <2>4. ClientMatches(k)'
    BY <1>1, <2>1, <2>2, <2>3 DEF ClientMatches
  <2> QED BY <1>2, <1>4, <1>5, <2>1, <2>2, <2>3, <2>4, ClientKeeps
<1> QED BY <1>6, <1>7

\* A worker's step, which may add to the store, likewise.
LEMMA WorkerKeeps ==
    ASSUME JobQueueInv, UNCHANGED <<brokerVars, client>>,
           StoreTypes', EffectsOfJobs', Committed \subseteq Committed',
           renewed' \in 0 .. MaxRenewals, faults' \in 0 .. MaxFaults,
           NEW w \in Workers, NEW r \in WorkerRecords, NEW y \in Calls,
           worker' = [worker EXCEPT ![w] = r], call' = [call EXCEPT ![w] = y],
           \A x \in late' : \/ x \in late
                            \/ x = call[w] /\ call[w].st \in {"asked", "held"}
                            \/ x \in Sent /\ x.req.op = "renew",
           y.st \in {"asked", "held"} => Honest(y.req)',
           WorkerMatches(w)'
    PROVE  JobQueueInv'
<1>1. job' = job /\ order' = order /\ timers' = timers /\ client' = client
  BY DEF brokerVars
<1>2. BrokerTypes' /\ BrokerInv'
  BY BrokerUnchanged DEF BrokerOK
<1>3. Jobs' = Jobs
  BY <1>1 DEF Jobs
<1>4. /\ worker \in [Workers -> WorkerRecords] /\ call \in [Keys \cup Workers -> Calls]
      /\ late \subseteq Sent /\ w \notin Keys
  BY JobQueueAssumption DEF JobQueueInv, TypeOK, CallerTypes
<1>5. late' \subseteq Sent
  BY <1>4, CallShapes
<1>6. TypeOK'
  BY <1>1, <1>2, <1>4, <1>5 DEF JobQueueInv, TypeOK, CallerTypes
<1>7. StoreInv'
  BY <1>1, <1>3 DEF JobQueueInv, StoreInv, DoneIsCommitted
<1>8. RequestsHonest'
  <2>1. \A m : Honest(m) => Honest(m)'
    BY DEF Honest
  <2>2. \A x \in late' : Honest(x.req)'
    <3>1. \A x \in late : Honest(x.req)
      BY DEF JobQueueInv, RequestsHonest
    <3>2. call[w].st \in {"asked", "held"} => Honest(call[w].req)
      BY DEF JobQueueInv, RequestsHonest
    <3>3. \A m : m.op = "renew" => Honest(m)
      BY DEF Honest
    <3> QED BY <2>1, <3>1, <3>2, <3>3
  <2>3. ASSUME NEW c \in Keys \cup Workers, NEW z, z = call'[c], z.st \in {"asked", "held"}
        PROVE  Honest(z.req)'
    <3>1. CASE c = w
      BY <1>4, <2>3, <3>1
    <3>2. CASE c # w
      <4>1. z = call[c] /\ Honest(z.req)
        BY <1>4, <2>3, <3>2 DEF JobQueueInv, RequestsHonest
      <4> QED BY <2>1, <4>1
    <3> QED BY <3>1, <3>2
  <2> QED BY <2>2, <2>3 DEF RequestsHonest, Honest
<1>9. CallsMatch'
  <2>1. ASSUME NEW k \in Keys PROVE ClientMatches(k)'
    <3>1. ClientMatches(k) /\ call'[k] = call[k]
      BY <1>4 DEF JobQueueInv, CallsMatch
    <3> QED BY <1>1, <1>3, <3>1 DEF ClientMatches
  <2>2. ASSUME NEW v \in Workers, v # w PROVE WorkerMatches(v)'
    <3>1. WorkerMatches(v) /\ worker'[v] = worker[v] /\ call'[v] = call[v]
      BY <1>4, <2>2 DEF JobQueueInv, CallsMatch
    <3> QED BY <1>3, <3>1 DEF WorkerMatches
  <2> QED BY <2>1, <2>2 DEF CallsMatch
<1>10. AnswerStands'
  BY <1>1 DEF JobQueueInv, AnswerStands
<1> QED BY <1>2, <1>6, <1>7, <1>8, <1>9, <1>10 DEF JobQueueInv

\* What a worker's step that leaves the store alone needs of it.
LEMMA StoreUnchanged ==
    ASSUME JobQueueInv, job' = job, UNCHANGED commits, newest' \in [1 .. MaxJobs -> Nat]
    PROVE  StoreTypes' /\ EffectsOfJobs' /\ Committed' = Committed
BY DEF JobQueueInv, TypeOK, StoreTypes, MaxJobs, StoreInv, EffectsOfJobs, Committed, Jobs

LEMMA RestingIs ==
    Resting \in WorkerRecords /\ Resting.st = "resting" /\ NoCall \in Calls /\ NoCall.st = "none"
BY DEF Resting, WorkerRecords, NoCall, Calls

\* A worker that has left off has nothing under way.
LEMMA RestKeeps ==
    ASSUME JobQueueInv, UNCHANGED <<brokerVars, client, commits>>,
           newest' \in [1 .. MaxJobs -> Nat],
           renewed' = renewed, faults' \in 0 .. MaxFaults, NEW w \in Workers,
           worker' = [worker EXCEPT ![w] = Resting], call' = [call EXCEPT ![w] = NoCall],
           Abandons(w)
    PROVE  JobQueueInv'
<1>1. job' = job /\ commits' = commits
  BY DEF brokerVars
<1>2. worker'[w].st = "resting" /\ call'[w].st = "none"
  BY RestingIs DEF JobQueueInv, TypeOK, CallerTypes
<1>3. WorkerMatches(w)'
  BY <1>2 DEF WorkerMatches
<1>4. renewed' \in 0 .. MaxRenewals
  BY DEF JobQueueInv, TypeOK, CallerTypes
<1>5. StoreTypes' /\ EffectsOfJobs' /\ Committed \subseteq Committed'
  BY <1>1, StoreUnchanged
<1>6. UNCHANGED <<brokerVars, client>>
  OBVIOUS
<1> QED BY <1>3, <1>4, <1>5, <1>6, RestingIs, WorkerKeeps DEF Abandons

\* The request a worker sends fits what it does.
LEMMA WorkerCallIs ==
    ASSUME NEW w \in Workers, NEW r \in WorkerRecords, r.st \in {"acquiring", "completing"}
    PROVE  /\ WorkerCall(w, r) \in Calls /\ WorkerCall(w, r).st = "asked"
           /\ r.st = "acquiring" => WorkerCall(w, r).req.op = "acquire"
           /\ r.st = "completing" => /\ WorkerCall(w, r).req.op = "complete"
                                     /\ WorkerCall(w, r).req.from[1] = w
                                     /\ WorkerCall(w, r).req.job = r.job
                                     /\ WorkerCall(w, r).req.token = r.token
<1>0. r.job \in Nat /\ r.token \in Nat /\ <<w, r.try>> \in Workers \X Nat
  BY DEF WorkerRecords
<1>1. CASE r.st = "acquiring"
  <2> DEFINE m == [op |-> "acquire", from |-> <<w, r.try>>]
  <2>1. m \in AcquireRequests /\ m.op = "acquire"
    BY <1>0 DEF AcquireRequests
  <2>2. WorkerCall(w, r) = Asked(m)
    BY <1>1 DEF WorkerCall
  <2> HIDE DEF m
  <2> QED BY <1>1, <2>1, <2>2 DEF Asked, Calls, Sent, Requests
<1>2. CASE r.st = "completing"
  <2> DEFINE m == [op |-> "complete", from |-> <<w, r.try>>, job |-> r.job, token |-> r.token]
  <2>1. /\ m \in CompleteRequests /\ m.op = "complete"
        /\ m.from[1] = w /\ m.job = r.job /\ m.token = r.token
    BY <1>0 DEF CompleteRequests
  <2>2. WorkerCall(w, r) = Asked(m)
    BY <1>2 DEF WorkerCall
  <2> HIDE DEF m
  <2> QED BY <1>2, <2>1, <2>2 DEF Asked, Calls, Sent, Requests
<1> QED BY <1>1, <1>2

LEMMA WorkerIs ==
    ASSUME JobQueueInv, NEW w \in Workers
    PROVE  /\ worker[w] \in WorkerRecords /\ call[w] \in Calls /\ WorkerMatches(w)
           /\ worker \in [Workers -> WorkerRecords] /\ call \in [Keys \cup Workers -> Calls]
           /\ newest \in [1 .. MaxJobs -> Nat] /\ job \in Seq(JobRecords)
           /\ renewed \in 0 .. MaxRenewals /\ faults \in 0 .. MaxFaults
BY DEF JobQueueInv, TypeOK, CallerTypes, StoreTypes, BrokerTypes, CallsMatch

\* The store's notes stay numbers.
LEMMA NotedTyped ==
    ASSUME newest \in [1 .. MaxJobs -> Nat], NEW i, NEW token \in Nat, Noted(i, token)
    PROVE  newest' \in [1 .. MaxJobs -> Nat]
BY DEF Noted

LEMMA WorkerAcquires ==
    ASSUME JobQueueInv, NEW w \in Workers, Acquire(w)
    PROVE  JobQueueInv'
<1> DEFINE r == [worker[w] EXCEPT !.st = "acquiring", !.try = 1]
<1>1. r \in WorkerRecords /\ r.st = "acquiring"
  <2>1. worker[w] \in WorkerRecords /\ 1 \in Nat
    BY WorkerIs
  <2> QED BY <2>1, Zenon DEF WorkerRecords
<1>2. /\ worker' = [worker EXCEPT ![w] = r] /\ call' = [call EXCEPT ![w] = WorkerCall(w, worker'[w])]
      /\ UNCHANGED <<brokerVars, storeVars, client, late, renewed, faults>>
  BY WorkerIs, Zenon DEF Acquire, WorkerRecords
<1> HIDE DEF r
<1>3. PICK y \in Calls : /\ call' = [call EXCEPT ![w] = y]
                         /\ y.st = "asked" /\ y.req.op = "acquire"
  <2>1. call' = [call EXCEPT ![w] = WorkerCall(w, r)]
    BY <1>2, WorkerIs
  <2> QED BY <1>1, <2>1, WorkerCallIs
<1>4. WorkerMatches(w)'
  BY <1>1, <1>2, <1>3, WorkerIs DEF WorkerMatches
<1>5. Honest(y.req)'
  BY <1>3 DEF Honest
<1>6. StoreTypes' /\ EffectsOfJobs' /\ Committed \subseteq Committed'
  BY <1>2, StoreUnchanged, WorkerIs DEF brokerVars, storeVars
<1> QED BY <1>1, <1>2, <1>3, <1>4, <1>5, <1>6, WorkerIs, WorkerKeeps

\* A lease taken up, or passed by: _work is entered with a job of the broker's.
LEMMA WorkerLeased ==
    ASSUME JobQueueInv, NEW w \in Workers, Leased(w)
    PROVE  JobQueueInv'
<1>1. /\ call' = [call EXCEPT ![w] = NoCall]
      /\ UNCHANGED <<brokerVars, commits, client, late, renewed, faults>>
      /\ worker[w].st = "acquiring" /\ call[w].st = "answered"
  BY DEF Leased
<1>2. PICK r : r = call[w].reply
  OBVIOUS
<1>3. r = NoJob \/ r \in [job : Jobs, token : Nat]
  BY <1>1, <1>2, WorkerIs DEF WorkerMatches
<1>4. CASE r = NoJob \/ StaleAtStore(r.job, r.token)
  <2>1. worker' = [worker EXCEPT ![w] = Resting] /\ newest' = newest
    BY <1>2, <1>4, Zenon DEF Leased
  <2>2. Abandons(w)
    BY <1>1 DEF Abandons
  <2>3. UNCHANGED <<brokerVars, client, commits>> /\ faults' = faults
    BY <1>1
  <2> QED BY <1>1, <2>1, <2>2, <2>3, WorkerIs, RestKeeps
<1>5. CASE ~(r = NoJob \/ StaleAtStore(r.job, r.token))
  <2> DEFINE s == [st |-> "executing", job |-> r.job, token |-> r.token, try |-> 0]
  <2>1. worker' = [worker EXCEPT ![w] = s] /\ Noted(r.job, r.token)
    BY <1>2, <1>5, Zenon DEF Leased
  <2>2. r.job \in Jobs /\ r.job \in Nat /\ r.token \in Nat
    BY <1>3, <1>5, WorkerIs DEF Jobs
  <2>3. s \in WorkerRecords /\ s.st = "executing" /\ s.job = r.job
    BY <2>2 DEF WorkerRecords
  <2> HIDE DEF s
  <2>4. newest' \in [1 .. MaxJobs -> Nat]
    BY <2>1, <2>2, WorkerIs, NotedTyped
  <2>5. StoreTypes' /\ EffectsOfJobs' /\ Committed \subseteq Committed'
    BY <1>1, <2>4, StoreUnchanged DEF brokerVars
  <2>6. WorkerMatches(w)'
    BY <1>1, <2>1, <2>2, <2>3, WorkerIs, RestingIs DEF WorkerMatches, Jobs, brokerVars
  <2> QED BY <1>1, <2>1, <2>3, <2>5, <2>6, WorkerIs, RestingIs, WorkerKeeps
<1> QED BY <1>4, <1>5

\* An accepted commit is the job's first.
LEMMA CommitAdds ==
    ASSUME JobQueueInv, NEW i \in Jobs, NEW token \in Nat, i \notin Committed, job' = job,
           newest' \in [1 .. MaxJobs -> Nat],
           commits' = Append(commits, [job |-> i, token |-> token, value |-> job[i].payload.value])
    PROVE  StoreTypes' /\ EffectsOfJobs' /\ Committed' = Committed \cup {i}
<1> DEFINE e == [job |-> i, token |-> token, value |-> job[i].payload.value]
<1>1. i \in Nat /\ job[i] \in JobRecords
  BY DEF Jobs, JobQueueInv, TypeOK, BrokerTypes
<1>2. e \in Effects /\ e.job = i /\ e.value = job[i].payload.value
  BY <1>1 DEF Effects, JobRecords, Payloads
<1> HIDE DEF e
<1>3. commits \in Seq(Effects) /\ commits' = Append(commits, e)
  BY DEF e, JobQueueInv, TypeOK, StoreTypes
<1>4. /\ commits' \in Seq(Effects) /\ Len(commits) \in Nat
      /\ DOMAIN commits = 1 .. Len(commits) /\ DOMAIN commits' = 1 .. Len(commits) + 1
      /\ \A n \in 1 .. Len(commits) : commits'[n] = commits[n]
      /\ commits'[Len(commits) + 1] = e
  BY <1>2, <1>3
<1>5. \A n \in DOMAIN commits : commits[n].job # i
  BY DEF Committed
<1>6. StoreTypes'
  BY <1>4 DEF StoreTypes, MaxJobs
<1>7. EffectsOfJobs'
  <2>1. \A n \in DOMAIN commits' : n \in DOMAIN commits \/ n = Len(commits) + 1
    BY <1>4
  <2>2. /\ \A n \in DOMAIN commits :
             commits[n].job \in Jobs /\ commits[n].value = job[commits[n].job].payload.value
        /\ \A m, n \in DOMAIN commits : commits[m].job = commits[n].job => m = n
    BY DEF JobQueueInv, StoreInv, EffectsOfJobs
  <2>3. ASSUME NEW n \in DOMAIN commits'
        PROVE  /\ commits'[n].job \in Jobs
               /\ commits'[n].value = job[commits'[n].job].payload.value
    BY <1>2, <1>4, <2>1, <2>2
  <2>4. ASSUME NEW m \in DOMAIN commits', NEW n \in DOMAIN commits',
               commits'[m].job = commits'[n].job
        PROVE  m = n
    BY <1>2, <1>4, <1>5, <2>1, <2>2, <2>4
  <2> QED BY <2>3, <2>4 DEF EffectsOfJobs, Jobs
<1>8. Committed' = Committed \cup {i}
  <2>1. \A j \in Committed : j \in Committed'
    BY <1>4 DEF Committed
  <2>2. i \in Committed'
    BY <1>2, <1>4 DEF Committed
  <2>3. \A j \in Committed' : j \in Committed \/ j = i
    BY <1>2, <1>4 DEF Committed
  <2> QED BY <2>1, <2>2, <2>3
<1> QED BY <1>6, <1>7, <1>8

\* A worker that goes on to complete a job the store has.
LEMMA CompletingKeeps ==
    ASSUME JobQueueInv, NEW w \in Workers, UNCHANGED <<brokerVars, client, late, renewed>>,
           faults' \in 0 .. MaxFaults,
           NEW r \in WorkerRecords, r.st = "completing", r.job \in Committed',
           worker' = [worker EXCEPT ![w] = r],
           call' = [call EXCEPT ![w] = WorkerCall(w, worker'[w])],
           StoreTypes', EffectsOfJobs', Committed \subseteq Committed'
    PROVE  JobQueueInv'
<1> DEFINE y == WorkerCall(w, r)
<1>1. call' = [call EXCEPT ![w] = y] /\ worker'[w] = r
  BY WorkerIs
<1>2. y \in Calls /\ y.st = "asked" /\ y.req.op = "complete" /\ y.req.job = r.job
  BY WorkerCallIs
<1> HIDE DEF y
<1>3. Honest(y.req)'
  BY <1>2 DEF Honest
<1>4. WorkerMatches(w)'
  BY <1>1, <1>2, WorkerIs DEF WorkerMatches
<1> QED BY <1>1, <1>2, <1>3, <1>4, WorkerIs, WorkerKeeps

\* The heart of exactly-once: whoever goes on to complete a job has found it, or
\* put it, in the store.
LEMMA WorkerExecuted ==
    ASSUME JobQueueInv, NEW w \in Workers, Executed(w)
    PROVE  JobQueueInv'
<1>1. worker[w].st = "executing" /\ UNCHANGED <<brokerVars, client, late, renewed, faults>>
  BY Zenon DEF Executed
<1>2. PICK i \in Jobs : i = worker[w].job
  BY <1>1, WorkerIs DEF WorkerMatches
<1>3. PICK token \in Nat : token = worker[w].token
  BY WorkerIs DEF WorkerRecords
<1>4. PICK outcome : outcome = CommitOutcome(i, token)
  OBVIOUS
<1> DEFINE r == [worker[w] EXCEPT !.st = "completing", !.try = 1]
<1>5. /\ WalksAway(i, outcome) => worker' = [worker EXCEPT ![w] = Resting] /\ call' = call
      /\ ~WalksAway(i, outcome) => /\ worker' = [worker EXCEPT ![w] = r]
                                   /\ call' = [call EXCEPT ![w] = WorkerCall(w, worker'[w])]
  BY <1>2, <1>3, <1>4, WorkerIs, Zenon DEF Executed, WorkerRecords
<1>6. /\ job[i].payload.poison \/ outcome # "ok" => newest' = newest /\ commits' = commits
      /\ ~(job[i].payload.poison \/ outcome # "ok") =>
            /\ Noted(i, token)
            /\ commits' = Append(commits, [job |-> i, token |-> token,
                                           value |-> job[i].payload.value])
  BY <1>2, <1>3, <1>4, Zenon DEF Executed, storeVars
<1>7. r \in WorkerRecords /\ r.st = "completing" /\ r.job = i
  <2>1. worker[w] \in WorkerRecords /\ 1 \in Nat
    BY WorkerIs
  <2> QED BY <1>2, <2>1, Zenon DEF WorkerRecords
<1> HIDE DEF r
<1>8. job' = job /\ call[w] = NoCall
  <2>1. call[w].st = "none"
    BY <1>1, WorkerIs, CallShapes DEF WorkerMatches
  <2> QED BY <1>1, <2>1, WorkerIs, CallShapes DEF brokerVars
<1>9. CASE WalksAway(i, outcome)
  <2>1. newest' = newest /\ commits' = commits
    BY <1>6, <1>9 DEF WalksAway
  <2>2. call' = [call EXCEPT ![w] = NoCall] /\ Abandons(w)
    BY <1>1, <1>5, <1>8, <1>9, WorkerIs DEF Abandons
  <2> QED BY <1>1, <1>5, <1>9, <2>1, <2>2, WorkerIs, RestKeeps
<1>10. CASE ~WalksAway(i, outcome) /\ outcome # "ok"
  <2>1. newest' = newest /\ commits' = commits
    BY <1>6, <1>10
  <2>2. i \in Committed
    BY <1>4, <1>10 DEF WalksAway, CommitOutcome
  <2>3. StoreTypes' /\ EffectsOfJobs' /\ Committed' = Committed
    BY <1>8, <2>1, WorkerIs, StoreUnchanged
  <2> QED BY <1>1, <1>5, <1>7, <1>10, <2>2, <2>3, WorkerIs, CompletingKeeps
<1>11. CASE ~WalksAway(i, outcome) /\ outcome = "ok"
  <2>1. ~(job[i].payload.poison \/ outcome # "ok")
    BY <1>11 DEF WalksAway
  <2>2. i \notin Committed
    BY <1>4, <1>11 DEF CommitOutcome, idempotent
  <2>3. newest' \in [1 .. MaxJobs -> Nat]
    BY <1>6, <2>1, WorkerIs, NotedTyped
  <2>4. StoreTypes' /\ EffectsOfJobs' /\ Committed' = Committed \cup {i}
    BY <1>6, <1>8, <2>1, <2>2, <2>3, CommitAdds
  <2> QED BY <1>1, <1>5, <1>7, <1>11, <2>4, WorkerIs, CompletingKeeps
<1> QED BY <1>9, <1>10, <1>11

LEMMA WorkerReplied ==
    ASSUME JobQueueInv, NEW w \in Workers, CompleteReplied(w)
    PROVE  JobQueueInv'
<1>1. /\ worker' = [worker EXCEPT ![w] = Resting] /\ call' = [call EXCEPT ![w] = NoCall]
      /\ UNCHANGED <<brokerVars, storeVars, client, late, renewed, faults>>
  BY DEF CompleteReplied
<1>2. Abandons(w)
  BY <1>1 DEF Abandons
<1> QED BY <1>1, <1>2, WorkerIs, RestKeeps DEF storeVars

LEMMA WorkerRenews ==
    ASSUME JobQueueInv, NEW w \in Workers, Renew(w)
    PROVE  JobQueueInv'
<1> DEFINE m == [op |-> "renew", job |-> worker[w].job, token |-> worker[w].token]
<1>1. m \in RenewRequests /\ m.op = "renew"
  BY WorkerIs DEF RenewRequests, WorkerRecords
<1>2. late' = late \cup {Asked(m)} /\ renewed' = renewed + 1 /\ renewed < MaxRenewals
      /\ UNCHANGED <<brokerVars, storeVars, client, worker, call, faults>>
  BY DEF Renew
<1>3. Asked(m) \in Sent /\ Asked(m).req.op = "renew"
  BY <1>1 DEF Asked, Sent, Requests
<1> HIDE DEF m
<1>4. worker' = [worker EXCEPT ![w] = worker[w]] /\ call' = [call EXCEPT ![w] = call[w]]
  BY <1>2, WorkerIs
<1>5. StoreTypes' /\ EffectsOfJobs' /\ Committed' = Committed
  BY <1>2, WorkerIs, StoreUnchanged DEF brokerVars, storeVars
<1>6. WorkerMatches(w)'
  BY <1>2, <1>5, WorkerIs DEF WorkerMatches, Jobs, brokerVars
<1>7. call[w].st \in {"asked", "held"} => Honest(call[w].req)
  BY DEF JobQueueInv, RequestsHonest
<1>8. PICK y : y = call[w]
  OBVIOUS
<1>9. y.st \in {"asked", "held"} => Honest(y.req)'
  BY <1>5, <1>7, <1>8 DEF Honest
<1>10. renewed' \in 0 .. MaxRenewals /\ faults' \in 0 .. MaxFaults
  BY <1>2, JobQueueAssumption, WorkerIs
<1> QED
  BY <1>2, <1>3, <1>4, <1>5, <1>6, <1>8, <1>9, <1>10, WorkerIs, WorkerKeeps

\* A timeout: the worker asks again, or leaves what it was doing.
LEMMA WorkerRetriesKeeps ==
    ASSUME JobQueueInv, NEW w \in Workers, WorkerRetries(w)
    PROVE  JobQueueInv'
<1>1. faults' \in 0 .. MaxFaults
  BY JobQueueAssumption, WorkerIs DEF WorkerRetries, GivesUp
<1>2. call[w].st \in {"asked", "held", "answered"} /\ worker[w].st \in {"acquiring", "completing"}
  BY WorkerIs, CallShapes DEF WorkerRetries, GivesUp, WorkerMatches
<1>3. Abandons(w)
  BY <1>2 DEF Abandons, WorkerRetries, GivesUp
<1>4. UNCHANGED <<brokerVars, storeVars, client, renewed>>
  BY DEF WorkerRetries
<1>5. CASE worker[w].try < Retries
  <2> DEFINE r == [worker[w] EXCEPT !.try = worker[w].try + 1]
  <2>1. r \in WorkerRecords /\ r.st = worker[w].st /\ r.job = worker[w].job
    <3>1. worker[w] \in WorkerRecords /\ worker[w].try + 1 \in Nat
      BY WorkerIs DEF WorkerRecords
    <3> QED BY <3>1, Zenon DEF WorkerRecords
  <2>2. worker' = [worker EXCEPT ![w] = r] /\ call' = [call EXCEPT ![w] = WorkerCall(w, worker'[w])]
    BY <1>5, WorkerIs, Zenon DEF WorkerRetries, WorkerRecords
  <2> HIDE DEF r
  <2>3. PICK y \in Calls :
          /\ call' = [call EXCEPT ![w] = y] /\ y.st = "asked"
          /\ r.st = "acquiring" => y.req.op = "acquire"
          /\ r.st = "completing" => y.req.op = "complete" /\ y.req.job = r.job
    <3>1. call' = [call EXCEPT ![w] = WorkerCall(w, r)]
      BY <2>2, WorkerIs
    <3> QED BY <1>2, <2>1, <3>1, WorkerCallIs
  <2>4. worker'[w] = r
    BY <2>2, WorkerIs
  <2>5. StoreTypes' /\ EffectsOfJobs' /\ Committed' = Committed
    BY <1>4, WorkerIs, StoreUnchanged DEF brokerVars, storeVars
  <2>6. r.st = "completing" => r.job \in Committed'
    BY <2>1, <2>5, WorkerIs DEF WorkerMatches
  <2>7. Honest(y.req)'
    BY <1>2, <2>1, <2>3, <2>6 DEF Honest
  <2>8. WorkerMatches(w)'
    BY <1>2, <2>1, <2>3, <2>4, <2>6, WorkerIs DEF WorkerMatches
  <2> QED BY <1>1, <1>3, <1>4, <2>1, <2>2, <2>3, <2>4, <2>5, <2>7, <2>8, WorkerIs, WorkerKeeps
          DEF Abandons
<1>6. CASE ~(worker[w].try < Retries)
  <2>1. worker' = [worker EXCEPT ![w] = Resting] /\ call' = [call EXCEPT ![w] = NoCall]
    BY <1>6, Zenon DEF WorkerRetries
  <2> QED BY <1>1, <1>3, <1>4, <2>1, WorkerIs, RestKeeps DEF storeVars
<1> QED BY <1>5, <1>6

LEMMA CrashKeeps ==
    ASSUME JobQueueInv, NEW w \in Workers, Crash(w)
    PROVE  JobQueueInv'
<1>1. /\ worker' = [worker EXCEPT ![w] = Resting] /\ call' = [call EXCEPT ![w] = NoCall]
      /\ UNCHANGED <<brokerVars, storeVars, client, renewed>>
      /\ faults' \in 0 .. MaxFaults
  BY JobQueueAssumption, WorkerIs DEF Crash
<1>2. Abandons(w)
  BY DEF Crash, Abandons
<1> QED BY <1>1, <1>2, WorkerIs, RestKeeps DEF storeVars

-----------------------------------------------------------------------------
(***************************************************************************)
(* The theorems.                                                           *)
(***************************************************************************)

LEMMA InitHolds ==
    Init => JobQueueInv
<1> SUFFICES ASSUME Init PROVE JobQueueInv
  OBVIOUS
<1>1. BrokerTypes /\ BrokerInv
  <2>1. job = <<>> /\ order = <<>> /\ timers = {}
    BY DEF Init
  <2> QED BY <2>1 DEF BrokerTypes, BrokerInv, OneJobPerKey, QueueHoldsQueued, TimersWatch, Jobs,
                      IsInjective, ToSet
<1>2. commits = <<>> /\ Jobs = {}
  BY DEF Init, Jobs
<1>3. StoreTypes /\ StoreInv
  BY <1>2 DEF Init, StoreTypes, StoreInv, EffectsOfJobs, DoneIsCommitted
<1>4. /\ \A k \in Keys : client[k].st = "new" /\ client[k].payload.value = k
      /\ client \in [Keys -> ClientRecords]
  <2>1. \A k \in Keys : [st |-> "new", try |-> 0, job |-> 0,
                         payload |-> [value |-> k, poison |-> FALSE]] \in ClientRecords
    BY DEF ClientRecords, Payloads
  <2> QED BY <2>1 DEF Init
<1>5. CallerTypes
  BY <1>4, RestingIs, JobQueueAssumption DEF Init, CallerTypes
<1>6. /\ \A c \in Keys \cup Workers : call[c].st = "none"
      /\ \A w \in Workers : worker[w].st = "resting"
  BY RestingIs DEF Init
<1>7. RequestsHonest /\ CallsMatch /\ AnswerStands
  BY <1>4, <1>6 DEF Init, RequestsHonest, CallsMatch, ClientMatches, WorkerMatches, AnswerStands
<1> QED BY <1>1, <1>3, <1>5, <1>7 DEF JobQueueInv, TypeOK

LEMMA NextKeeps ==
    JobQueueInv /\ [Next]_vars => JobQueueInv'
<1> SUFFICES ASSUME JobQueueInv, [Next]_vars PROVE JobQueueInv'
  OBVIOUS
<1>1. ASSUME NEW x \in Pending, Serve(x) PROVE JobQueueInv'
  BY <1>1, SubmitStep, AcquireStep, RenewStep, CompleteStep DEF Serve
<1>2. ASSUME NEW w \in Workers, WorkerStep(w) \/ Renew(w) \/ WorkerRetries(w) \/ Crash(w)
      PROVE  JobQueueInv'
  BY <1>2, WorkerAcquires, WorkerLeased, WorkerExecuted, WorkerReplied, WorkerRenews,
     WorkerRetriesKeeps, CrashKeeps DEF WorkerStep
<1>3. CASE UNCHANGED vars
  <2>1. UNCHANGED <<storeVars, client, worker, renewed, faults>> /\ UNCHANGED brokerVars
        /\ call' = call /\ late' \subseteq late
    BY <1>3 DEF vars
  <2> QED BY <2>1, BrokerUnchanged, NobodyAnswered, AnsweringKeeps
<1> QED BY <1>1, <1>2, <1>3, TimerStep, ClientStepKeeps, ClientRetriesKeeps DEF Next

\* Every variable keeps its type, and the inductive invariant holds, in every
\* behaviour of the broker, the store, the clients and the workers.
THEOREM JobQueueInvariant == Spec => []JobQueueInv
BY InitHolds, NextKeeps, PTL DEF Spec

\* No expiry, late completion or abandoned lease loses a job from _order or puts
\* one there twice.
THEOREM QueueIsExact == Spec => []QueueHoldsQueued
<1>1. JobQueueInv => QueueHoldsQueued
  BY DEF JobQueueInv, BrokerInv
<1> QED BY <1>1, JobQueueInvariant, PTL

\* A leased job has exactly one armed timer, that of its present lease, and no
\* other job has any: every lease can be taken back, and only once.
THEOREM EveryLeaseWatched == Spec => []LeaseIsWatched
<1>1. ASSUME JobQueueInv, NEW i \in Jobs
      PROVE  IF job[i].state = "leased"
             THEN Cardinality(Armed(i)) = 1 /\ \A t \in Armed(i) : t.token = job[i].token
             ELSE Armed(i) = {}
  <2>1. Watched(i)
    BY <1>1 DEF JobQueueInv, BrokerInv, TimersWatch
  <2>2. \A t : Cardinality({t}) = 1
    BY FS_Singleton
  <2> QED BY <2>1, <2>2 DEF Watched
<1>2. JobQueueInv => LeaseIsWatched
  BY <1>1 DEF LeaseIsWatched, Armed
<1> QED BY <1>2, JobQueueInvariant, PTL

\* No job, and no logical submit, has two accepted effects, however often it was
\* resubmitted, leased anew, executed or reported.
THEOREM EffectsExactlyOnce == Spec => []ExactlyOnce
<1>1. ASSUME JobQueueInv, NEW m \in DOMAIN commits, NEW n \in DOMAIN commits,
             commits[m].value = commits[n].value
      PROVE  commits[m].job = commits[n].job
  <2>1. /\ commits[m].job \in Jobs /\ commits[m].value = job[commits[m].job].payload.value
        /\ commits[n].job \in Jobs /\ commits[n].value = job[commits[n].job].payload.value
    BY <1>1 DEF JobQueueInv, StoreInv, EffectsOfJobs
  <2>2. /\ \A i \in Jobs : job[i].key = <<job[i].payload.value, 0>>
        /\ \A i, j \in Jobs : job[i].key = job[j].key => i = j
    BY <1>1 DEF JobQueueInv, BrokerInv, OneJobPerKey
  <2>3. job[commits[m].job].key = <<commits[m].value, 0>>
    BY <2>1, <2>2, Zenon
  <2>4. job[commits[n].job].key = <<commits[n].value, 0>>
    BY <2>1, <2>2, Zenon
  <2>5. job[commits[m].job].key = job[commits[n].job].key
    BY <1>1, <2>3, <2>4, Zenon
  <2> QED BY <2>1, <2>2, <2>5, Zenon
<1>2. JobQueueInv => ExactlyOnce
  BY <1>1 DEF ExactlyOnce, JobQueueInv, StoreInv, EffectsOfJobs
<1> QED BY <1>2, JobQueueInvariant, PTL

\* What the broker calls done has its effect in the store.
THEOREM DoneMeansCommitted == Spec => []DoneIsCommitted
<1>1. JobQueueInv => DoneIsCommitted
  BY DEF JobQueueInv, StoreInv
<1> QED BY <1>1, JobQueueInvariant, PTL

\* What wait has told a client of its job is never taken back.
THEOREM AnswersStand == Spec => []AnswerStands
<1>1. JobQueueInv => AnswerStands
  BY DEF JobQueueInv
<1> QED BY <1>1, JobQueueInvariant, PTL

-----------------------------------------------------------------------------
(***************************************************************************)
(* Tokens.  A lease is named by its job and its token.  Whatever names one *)
(* is no newer than the job, and what claims one is of a single worker: a  *)
(* grant makes a token newer than any there is, and every other step only  *)
(* passes tokens on.                                                       *)
(***************************************************************************)

\* A request on its way or held, whether or not its caller still waits.
UnderWay(m) ==
    \/ \E x \in late : x.req = m
    \/ \E c \in Keys \cup Workers : call[c].st \in {"asked", "held"} /\ call[c].req = m

\* Lease t of job i is in w's hands: it works under it, has it in an answer, or
\* has asked to complete the job by it.
Works(w, i, t) ==
    worker[w].st \in {"executing", "completing"} /\ worker[w].job = i /\ worker[w].token = t
Granted(w, i, t) ==
    /\ worker[w].st = "acquiring" /\ call[w].st = "answered" /\ call[w].reply # NoJob
    /\ call[w].reply.job = i /\ call[w].reply.token = t
Reports(w, i, t) ==
    \E m \in CompleteRequests : UnderWay(m) /\ m.from[1] = w /\ m.job = i /\ m.token = t
Holds(w, i, t) == Works(w, i, t) \/ Granted(w, i, t) \/ Reports(w, i, t)

\* The lease is one that was granted.
Within(i, t) == i \in Jobs /\ t \in 1 .. job[i].token

HoldersWithin == \A w \in Workers : \A i, t \in Nat : Holds(w, i, t) => Within(i, t)
OneHolder == \A v, w \in Workers : \A i, t \in Nat : Holds(v, i, t) /\ Holds(w, i, t) => v = w
RenewalsWithin == \A m \in RenewRequests : UnderWay(m) => Within(m.job, m.token)
StoreWithin ==
    /\ \A i \in 1 .. MaxJobs : newest[i] = 0 \/ Within(i, newest[i])
    /\ \A n \in DOMAIN commits : Within(commits[n].job, commits[n].token)

TokenInv == HoldersWithin /\ OneHolder /\ RenewalsWithin /\ StoreWithin

-----------------------------------------------------------------------------
\* What a step does to tokens: they rise, g may be granted the next one of a
\* job, and whatever else names a lease has it from a holder.
TokensRise == \A i \in Jobs : i \in Jobs' /\ job[i].token <= job'[i].token

Fresh(g, w, i, t) ==
    w = g /\ i \in Jobs /\ i \in Jobs' /\ t = job[i].token + 1 /\ job'[i].token = t
HoldsStep(g) ==
    \A w \in Workers : \A i, t \in Nat : Holds(w, i, t)' => Holds(w, i, t) \/ Fresh(g, w, i, t)

IsHeld(i, t) == \E w \in Workers : Holds(w, i, t)
RenewalStep == \A m \in RenewRequests : UnderWay(m)' => UnderWay(m) \/ IsHeld(m.job, m.token)
StoreStep ==
    /\ \A i \in 1 .. MaxJobs : newest'[i] = newest[i] \/ IsHeld(i, newest'[i])
    /\ \A n \in DOMAIN commits' : \/ n \in DOMAIN commits /\ commits'[n] = commits[n]
                                  \/ IsHeld(commits'[n].job, commits'[n].token)

TokenStep == TokensRise /\ (\E g : HoldsStep(g)) /\ RenewalStep /\ StoreStep

\* The broker's numbers.
LEMMA TokenTypes ==
    ASSUME JobQueueInv
    PROVE  /\ \A i \in Jobs : i \in Nat /\ job[i].token \in Nat /\ job[i] \in JobRecords
           /\ newest \in [1 .. MaxJobs -> Nat] /\ commits \in Seq(Effects)
           /\ \A n \in DOMAIN commits : commits[n].job \in Nat /\ commits[n].token \in Nat
<1>1. job \in Seq(JobRecords) /\ newest \in [1 .. MaxJobs -> Nat] /\ commits \in Seq(Effects)
  BY DEF JobQueueInv, TypeOK, BrokerTypes, StoreTypes
<1>2. \A i \in Jobs : i \in Nat /\ job[i] \in JobRecords
  BY <1>1 DEF Jobs
<1>3. \A n \in DOMAIN commits : commits[n] \in Effects
  BY <1>1
<1> QED BY <1>1, <1>2, <1>3 DEF JobRecords, Effects

LEMMA TokensKept ==
    ASSUME JobQueueInv, JobQueueInv', TokenInv, TokenStep
    PROVE  TokenInv'
<1>1. \A i \in Jobs' : i \in Nat /\ job'[i].token \in Nat
  <2>1. job' \in Seq(JobRecords)
    BY DEF JobQueueInv, TypeOK, BrokerTypes
  <2>2. \A i \in DOMAIN job' : i \in Nat /\ job'[i] \in JobRecords
    BY <2>1
  <2> QED BY <2>2 DEF Jobs, JobRecords
<1>2. \A i \in Jobs : job[i].token \in Nat
  BY TokenTypes
<1>3. ASSUME NEW i, NEW t, Within(i, t) PROVE i \in Jobs' /\ t \in 1 .. job'[i].token
  BY <1>1, <1>2, <1>3 DEF Within, TokenStep, TokensRise
<1>4. \A i, t \in Nat : IsHeld(i, t) => Within(i, t)
  BY DEF TokenInv, HoldersWithin, IsHeld
<1>5. PICK g : HoldsStep(g)
  BY DEF TokenStep
<1>6. HoldersWithin'
  <2>1. ASSUME NEW w \in Workers, NEW i \in Nat, NEW t \in Nat, Holds(w, i, t)' PROVE Within(i, t)'
    <3>1. CASE Holds(w, i, t)
      BY <1>3, <3>1 DEF TokenInv, HoldersWithin, Within
    <3>2. CASE Fresh(g, w, i, t)
      BY <1>1, <1>2, <3>2 DEF Fresh, Within
    <3> QED BY <1>5, <2>1, <3>1, <3>2 DEF HoldsStep
  <2> QED BY <2>1 DEF HoldersWithin
<1>7. OneHolder'
  <2>1. ASSUME NEW v \in Workers, NEW w \in Workers, NEW i \in Nat, NEW t \in Nat,
               Holds(v, i, t)', Holds(w, i, t)'
        PROVE  v = w
    <3>1. /\ Holds(v, i, t) \/ Fresh(g, v, i, t)
          /\ Holds(w, i, t) \/ Fresh(g, w, i, t)
      BY <1>5, <2>1 DEF HoldsStep
    <3>2. \A u \in Workers : Holds(u, i, t) => Within(i, t)
      BY DEF TokenInv, HoldersWithin
    <3>3. \A u \in Workers : Fresh(g, u, i, t) => ~Within(i, t) /\ u = g
      BY <1>2 DEF Fresh, Within
    <3> QED BY <3>1, <3>2, <3>3 DEF TokenInv, OneHolder
  <2> QED BY <2>1 DEF OneHolder
<1>8. RenewalsWithin'
  <2>1. \A m \in RenewRequests : m.job \in Nat /\ m.token \in Nat
    BY DEF RenewRequests
  <2>2. \A m \in RenewRequests : UnderWay(m)' => Within(m.job, m.token)
    BY <1>4, <2>1 DEF TokenStep, RenewalStep, TokenInv, RenewalsWithin
  <2> QED BY <1>3, <2>2 DEF RenewalsWithin, Within
<1>9. StoreWithin'
  <2>1. MaxJobs' = MaxJobs /\ newest' \in [1 .. MaxJobs -> Nat]
        /\ \A n \in DOMAIN commits' : commits'[n].job \in Nat /\ commits'[n].token \in Nat
    <3>1. newest' \in [1 .. MaxJobs -> Nat] /\ commits' \in Seq(Effects)
      BY DEF JobQueueInv, TypeOK, StoreTypes, MaxJobs
    <3>2. \A n \in DOMAIN commits' : commits'[n] \in Effects
      BY <3>1
    <3> QED BY <3>1, <3>2 DEF Effects, MaxJobs
  <2>2. ASSUME NEW i \in 1 .. MaxJobs, newest'[i] # 0 PROVE Within(i, newest'[i])
    <3>1. i \in Nat /\ newest'[i] \in Nat
      BY <2>1
    <3> QED BY <1>4, <2>2, <3>1 DEF TokenStep, StoreStep, TokenInv, StoreWithin
  <2>3. ASSUME NEW n \in DOMAIN commits' PROVE Within(commits'[n].job, commits'[n].token)
    BY <1>4, <2>1 DEF TokenStep, StoreStep, TokenInv, StoreWithin
  <2>4. \A i \in 1 .. MaxJobs :
           newest'[i] = 0 \/ (i \in Jobs' /\ newest'[i] \in 1 .. job'[i].token)
    BY <1>3, <2>2
  <2>5. \A n \in DOMAIN commits' :
           commits'[n].job \in Jobs' /\ commits'[n].token \in 1 .. job'[commits'[n].job].token
    BY <1>3, <2>3
  <2> QED BY <2>1, <2>4, <2>5 DEF StoreWithin, Within
<1> QED BY <1>6, <1>7, <1>8, <1>9 DEF TokenInv

-----------------------------------------------------------------------------
\* Jobs are only ever added, or replaced by a record with no older a token.
LEMMA JobRises ==
    ASSUME JobQueueInv, NEW i \in Jobs, NEW r, job' = [job EXCEPT ![i] = r],
           r.token \in {job[i].token, job[i].token + 1}
    PROVE  TokensRise /\ Jobs' = Jobs /\ job'[i] = r
<1>1. job \in Seq(JobRecords) /\ i \in DOMAIN job
  BY DEF JobQueueInv, TypeOK, BrokerTypes, Jobs
<1>2. Jobs' = Jobs /\ job'[i] = r /\ \A j \in Jobs \ {i} : job'[j] = job[j]
  BY <1>1 DEF Jobs
<1>3. \A j \in Jobs : job[j].token \in Nat
  BY TokenTypes
<1> QED BY <1>2, <1>3 DEF TokensRise

LEMMA JobsStay ==
    ASSUME JobQueueInv, job' = job
    PROVE  TokensRise
BY TokenTypes DEF TokensRise, Jobs

\* The broker answers x with r; what the callers wait for is otherwise as it was.
Gives(g, x, r) ==
    \A w \in Workers :
        \/ call'[w] = call[w]
        \/ call'[w].st = "held"
        \/ /\ w = g /\ call[w].st \in {"asked", "held"} /\ call[w].req = x.req
           /\ call'[w].st = "answered" /\ call'[w].reply = r

\* A lease the broker grants now.
Grants(r) ==
    /\ r.job \in Jobs /\ r.job \in Jobs'
    /\ r.token = job[r.job].token + 1 /\ job'[r.job].token = r.token

LEMMA RespondGives ==
    ASSUME JobQueueInv, NEW x \in Pending, NEW r, Respond(x, r)
    PROVE  \E g : Gives(g, x, r)
<1>1. call \in [Keys \cup Workers -> Calls] /\ x.st \in {"asked", "held"}
  BY PendingShapes DEF JobQueueInv, TypeOK, CallerTypes
<1>2. CASE call' = call
  BY <1>2 DEF Gives
<1>3. CASE \E c \in Keys \cup Workers : call[c] = x /\ call' = [call EXCEPT ![c] = Answered(r)]
  <2>1. PICK c \in Keys \cup Workers : call[c] = x /\ call' = [call EXCEPT ![c] = Answered(r)]
    BY <1>3
  <2>2. Answered(r).st = "answered" /\ Answered(r).reply = r
    BY DEF Answered
  <2>3. \A w \in Workers : call'[w] = call[w] \/ (w = c /\ call'[w] = Answered(r))
    BY <1>1, <2>1
  <2>4. Gives(c, x, r)
    BY <1>1, <2>1, <2>2, <2>3 DEF Gives
  <2> QED BY <2>4
<1> QED BY <1>2, <1>3 DEF Respond

\* A step of the broker passes no lease on but by granting it.
LEMMA AnswersTokens ==
    ASSUME JobQueueInv, Answering, TokensRise, UNCHANGED <<storeVars, worker>>,
           NEW x, NEW r, \E g : Gives(g, x, r),
           x.req.op = "acquire" => r = NoJob \/ Grants(r)
    PROVE  TokenStep
<1> PICK g : Gives(g, x, r)
  OBVIOUS
<1>1. newest' = newest /\ commits' = commits /\ worker' = worker
  BY DEF storeVars
<1>2. ASSUME NEW m, UnderWay(m)' PROVE UnderWay(m)
  <2>1. CASE \E y \in late' : y.req = m
    BY <2>1 DEF Answering, UnderWay
  <2>2. CASE \E c \in Keys \cup Workers : call'[c].st \in {"asked", "held"} /\ call'[c].req = m
    BY <2>2 DEF Answering, UnderWay
  <2> QED BY <1>2, <2>1, <2>2 DEF UnderWay
<1>3. HoldsStep(g)
  <2>1. ASSUME NEW w \in Workers, NEW i \in Nat, NEW t \in Nat, Holds(w, i, t)'
        PROVE  Holds(w, i, t) \/ Fresh(g, w, i, t)
    <3>1. CASE Works(w, i, t)'
      BY <1>1, <3>1 DEF Works, Holds
    <3>2. CASE Reports(w, i, t)'
      BY <1>2, <3>2 DEF Reports, Holds
    <3>3. CASE Granted(w, i, t)'
      <4>1. CASE call'[w] = call[w]
        BY <1>1, <3>3, <4>1 DEF Granted, Holds
      <4>2. CASE /\ w = g /\ call[w].st \in {"asked", "held"} /\ call[w].req = x.req
                 /\ call'[w].reply = r
        <5>1. /\ worker[w].st = "acquiring" /\ r # NoJob /\ r.job = i /\ r.token = t
          BY <1>1, <3>3, <4>2 DEF Granted
        <5>2. x.req.op = "acquire"
          BY <4>2, <5>1, WorkerIs DEF WorkerMatches
        <5> QED BY <4>2, <5>1, <5>2 DEF Grants, Fresh
      <4>3. call'[w].st # "held"
        BY <3>3 DEF Granted
      <4> QED BY <4>1, <4>2, <4>3 DEF Gives
    <3> QED BY <2>1, <3>1, <3>2, <3>3 DEF Holds
  <2> QED BY <2>1 DEF HoldsStep
<1>4. RenewalStep
  BY <1>2 DEF RenewalStep
<1>5. StoreStep
  BY <1>1 DEF StoreStep
<1> QED BY <1>3, <1>4, <1>5 DEF TokenStep

LEMMA SubmitTokens ==
    ASSUME JobQueueInv, NEW x \in Pending, HandleSubmit(x)
    PROVE  TokenStep
<1>1. x.req \in SubmitRequests /\ Honest(x.req) /\ x.req.op = "submit"
  BY PendingShapes, RequestShapes DEF HandleSubmit
<1>2. UNCHANGED <<storeVars, client, worker, renewed, faults>> /\ timers' = timers
  BY DEF HandleSubmit
<1> DEFINE known == {i \in Jobs : job[i].key = x.req.key}
<1>3. CASE known # {}
  <2>1. PICK r \in known : Respond(x, r) /\ job' = job
    <3>1. (CHOOSE i \in known : TRUE) \in known
      BY <1>3
    <3> QED BY <1>3, <3>1 DEF HandleSubmit
  <2>2. r \in Jobs' /\ r \in Nat
    BY <2>1, TokenTypes DEF Jobs
  <2>3. Answering
    BY <1>1, <2>1, <2>2, RespondAnswers DEF Fits, Replies
  <2> QED BY <1>1, <1>2, <2>1, <2>3, JobsStay, RespondGives, AnswersTokens
<1>4. CASE known = {}
  <2> DEFINE j == [key |-> x.req.key, payload |-> x.req.payload, state |-> "queued",
                   attempts |-> 0, token |-> 0, ready |-> TRUE]
  <2>1. /\ Respond(x, Len(job) + 1) /\ job' = Append(job, j)
        /\ order' = Append(order, Len(job) + 1)
    BY <1>4 DEF HandleSubmit
  <2>2. Len(job) + 1 \in Jobs'
    BY <1>1, <1>2, <1>4, <2>1, SubmitBroker, BrokerIsOK
  <2>3. job \in Seq(JobRecords)
    BY DEF JobQueueInv, TypeOK, BrokerTypes
  <2>4. Len(job) + 1 \in Replies
    BY <2>3 DEF Replies
  <2>5. Answering
    BY <1>1, <2>1, <2>2, <2>4, RespondAnswers DEF Fits
  <2> HIDE DEF j
  <2>6. \A i \in Jobs : i \in Jobs' /\ job'[i] = job[i]
    BY <2>1, <2>3 DEF Jobs
  <2>7. TokensRise
    BY <2>6, TokenTypes DEF TokensRise
  <2> QED BY <1>1, <1>2, <2>1, <2>5, <2>7, RespondGives, AnswersTokens
<1> QED BY <1>3, <1>4

LEMMA AcquireTokens ==
    ASSUME JobQueueInv, NEW x \in Pending, HandleAcquire(x)
    PROVE  TokenStep
<1>1. x \in Sent /\ x.st \in {"asked", "held"} /\ x.req \in Requests /\ x.req.op = "acquire"
  BY PendingShapes DEF HandleAcquire
<1>2. UNCHANGED <<storeVars, client, worker, renewed, faults>>
  BY DEF HandleAcquire
<1>3. CASE /\ NextReady # 0
           /\ Lease(order[NextReady])
           /\ Respond(x, [job |-> order[NextReady], token |-> job[order[NextReady]].token + 1])
  <2>1. NextReady \in DOMAIN order /\ Ready(order[NextReady])
    BY <1>3, NextReadyIs DEF JobQueueInv, TypeOK, BrokerTypes
  <2>2. PICK i \in Jobs : i = order[NextReady] /\ job[i].state = "queued"
    BY <2>1 DEF JobQueueInv, BrokerInv, QueueHoldsQueued, ToSet
  <2> DEFINE s == [job[i] EXCEPT !.state = "leased", !.token = job[i].token + 1,
                                 !.attempts = job[i].attempts + 1]
             r == [job |-> i, token |-> job[i].token + 1]
  <2>3. job[i] \in JobRecords /\ i \in Nat /\ job[i].token \in Nat
    BY <2>2, TokenTypes
  <2>4. s.token = job[i].token + 1 /\ job' = [job EXCEPT ![i] = s]
    BY <1>3, <2>2, <2>3, Zenon DEF Lease, JobRecords
  <2> HIDE DEF s
  <2>5. TokensRise /\ Jobs' = Jobs /\ job'[i] = s
    BY <2>4, JobRises
  <2>6. Grants(r)
    BY <2>2, <2>4, <2>5 DEF Grants
  <2>7. r \in Replies /\ Fits(x.req, r)
    BY <1>1, <2>2, <2>3, <2>5 DEF Replies, Fits
  <2>8. Respond(x, r)
    BY <1>3, <2>2
  <2> HIDE DEF r
  <2>9. Answering
    BY <2>7, <2>8, RespondAnswers
  <2> QED BY <1>2, <2>5, <2>6, <2>8, <2>9, RespondGives, AnswersTokens
<1> DEFINE h == Held(x.req)
<1>a. h \in Sent /\ h.st = "held" /\ h.req = x.req /\ h \in Calls
  BY <1>1 DEF Held, Sent, Calls
<1>b. call \in [Keys \cup Workers -> Calls] /\ late \subseteq Sent
  BY DEF JobQueueInv, TypeOK, CallerTypes
<1> HIDE DEF h
<1>4. CASE /\ x \in late /\ late' = (late \ {x}) \cup {h} /\ call' = call
           /\ UNCHANGED brokerVars
  <2>1. \A y \in late' : y \in Sent /\ \E z \in late : y.req = z.req
    BY <1>4, <1>a, <1>b
  <2>2. Answering /\ \E g : Gives(g, x, NoJob)
    BY <1>4, <1>b, <2>1 DEF Answering, Gives
  <2> QED BY <1>2, <1>4, <2>2, JobsStay, AnswersTokens DEF brokerVars
<1>5. CASE /\ x.st = "asked" /\ UNCHANGED brokerVars
           /\ \E c \in Workers : call[c] = x /\ call' = [call EXCEPT ![c] = h] /\ late' = late
  <2>1. PICK c \in Workers : call[c] = x /\ call' = [call EXCEPT ![c] = h] /\ late' = late
    BY <1>5
  <2>2. call' \in [Keys \cup Workers -> Calls]
    BY <1>a, <1>b, <2>1
  <2>3. \A d \in Keys \cup Workers :
          call'[d] = call[d] \/ (call[d].st = "asked" /\ call'[d].st = "held" /\ call'[d].req = call[d].req)
    BY <1>5, <1>a, <1>b, <2>1
  <2>4. Answering /\ \E g : Gives(g, x, NoJob)
    BY <1>b, <2>1, <2>2, <2>3 DEF Answering, Gives
  <2> QED BY <1>2, <1>5, <2>4, JobsStay, AnswersTokens DEF brokerVars
<1>6. CASE x.st = "held" /\ Respond(x, NoJob) /\ UNCHANGED brokerVars
  <2>1. NoJob \in Replies /\ Fits(x.req, NoJob)
    BY <1>1 DEF NoJob, Replies, Fits
  <2>2. Answering /\ \E g : Gives(g, x, NoJob)
    BY <1>6, <2>1, RespondAnswers, RespondGives
  <2> QED BY <1>2, <1>6, <2>2, JobsStay, AnswersTokens DEF brokerVars
<1> QED BY <1>3, <1>4, <1>5, <1>6 DEF HandleAcquire, h

\* The broker's steps that answer nobody.
LEMMA QuietTokens ==
    ASSUME JobQueueInv, TokensRise, call' = call, late' \subseteq late,
           UNCHANGED <<storeVars, worker>>
    PROVE  TokenStep
<1>1. PICK x : x = Asked([op |-> "none"])
  OBVIOUS
<1>2. x.req.op # "acquire"
  BY <1>1 DEF Asked
<1>3. \E g : Gives(g, x, NoJob)
  BY DEF Gives
<1> QED BY <1>2, <1>3, NobodyAnswered, AnswersTokens

LEMMA CompleteTokens ==
    ASSUME JobQueueInv, NEW x \in Pending, HandleComplete(x)
    PROVE  TokenStep
<1>1. x.req.op = "complete" /\ UNCHANGED <<storeVars, client, worker, renewed, faults>>
  BY DEF HandleComplete
<1>2. PICK i : i = x.req.job
  OBVIOUS
<1>3. PICK r \in BOOLEAN : Respond(x, r)
  BY Zenon DEF HandleComplete
<1>4. Answering
  BY <1>1, <1>3, RespondAnswers DEF Fits, Replies
<1>5. CASE Completes(i, x.req.token)
  <2> DEFINE s == [job[i] EXCEPT !.state = "done"]
  <2>1. i \in Jobs
    BY <1>5 DEF Completes, Is
  <2>2. job[i] \in JobRecords
    BY <2>1, TokenTypes
  <2>3. s.token = job[i].token
    BY <2>2, Zenon DEF JobRecords
  <2>4. job' = [job EXCEPT ![i] = s]
    BY <1>2, <1>5, Zenon DEF HandleComplete
  <2> HIDE DEF s
  <2>5. TokensRise
    BY <2>1, <2>3, <2>4, JobRises
  <2> QED BY <1>1, <1>3, <1>4, <2>5, RespondGives, AnswersTokens
<1>6. CASE ~Completes(i, x.req.token)
  <2>1. job' = job
    BY <1>2, <1>6, Zenon DEF HandleComplete, brokerVars
  <2> QED BY <1>1, <1>3, <1>4, <2>1, JobsStay, RespondGives, AnswersTokens
<1> QED BY <1>5, <1>6

LEMMA TimerTokens ==
    ASSUME JobQueueInv, TimerFires
    PROVE  TokenStep
<1>1. ASSUME NEW i \in Jobs, NEW s, job' = [job EXCEPT ![i] = s], s.token = job[i].token
      PROVE  TokensRise
  BY <1>1, JobRises
<1>2. ASSUME NEW t \in timers, Expire(t) PROVE TokensRise
  <2>1. t.job \in Jobs
    BY DEF JobQueueInv, BrokerInv, TimersWatch
  <2>2. PICK i \in Jobs : i = t.job
    BY <2>1
  <2>3. job[i] \in JobRecords
    BY TokenTypes
  <2>4. CASE job' = [job EXCEPT ![i].state = "dead"]
    <3> DEFINE s == [job[i] EXCEPT !.state = "dead"]
    <3>1. s.token = job[i].token /\ job' = [job EXCEPT ![i] = s]
      BY <2>3, <2>4, Zenon DEF JobRecords
    <3> QED BY <1>1, <3>1
  <2>5. CASE job' = [job EXCEPT ![i].state = "queued", ![i].ready = FALSE]
    <3> DEFINE s == [job[i] EXCEPT !.state = "queued", !.ready = FALSE]
    <3>1. s.token = job[i].token /\ job' = [job EXCEPT ![i] = s]
      BY <2>3, <2>5, Zenon DEF JobRecords
    <3> QED BY <1>1, <3>1
  <2>6. CASE job' = job
    BY <2>6, JobsStay
  <2> QED BY <1>2, <2>2, <2>4, <2>5, <2>6, Zenon DEF Expire
<1>3. ASSUME NEW i \in Jobs, BackoffOver(i) PROVE TokensRise
  <2> DEFINE s == [job[i] EXCEPT !.ready = TRUE]
  <2>1. job[i] \in JobRecords
    BY TokenTypes
  <2>2. s.token = job[i].token /\ job' = [job EXCEPT ![i] = s]
    BY <1>3, <2>1, Zenon DEF JobRecords, BackoffOver
  <2> QED BY <1>1, <2>2
<1>4. call' = call /\ late' = late /\ UNCHANGED <<storeVars, worker>>
  BY Zenon DEF TimerFires, Expire, BackoffOver
<1> QED BY <1>2, <1>3, <1>4, QuietTokens DEF TimerFires

-----------------------------------------------------------------------------
\* What is under way after a caller's step was so before, but for what it sends.
LEMMA UnderWayBefore ==
    ASSUME JobQueueInv, NEW c \in Keys \cup Workers, NEW y, call' = [call EXCEPT ![c] = y],
           Abandons(c), NEW m, UnderWay(m)'
    PROVE  UnderWay(m) \/ (y.st \in {"asked", "held"} /\ y.req = m)
<1>1. call \in [Keys \cup Workers -> Calls]
  BY DEF JobQueueInv, TypeOK, CallerTypes
<1>2. CASE \E x \in late' : x.req = m
  <2>1. PICK x \in late' : x.req = m
    BY <1>2
  <2>2. x \in late \/ (x = call[c] /\ call[c].st \in {"asked", "held"})
    BY <2>1 DEF Abandons
  <2> QED BY <2>1, <2>2 DEF UnderWay
<1>3. CASE \E d \in Keys \cup Workers : call'[d].st \in {"asked", "held"} /\ call'[d].req = m
  BY <1>1, <1>3 DEF UnderWay
<1> QED BY <1>2, <1>3 DEF UnderWay

\* A client's step touches no token.
LEMMA ClientTokens ==
    ASSUME JobQueueInv, NEW k \in Keys, NEW y, call' = [call EXCEPT ![k] = y], Abandons(k),
           y.st \in {"asked", "held"} => y.req.op = "submit",
           UNCHANGED <<job, storeVars, worker>>
    PROVE  TokenStep
<1>1. /\ job' = job /\ newest' = newest /\ commits' = commits /\ worker' = worker
      /\ call \in [Keys \cup Workers -> Calls] /\ k \notin Workers
  BY JobQueueAssumption DEF storeVars, JobQueueInv, TypeOK, CallerTypes
<1>2. ASSUME NEW m, m.op # "submit", UnderWay(m)' PROVE UnderWay(m)
  BY <1>2, UnderWayBefore
<1>3. \A w \in Workers : call'[w] = call[w]
  BY <1>1
<1>4. HoldsStep(k)
  <2>1. \A m \in CompleteRequests : m.op # "submit"
    BY DEF CompleteRequests
  <2>2. ASSUME NEW w \in Workers, NEW i \in Nat, NEW t \in Nat, Holds(w, i, t)' PROVE Holds(w, i, t)
    BY <1>1, <1>2, <1>3, <2>1, <2>2 DEF Holds, Works, Granted, Reports
  <2> QED BY <2>2 DEF HoldsStep
<1>5. RenewalStep
  <2>1. \A m \in RenewRequests : m.op # "submit"
    BY DEF RenewRequests
  <2> QED BY <1>2, <2>1 DEF RenewalStep
<1>6. StoreStep
  BY <1>1 DEF StoreStep
<1> QED BY <1>1, <1>4, <1>5, <1>6, JobsStay DEF TokenStep

\* A worker's step passes on what it holds.
LEMMA WorkerTokens ==
    ASSUME JobQueueInv, job' = job, NEW w \in Workers, NEW s, NEW y,
           worker' = [worker EXCEPT ![w] = s], call' = [call EXCEPT ![w] = y], Abandons(w),
           s.st \in {"executing", "completing"} => Holds(w, s.job, s.token),
           y.st \in {"none", "asked"},
           y.st = "asked" => y.req.op \in {"acquire", "complete"},
           y.st = "asked" /\ y.req.op = "complete" =>
              y.req.from[1] = w /\ Holds(w, y.req.job, y.req.token),
           StoreStep
    PROVE  TokenStep
<1>1. worker \in [Workers -> WorkerRecords] /\ call \in [Keys \cup Workers -> Calls]
  BY WorkerIs
<1>2. ASSUME NEW m, UnderWay(m)' PROVE UnderWay(m) \/ (y.st = "asked" /\ y.req = m)
  BY <1>2, UnderWayBefore
<1>3. ASSUME NEW v \in Workers, NEW i \in Nat, NEW t \in Nat, Holds(v, i, t)'
      PROVE  Holds(v, i, t)
  <2>1. CASE Reports(v, i, t)'
    <3>1. PICK m \in CompleteRequests : UnderWay(m)' /\ m.from[1] = v /\ m.job = i /\ m.token = t
      BY <2>1 DEF Reports
    <3>2. m.op = "complete"
      BY DEF CompleteRequests
    <3>3. CASE UnderWay(m)
      BY <3>1, <3>3 DEF Reports, Holds
    <3>4. CASE y.st = "asked" /\ y.req = m
      BY <3>1, <3>2, <3>4
    <3> QED BY <1>2, <3>1, <3>3, <3>4
  <2>2. CASE Works(v, i, t)'
    <3>1. CASE v = w
      BY <1>1, <2>2, <3>1 DEF Works
    <3>2. CASE v # w
      BY <1>1, <2>2, <3>2 DEF Works, Holds
    <3> QED BY <3>1, <3>2
  <2>3. CASE Granted(v, i, t)'
    <3>1. v # w
      BY <1>1, <2>3 DEF Granted
    <3> QED BY <1>1, <2>3, <3>1 DEF Granted, Holds
  <2> QED BY <1>3, <2>1, <2>2, <2>3 DEF Holds
<1>4. HoldsStep(w)
  BY <1>3 DEF HoldsStep
<1>5. RenewalStep
  <2>1. \A m \in RenewRequests : m.op = "renew"
    BY DEF RenewRequests
  <2> QED BY <1>2, <2>1 DEF RenewalStep
<1> QED BY <1>4, <1>5, JobsStay DEF TokenStep

LEMMA StoreStays ==
    ASSUME UNCHANGED storeVars
    PROVE  StoreStep
BY DEF StoreStep, storeVars

\* The store notes the token of a lease that is held.
LEMMA NotedTokens ==
    ASSUME JobQueueInv, NEW i, NEW token, Noted(i, token), IsHeld(i, token)
    PROVE  \A j \in 1 .. MaxJobs : newest'[j] = newest[j] \/ IsHeld(j, newest'[j])
BY TokenTypes DEF Noted

LEMMA LeavesTokens ==
    ASSUME JobQueueInv, job' = job, NEW w \in Workers, StoreStep,
           worker' = [worker EXCEPT ![w] = Resting], call' = [call EXCEPT ![w] = NoCall], Abandons(w)
    PROVE  TokenStep
BY RestingIs, WorkerTokens

LEMMA LeasedTokens ==
    ASSUME JobQueueInv, NEW w \in Workers, Leased(w)
    PROVE  TokenStep
<1>1. /\ call' = [call EXCEPT ![w] = NoCall]
      /\ job' = job /\ commits' = commits /\ late' = late
      /\ worker[w].st = "acquiring" /\ call[w].st = "answered"
  BY DEF Leased, brokerVars
<1>2. PICK r : r = call[w].reply
  OBVIOUS
<1>3. Abandons(w)
  BY <1>1 DEF Abandons
<1>4. CASE r = NoJob \/ StaleAtStore(r.job, r.token)
  <2>1. worker' = [worker EXCEPT ![w] = Resting] /\ newest' = newest
    BY <1>2, <1>4, Zenon DEF Leased
  <2>2. StoreStep
    BY <1>1, <2>1, StoreStays DEF storeVars
  <2> QED BY <1>1, <1>3, <2>1, <2>2, LeavesTokens
<1>5. CASE ~(r = NoJob \/ StaleAtStore(r.job, r.token))
  <2> DEFINE s == [st |-> "executing", job |-> r.job, token |-> r.token, try |-> 0]
  <2>1. worker' = [worker EXCEPT ![w] = s] /\ Noted(r.job, r.token)
    BY <1>2, <1>5, Zenon DEF Leased
  <2>2. Holds(w, r.job, r.token)
    BY <1>1, <1>2, <1>5 DEF Holds, Granted
  <2>3. s.st = "executing" /\ s.job = r.job /\ s.token = r.token
    OBVIOUS
  <2> HIDE DEF s
  <2>4. StoreStep
    BY <1>1, <2>1, <2>2, NotedTokens DEF StoreStep, IsHeld
  <2> QED BY <1>1, <1>3, <2>1, <2>2, <2>3, <2>4, RestingIs, WorkerTokens
<1> QED BY <1>4, <1>5

LEMMA ExecutedTokens ==
    ASSUME JobQueueInv, NEW w \in Workers, Executed(w)
    PROVE  TokenStep
<1>1. worker[w].st = "executing" /\ job' = job /\ late' = late
  BY Zenon DEF Executed, brokerVars
<1>2. PICK i \in Jobs : i = worker[w].job
  BY <1>1, WorkerIs DEF WorkerMatches
<1>3. PICK token \in Nat : token = worker[w].token
  BY WorkerIs DEF WorkerRecords
<1>4. PICK outcome : outcome = CommitOutcome(i, token)
  OBVIOUS
<1>5. Holds(w, i, token) /\ IsHeld(i, token)
  BY <1>1, <1>2, <1>3 DEF Holds, Works, IsHeld
<1> DEFINE r == [worker[w] EXCEPT !.st = "completing", !.try = 1]
<1>6. /\ WalksAway(i, outcome) => worker' = [worker EXCEPT ![w] = Resting] /\ call' = call
      /\ ~WalksAway(i, outcome) => /\ worker' = [worker EXCEPT ![w] = r]
                                   /\ call' = [call EXCEPT ![w] = WorkerCall(w, worker'[w])]
  BY <1>2, <1>3, <1>4, WorkerIs, Zenon DEF Executed, WorkerRecords
<1>7. r \in WorkerRecords /\ r.st = "completing" /\ r.job = i /\ r.token = token
  <2>1. worker[w] \in WorkerRecords /\ 1 \in Nat
    BY WorkerIs
  <2> QED BY <1>2, <1>3, <2>1, Zenon DEF WorkerRecords
<1> HIDE DEF r
<1>8. StoreStep
  <2>1. CASE UNCHANGED storeVars
    BY <2>1, StoreStays
  <2>2. CASE /\ Noted(i, token)
             /\ commits' = Append(commits, [job |-> i, token |-> token,
                                            value |-> job[i].payload.value])
    <3> DEFINE e == [job |-> i, token |-> token, value |-> job[i].payload.value]
    <3>1. commits \in Seq(Effects) /\ commits' = Append(commits, e)
      BY <2>2, TokenTypes
    <3>2. e.job = i /\ e.token = token
      OBVIOUS
    <3> HIDE DEF e
    <3>3. \A n \in DOMAIN commits' : \/ n \in DOMAIN commits /\ commits'[n] = commits[n]
                                     \/ commits'[n] = e
      BY <3>1
    <3> QED BY <1>5, <2>2, <3>2, <3>3, NotedTokens DEF StoreStep
  <2> QED BY <1>2, <1>3, <1>4, <2>1, <2>2, Zenon DEF Executed
<1>9. Abandons(w)
  BY <1>1 DEF Abandons
<1>10. CASE WalksAway(i, outcome)
  <2>1. call[w].st = "none"
    BY <1>1, WorkerIs, CallShapes DEF WorkerMatches
  <2>2. call' = [call EXCEPT ![w] = NoCall]
    BY <1>6, <1>10, <2>1, WorkerIs, CallShapes
  <2> QED BY <1>1, <1>6, <1>8, <1>9, <1>10, <2>2, LeavesTokens
<1>11. CASE ~WalksAway(i, outcome)
  <2> DEFINE y == WorkerCall(w, r)
  <2>1. worker' = [worker EXCEPT ![w] = r] /\ call' = [call EXCEPT ![w] = y]
    BY <1>6, <1>11, WorkerIs
  <2>2. /\ y.st = "asked" /\ y.req.op = "complete" /\ y.req.from[1] = w
        /\ y.req.job = i /\ y.req.token = token
    BY <1>7, WorkerCallIs
  <2> HIDE DEF y
  <2> QED BY <1>1, <1>5, <1>7, <1>8, <1>9, <2>1, <2>2, WorkerTokens
<1> QED BY <1>10, <1>11

LEMMA RenewTokens ==
    ASSUME JobQueueInv, NEW w \in Workers, Renew(w)
    PROVE  TokenStep
<1>1. PICK m : m = [op |-> "renew", job |-> worker[w].job, token |-> worker[w].token]
  OBVIOUS
<1>2. /\ late' = late \cup {Asked(m)} /\ call' = call /\ worker' = worker
      /\ worker[w].st \in {"executing", "completing"} /\ job' = job
      /\ UNCHANGED storeVars
  BY <1>1 DEF Renew, brokerVars
<1>3. Asked(m).req = m /\ m.op = "renew" /\ IsHeld(m.job, m.token)
  BY <1>1, <1>2 DEF Asked, IsHeld, Holds, Works
<1>4. ASSUME NEW q, UnderWay(q)' PROVE UnderWay(q) \/ q = m
  BY <1>2, <1>3, <1>4 DEF UnderWay
<1>5. HoldsStep(w)
  <2>1. \A q \in CompleteRequests : q # m
    BY <1>3 DEF CompleteRequests
  <2> QED BY <1>2, <1>4, <2>1 DEF HoldsStep, Holds, Works, Granted, Reports
<1>6. RenewalStep
  BY <1>3, <1>4 DEF RenewalStep
<1> QED BY <1>2, <1>5, <1>6, StoreStays, JobsStay DEF TokenStep

LEMMA RetryTokens ==
    ASSUME JobQueueInv, NEW w \in Workers, WorkerRetries(w)
    PROVE  TokenStep
<1>1. call[w].st \in {"asked", "held", "answered"} /\ worker[w].st \in {"acquiring", "completing"}
  BY WorkerIs, CallShapes DEF WorkerRetries, GivesUp, WorkerMatches
<1>2. Abandons(w) /\ job' = job /\ UNCHANGED storeVars
  BY <1>1 DEF Abandons, WorkerRetries, GivesUp, brokerVars
<1>3. StoreStep
  BY <1>2, StoreStays
<1>4. CASE worker[w].try < Retries
  <2> DEFINE r == [worker[w] EXCEPT !.try = worker[w].try + 1]
             y == WorkerCall(w, r)
  <2>1. /\ r \in WorkerRecords
        /\ r.st = worker[w].st /\ r.job = worker[w].job /\ r.token = worker[w].token
    <3>1. worker[w] \in WorkerRecords /\ worker[w].try + 1 \in Nat
      BY WorkerIs DEF WorkerRecords
    <3> QED BY <3>1, Zenon DEF WorkerRecords
  <2>2. worker' = [worker EXCEPT ![w] = r] /\ call' = [call EXCEPT ![w] = WorkerCall(w, worker'[w])]
    BY <1>4, WorkerIs, Zenon DEF WorkerRetries, WorkerRecords
  <2> HIDE DEF r
  <2>3. call' = [call EXCEPT ![w] = y]
    BY <2>2, WorkerIs
  <2>4. /\ y.st = "asked"
        /\ r.st = "acquiring" => y.req.op = "acquire"
        /\ r.st = "completing" => /\ y.req.op = "complete" /\ y.req.from[1] = w
                                  /\ y.req.job = r.job /\ y.req.token = r.token
    BY <1>1, <2>1, WorkerCallIs
  <2>5. r.st = "completing" => Holds(w, r.job, r.token)
    BY <2>1 DEF Holds, Works
  <2> HIDE DEF y
  <2> QED BY <1>1, <1>2, <1>3, <2>1, <2>2, <2>3, <2>4, <2>5, WorkerTokens
<1>5. CASE ~(worker[w].try < Retries)
  <2>1. worker' = [worker EXCEPT ![w] = Resting] /\ call' = [call EXCEPT ![w] = NoCall]
    BY <1>5, Zenon DEF WorkerRetries
  <2> QED BY <1>2, <1>3, <2>1, LeavesTokens
<1> QED BY <1>4, <1>5

LEMMA AcquiringTokens ==
    ASSUME JobQueueInv, NEW w \in Workers, Acquire(w)
    PROVE  TokenStep
<1> DEFINE r == [worker[w] EXCEPT !.st = "acquiring", !.try = 1]
           y == WorkerCall(w, r)
<1>1. r \in WorkerRecords /\ r.st = "acquiring"
  <2>1. worker[w] \in WorkerRecords /\ 1 \in Nat
    BY WorkerIs
  <2> QED BY <2>1, Zenon DEF WorkerRecords
<1>2. /\ worker' = [worker EXCEPT ![w] = r] /\ call' = [call EXCEPT ![w] = WorkerCall(w, worker'[w])]
      /\ job' = job /\ UNCHANGED storeVars /\ late' = late
  BY WorkerIs, Zenon DEF Acquire, WorkerRecords, brokerVars
<1> HIDE DEF r
<1>3. call' = [call EXCEPT ![w] = y] /\ Abandons(w) /\ StoreStep
  BY <1>2, WorkerIs, StoreStays DEF Abandons
<1>4. y.st = "asked" /\ y.req.op = "acquire"
  BY <1>1, WorkerCallIs
<1> HIDE DEF y
<1> QED BY <1>1, <1>2, <1>3, <1>4, WorkerTokens

LEMMA LeavingTokens ==
    ASSUME JobQueueInv, NEW w \in Workers, CompleteReplied(w) \/ Crash(w)
    PROVE  TokenStep
<1>1. /\ worker' = [worker EXCEPT ![w] = Resting] /\ call' = [call EXCEPT ![w] = NoCall]
      /\ job' = job /\ UNCHANGED storeVars
  BY DEF CompleteReplied, Crash, brokerVars
<1>2. Abandons(w)
  BY DEF CompleteReplied, Crash, Abandons
<1> QED BY <1>1, <1>2, StoreStays, LeavesTokens

LEMMA ClientStepTokens ==
    ASSUME JobQueueInv, NEW k \in Keys, ClientStep(k) \/ ClientRetries(k)
    PROVE  TokenStep
<1>1. call \in [Keys \cup Workers -> Calls] /\ UNCHANGED <<job, storeVars, worker>>
  BY Zenon DEF JobQueueInv, TypeOK, CallerTypes, ClientStep, ClientRetries, Submit, Acknowledged,
               WaitEnds, brokerVars
<1>2. \A c : SubmitCall(k, c).st = "asked" /\ SubmitCall(k, c).req.op = "submit"
  BY DEF SubmitCall, Asked
<1>3. Abandons(k)
  <2>1. CASE late' = late
    BY <2>1 DEF Abandons
  <2>2. CASE ClientRetries(k)
    <3>1. call[k].st \in {"asked", "held", "answered"}
      BY <1>1, <2>2, CallShapes DEF ClientRetries, GivesUp
    <3> QED BY <2>2, <3>1 DEF Abandons, ClientRetries, GivesUp
  <2> QED BY <2>1, <2>2, Zenon DEF ClientStep, Submit, Acknowledged, WaitEnds
<1>4. call[k].st \in {"asked", "held"} => call[k].req.op = "submit"
  BY DEF JobQueueInv, CallsMatch, ClientMatches
<1>5. \E y : /\ call' = [call EXCEPT ![k] = y]
             /\ y.st \in {"asked", "held"} => y.req.op = "submit"
  <2>1. CASE call' = [call EXCEPT ![k] = SubmitCall(k, client'[k])]
    BY <1>2, <2>1
  <2>2. CASE call' = [call EXCEPT ![k] = NoCall]
    BY <2>2, RestingIs
  <2>3. CASE call' = call
    <3>1. call' = [call EXCEPT ![k] = call[k]]
      BY <1>1, <2>3
    <3> QED BY <1>4, <3>1
  <2> QED BY <2>1, <2>2, <2>3, Zenon DEF ClientStep, ClientRetries, Submit, Acknowledged, WaitEnds
<1> QED BY <1>1, <1>3, <1>5, ClientTokens

LEMMA NextTokens ==
    ASSUME JobQueueInv, [Next]_vars
    PROVE  TokenStep
<1>1. ASSUME NEW x \in Pending, Serve(x) PROVE TokenStep
  <2>1. CASE HandleRenew(x)
    <3>1. /\ UNCHANGED <<storeVars, worker>> /\ call' = call /\ job' = job /\ late' \subseteq late
      BY <2>1 DEF HandleRenew
    <3> QED BY <3>1, JobsStay, QuietTokens
  <2> QED BY <1>1, <2>1, SubmitTokens, AcquireTokens, CompleteTokens DEF Serve
<1>2. ASSUME NEW w \in Workers, WorkerStep(w) \/ Renew(w) \/ WorkerRetries(w) \/ Crash(w)
      PROVE  TokenStep
  BY <1>2, AcquiringTokens, LeasedTokens, ExecutedTokens, LeavingTokens, RenewTokens,
     RetryTokens DEF WorkerStep
<1>3. CASE UNCHANGED vars
  <2>1. UNCHANGED <<storeVars, worker>> /\ job' = job /\ call' = call /\ late' \subseteq late
    BY <1>3 DEF vars, brokerVars
  <2> QED BY <2>1, JobsStay, QuietTokens
<1> QED BY <1>1, <1>2, <1>3, TimerTokens, ClientStepTokens DEF Next

LEMMA InitTokens ==
    Init => TokenInv
<1> SUFFICES ASSUME Init PROVE TokenInv
  OBVIOUS
<1>1. /\ \A c \in Keys \cup Workers : call[c].st = "none"
      /\ \A w \in Workers : worker[w].st = "resting"
      /\ late = {} /\ commits = <<>> /\ \A i \in 1 .. MaxJobs : newest[i] = 0
  BY RestingIs DEF Init
<1>2. \A m : ~UnderWay(m)
  BY <1>1 DEF UnderWay
<1>3. \A w \in Workers : \A i, t \in Nat : ~Holds(w, i, t)
  BY <1>1, <1>2 DEF Holds, Works, Granted, Reports
<1> QED BY <1>1, <1>2, <1>3 DEF TokenInv, HoldersWithin, OneHolder, RenewalsWithin, StoreWithin

\* Whatever names a lease, a worker, an answer, a request of any caller still there or
\* gone, a note or an effect in the store, names one that was granted, and no lease is
\* ever in the hands of two workers (_lease, _acquire, worker.py).
THEOREM TokensHeld == Spec => []TokenInv
<1>1. JobQueueInv /\ TokenInv /\ [Next]_vars => TokenInv'
  BY NextKeeps, NextTokens, TokensKept
<1> QED BY <1>1, InitTokens, JobQueueInvariant, PTL DEF Spec

\* Only the word of the lease's one holder makes a job done.
HolderCompletes ==
    \A i \in Jobs : job[i].state # "done" /\ job'[i].state = "done" =>
        \E w \in Workers : /\ Holds(w, i, job[i].token)
                           /\ \A v \in Workers : Holds(v, i, job[i].token) => v = w

\* No other handler, and no timer, calls a job done.
LEMMA DoneByWord ==
    ASSUME JobQueueInv, [Next]_vars, NEW i \in Jobs, job[i].state # "done", job'[i].state = "done"
    PROVE  \E x \in Pending : HandleComplete(x) /\ x.req.job = i /\ Completes(i, x.req.token)
<1>1. BrokerOK /\ job' # job
  BY BrokerIsOK
<1>3. i \in Jobs'
  BY NextTokens DEF TokenStep, TokensRise
<1>4. ASSUME NEW x \in Pending, HandleSubmit(x) PROVE FALSE
  <2>1. x.req \in SubmitRequests /\ Honest(x.req) /\ timers' = timers
    BY <1>4, PendingShapes, RequestShapes DEF HandleSubmit
  <2>2. {j \in Jobs : job[j].key = x.req.key} = {}
    BY <1>1, <1>4 DEF HandleSubmit
  <2>3. /\ job' = Append(job, [key |-> x.req.key, payload |-> x.req.payload, state |-> "queued",
                               attempts |-> 0, token |-> 0, ready |-> TRUE])
        /\ order' = Append(order, Len(job) + 1)
    BY <1>4, <2>2 DEF HandleSubmit
  <2> QED BY <1>1, <1>3, <2>1, <2>2, <2>3, SubmitBroker
<1>5. ASSUME NEW x \in Pending, HandleAcquire(x) PROVE FALSE
  <2>1. NextReady # 0 /\ Lease(order[NextReady])
    BY <1>1, <1>5 DEF HandleAcquire, brokerVars
  <2>2. NextReady \in DOMAIN order /\ Ready(order[NextReady])
    BY <1>1, <2>1, NextReadyIs DEF BrokerOK, BrokerTypes
  <2>3. order[NextReady] \in Jobs /\ job[order[NextReady]].state = "queued"
    BY <1>1, <2>2 DEF BrokerOK, BrokerInv, QueueHoldsQueued, ToSet
  <2> QED BY <1>1, <1>3, <2>1, <2>3, LeaseBroker
<1>6. ASSUME TimerFires PROVE FALSE
  BY <1>1, <1>3, <1>6, ExpireBroker, BackoffBroker DEF TimerFires
<1>7. ASSUME NEW x \in Pending, HandleComplete(x)
      PROVE  x.req.job = i /\ Completes(i, x.req.token)
  <2>1. PICK j : j = x.req.job
    OBVIOUS
  <2>2. Completes(j, x.req.token)
    BY <1>1, <1>7, <2>1, Zenon DEF HandleComplete, brokerVars
  <2>3. \A k \in Jobs' : job'[k].state = "done" => k = j \/ (k \in Jobs /\ job[k].state = "done")
    BY <1>1, <1>7, <2>1, <2>2, CompleteBroker
  <2> QED BY <1>3, <2>1, <2>2, <2>3
<1>8. \A x \in Pending : ~HandleRenew(x)
  BY <1>1 DEF HandleRenew
<1>9. \A k \in Keys : ~ClientStep(k) /\ ~ClientRetries(k)
  BY <1>1, Zenon DEF ClientStep, ClientRetries, Submit, Acknowledged, WaitEnds, brokerVars
<1>10. \A w \in Workers : ~WorkerStep(w) /\ ~Renew(w) /\ ~WorkerRetries(w) /\ ~Crash(w)
  BY <1>1, Zenon DEF WorkerStep, Acquire, Leased, Executed, CompleteReplied, Renew,
                     WorkerRetries, Crash, brokerVars
<1>11. \E x \in Pending : HandleComplete(x)
  BY <1>1, <1>4, <1>5, <1>6, <1>8, <1>9, <1>10 DEF Next, Serve, vars, brokerVars
<1> QED BY <1>7, <1>11

\* A job becomes done only by the word of the worker that holds its present lease, and
\* no other worker does (_complete's fencing).
THEOREM OnlyHolderCompletes == Spec => [][HolderCompletes]_vars
<1>1. ASSUME JobQueueInv, TokenInv, [Next]_vars,
             NEW i \in Jobs, job[i].state # "done", job'[i].state = "done"
      PROVE  \E w \in Workers : /\ Holds(w, i, job[i].token)
                                /\ \A v \in Workers : Holds(v, i, job[i].token) => v = w
  <2>1. PICK x \in Pending : HandleComplete(x) /\ x.req.job = i /\ Completes(i, x.req.token)
    BY <1>1, DoneByWord
  <2>2. x.req \in CompleteRequests
    BY <1>1, <2>1, PendingShapes, RequestShapes DEF HandleComplete
  <2>3. UnderWay(x.req)
    BY DEF Pending, UnderWay
  <2>4. x.req.token = job[i].token /\ i \in Nat /\ job[i].token \in Nat
    BY <1>1, <2>1, TokenTypes DEF Completes, fencing
  <2>5. PICK w \in Workers : w = x.req.from[1]
    BY <2>2 DEF CompleteRequests
  <2>6. Holds(w, i, job[i].token)
    BY <2>1, <2>2, <2>3, <2>4, <2>5 DEF Holds, Reports
  <2> QED BY <1>1, <2>4, <2>6 DEF TokenInv, OneHolder
<1>2. JobQueueInv /\ TokenInv /\ [Next]_vars => [HolderCompletes]_vars
  BY <1>1 DEF HolderCompletes
<1> QED BY <1>2, JobQueueInvariant, TokensHeld, PTL DEF Spec
=============================================================================
