--------------------------- MODULE ParallelSearch ---------------------------
(***************************************************************************)
(* Exploring seeds in worker processes: find_lowest_failure, _Frontier and *)
(* _run_batch in src/src/simloop/_parallel.py, and _explore_parallel in    *)
(* src/src/simloop/_explore.py, which re-runs the seed that matters in the *)
(* parent and checks that it did the same thing there.                     *)
(*                                                                         *)
(* The workers run concurrently with each other and with the parent; the   *)
(* parent waits for whichever batches have finished.  A batch is named by  *)
(* the position of its first seed.                                         *)
(***************************************************************************)
EXTENDS Integers, FiniteSets

CONSTANTS
    Total,      \* seeds in the list
    Jobs,       \* worker processes
    Size,       \* seeds per batch
    Flaky,      \* TRUE: a seed may behave differently in worker and parent
    Mortal      \* TRUE: a worker process may die

ASSUME ParallelAssumption ==
    /\ Total \in Nat /\ Jobs \in Nat \ {0} /\ Size \in Nat \ {0}
    /\ Flaky \in BOOLEAN /\ Mortal \in BOOLEAN

Positions == 0 .. Total - 1
None == -1          \* no failure
Busy == -2          \* a batch still running
Died == -3          \* a batch whose worker process is gone

VARIABLES
    there,      \* positions whose run raises in a worker process
    here,       \* positions whose run raises in the parent process
    other,      \* those of them that raise another type of exception there
    broken,     \* the process pool has lost a worker
    cursor,     \* first seed of _batches[_next]; Total when none is left
    running,    \* batches handed to the pool and not yet collected
    pos,        \* the seed each batch's worker is at
    verdict,    \* what each batch's future holds
    failure,    \* _Frontier.failure, its position
    pc,         \* "fill", "wait", then "below" and "again" in the parent
    answer      \* what _explore_parallel returned or raised

runs == <<there, here, other>>
vars == <<runs, broken, cursor, running, pos, verdict, failure, pc, answer>>

Answer(kind, at, passed, against) ==
    [kind |-> kind, at |-> at, passed |-> passed, against |-> against]
Searching == Answer("searching", None, None, None)

\* _batches: consecutive ranges of Size positions, the last one shorter.
EndOf(b) == IF b + Size < Total THEN b + Size ELSE Total

Init ==
    /\ there \in SUBSET Positions
    /\ here \in IF Flaky THEN SUBSET Positions ELSE {there}
    /\ other \in IF Flaky THEN SUBSET here ELSE {{}}
    /\ broken = FALSE
    /\ cursor = 0 /\ running = {} /\ failure = None /\ pc = "fill"
    /\ pos = [b \in Positions |-> b]
    /\ verdict = [b \in Positions |-> Busy]
    /\ answer = Searching

\* _Frontier.take has a batch still worth running.
Worthwhile == cursor # Total /\ ~(failure # None /\ cursor > failure)

\* _Frontier.take and submit for one worker that has nothing to do.
Take ==
    /\ pc = "fill" /\ Cardinality(running) < Jobs /\ Worthwhile /\ ~broken
    /\ cursor' = EndOf(cursor)
    /\ running' = running \cup {cursor}
    /\ UNCHANGED <<runs, broken, pos, verdict, failure, pc, answer>>

\* submit refuses a broken pool, out of the whole search.
SubmitFails ==
    /\ pc = "fill" /\ Cardinality(running) < Jobs /\ Worthwhile /\ broken
    /\ cursor' = EndOf(cursor)
    /\ pc' = "done" /\ answer' = Answer("raised", None, None, None)
    /\ UNCHANGED <<runs, broken, running, pos, verdict, failure>>

\* What the parent runs first once the search has found a failure.
ParentTurn == IF failure > 0 THEN "below" ELSE "again"

\* slip: the search is over as soon as one failure is known.
FilledAtFirstFailure ==
    /\ pc = "fill" /\ (Cardinality(running) >= Jobs \/ ~Worthwhile)
    /\ pc' = IF failure # None THEN ParentTurn ELSE IF running # {} THEN "wait" ELSE "done"
    /\ answer' = IF pc' = "done" THEN Answer("clean", None, None, None) ELSE answer
    /\ UNCHANGED <<runs, broken, cursor, running, pos, verdict, failure>>

\* The inner while loop ends; with nothing running the search is over, and
\* _explore_parallel goes on with the failure it found, if any.
Filled ==
    /\ pc = "fill" /\ (Cardinality(running) >= Jobs \/ ~Worthwhile)
    /\ pc' = IF running # {} THEN "wait" ELSE IF failure # None THEN ParentTurn ELSE "done"
    /\ answer' = IF pc' = "done" THEN Answer("clean", None, None, None) ELSE answer
    /\ UNCHANGED <<runs, broken, cursor, running, pos, verdict, failure>>

\* _run_batch, one seed: the first that fails is the batch's answer.
WorkerSeed(b) ==
    /\ b \in running /\ verdict[b] = Busy
    /\ IF pos[b] \in there
       THEN verdict' = [verdict EXCEPT ![b] = pos[b]] /\ UNCHANGED pos
       ELSE /\ pos' = [pos EXCEPT ![b] = pos[b] + 1]
            /\ verdict' = [verdict EXCEPT ![b] = IF pos[b] + 1 = EndOf(b) THEN None ELSE Busy]
    /\ UNCHANGED <<runs, broken, cursor, running, failure, pc, answer>>

\* The workload raises KeyboardInterrupt or SystemExit: run_once lets it out,
\* and the batch's future holds it.
WorkerRaises(b) ==
    /\ Mortal /\ b \in running /\ verdict[b] = Busy
    /\ verdict' = [verdict EXCEPT ![b] = Died]
    /\ UNCHANGED <<runs, broken, cursor, running, pos, failure, pc, answer>>

\* A worker process is killed: every unfinished future of the pool fails.
PoolBreaks ==
    /\ Mortal /\ \E b \in running : verdict[b] = Busy
    /\ broken' = TRUE
    /\ verdict' = [b \in Positions |->
                     IF b \in running /\ verdict[b] = Busy THEN Died ELSE verdict[b]]
    /\ UNCHANGED <<runs, cursor, running, pos, failure, pc, answer>>

Finished == {b \in running : verdict[b] # Busy}
Failures == {verdict[b] : b \in Finished} \cap Positions
Earliest(S) == CHOOSE p \in S : \A q \in S : p <= q

\* slip: the first answer to arrive is kept, not the earliest failure.
FirstToArrive == IF failure # None \/ Failures = {} THEN failure ELSE Earliest(Failures)

\* _Frontier.record for every finished batch.
Recorded ==
    IF Failures = {} THEN failure
    ELSE IF failure # None /\ failure <= Earliest(Failures) THEN failure
    ELSE Earliest(Failures)

\* slip: collected futures stay in the running set.
CollectKeepsRunning ==
    /\ pc = "wait" /\ Finished # {}
    /\ pc' = "fill" /\ failure' = Recorded
    /\ UNCHANGED <<runs, broken, cursor, running, pos, verdict, answer>>

\* wait() returns with every future done so far; a dead worker's result()
\* raises out of the whole search.
Collect ==
    /\ pc = "wait" /\ Finished # {}
    /\ running' = running \ Finished
    /\ IF \E b \in Finished : verdict[b] = Died
       THEN /\ pc' = "done" /\ answer' = Answer("raised", None, None, None)
            /\ UNCHANGED failure
       ELSE pc' = "fill" /\ failure' = Recorded /\ UNCHANGED answer
    /\ UNCHANGED <<runs, broken, cursor, pos, verdict>>

\* slip: the seed looked up is the failing one, not the one below it.
BelowIsTheFailure ==
    /\ pc = "below"
    /\ IF failure \in here
       THEN pc' = "done" /\ answer' = Answer("mismatch", failure - 1, None, None)
       ELSE pc' = "again" /\ UNCHANGED answer
    /\ UNCHANGED <<runs, broken, cursor, running, pos, verdict, failure>>

\* The parent runs the seed below the failure, which passed in a worker.
Below ==
    /\ pc = "below"
    /\ IF failure - 1 \in here
       THEN pc' = "done" /\ answer' = Answer("mismatch", failure - 1, None, None)
       ELSE pc' = "again" /\ UNCHANGED answer
    /\ UNCHANGED <<runs, broken, cursor, running, pos, verdict, failure>>

\* slip: the parent's own run is not compared with the worker's.
Unchecked ==
    /\ pc = "again"
    /\ pc' = "done" /\ answer' = Answer("report", failure, failure, failure - 1)
    /\ UNCHANGED <<runs, broken, cursor, running, pos, verdict, failure>>

\* check_reproduced: the worker's exception was raised here too.
Reproduced == failure \in here \ other

\* The parent runs the failing seed itself and builds the report from that.
Again ==
    /\ pc = "again"
    /\ pc' = "done"
    /\ answer' = IF Reproduced
                 THEN Answer("report", failure, failure, failure - 1)
                 ELSE Answer("mismatch", failure, None, None)
    /\ UNCHANGED <<runs, broken, cursor, running, pos, verdict, failure>>

Parent == Take \/ SubmitFails \/ Filled \/ Collect \/ Below \/ Again
Workers == PoolBreaks \/ \E b \in Positions : WorkerSeed(b) \/ WorkerRaises(b)
Next == Parent \/ Workers

Spec == Init /\ [][Next]_vars

(***************************************************************************)
(* The parent process keeps running, and so does every worker's: seeds are *)
(* finite runs, and a worker that dies counts as finished.                 *)
(***************************************************************************)
FairSpec ==
    /\ Spec /\ WF_vars(Parent)
    /\ \A b \in Positions : WF_vars(WorkerSeed(b))

-----------------------------------------------------------------------------
Answers == [kind : {"searching", "clean", "report", "mismatch", "raised"},
            at : Positions \cup {None}, passed : Positions \cup {None},
            against : Positions \cup {None}]

\* Every variable keeps its type, and no more batches are out than there are
\* workers.
TypeOK ==
    /\ there \subseteq Positions /\ here \subseteq Positions /\ other \subseteq here
    /\ broken \in BOOLEAN
    /\ cursor \in 0 .. Total
    /\ running \subseteq Positions /\ Cardinality(running) <= Jobs
    /\ pos \in [Positions -> 0 .. Total]
    /\ verdict \in [Positions -> Positions \cup {None, Busy, Died}]
    /\ failure \in Positions \cup {None}
    /\ pc \in {"fill", "wait", "below", "again", "done"}
    /\ answer \in Answers

\* What the search found when it stopped is what sequential exploration would
\* have stopped at: no seed before it fails, in any batch, finished or not,
\* handed out or not (_Frontier's docstring).
FindsLowest ==
    pc \in {"below", "again"} => failure \in there /\ \A p \in there : failure <= p

\* "every seed passed" is only said when every seed was run and passed.
CleanIsClean == answer.kind = "clean" => there = {}

\* A failure that does not reproduce in the parent is never reported: the
\* report describes a seed that fails there the same way and follows one that passes there.
ReportsReproduce ==
    answer.kind = "report" => answer.at \in here \ other /\ answer.against \notin here

\* A search that says two runs of a seed differ names one that does differ:
\* it passed or raised one thing in a worker and something else in the parent.
MismatchIsReal ==
    answer.kind = "mismatch" =>
        IF answer.at \in there THEN answer.at \notin here \ other ELSE answer.at \in here

\* Whatever order batches finish in, whatever dies and whatever misbehaves, an
\* answer the parallel search gives is the one sequential exploration promises;
\* a search that raises gives none.
Given == IF answer.kind \in {"mismatch", "raised"} THEN Searching ELSE answer
Verdict == INSTANCE SeedVerdict WITH failing <- there, answer <- Given
ParallelIsTheVerdict == Verdict!Spec

\* The search always comes back with something.
SearchEnds == <>(pc = "done")
=============================================================================
