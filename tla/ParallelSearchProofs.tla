------------------------ MODULE ParallelSearchProofs ------------------------
(***************************************************************************)
(* The parallel search is right for any number of seeds, workers and seeds *)
(* per batch, whatever order the batches finish in.                        *)
(*                                                                         *)
(* The argument is a frontier one.  Until the search is over, every        *)
(* failing position below the cursor is covered: by a recorded failure     *)
(* that is no later, or by a batch that is still out.  A batch that is out *)
(* has passed every position it has gone by, so when it is collected it    *)
(* either names a failure no later than the ones it covered or it covered  *)
(* none.  When nothing is out, coverage says that the recorded failure is  *)
(* the lowest, and the frontier's own stopping rule covers what was never  *)
(* handed out.                                                             *)
(***************************************************************************)
EXTENDS ParallelSearch, FiniteSetTheorems, WellFoundedInduction, TLAPS

BatchInv ==
    \A b \in running :
        /\ b < cursor
        /\ b <= pos[b] /\ pos[b] <= EndOf(b)
        /\ \A p \in there : ~(b <= p /\ p < pos[b])
        /\ verdict[b] = Busy => pos[b] < EndOf(b)
        /\ verdict[b] = None => pos[b] = EndOf(b)
        /\ verdict[b] \in Positions => verdict[b] = pos[b] /\ pos[b] \in there

FreshInv == \A b \in Positions : b >= cursor => verdict[b] = Busy /\ pos[b] = b

FailureInv == failure # None => failure \in there

Covered(p) ==
    \/ failure # None /\ failure <= p
    \/ \E b \in running : b <= p /\ p < EndOf(b)

CoverInv == pc # "done" => \A p \in there : p < cursor => Covered(p)

PhaseInv ==
    /\ FindsLowest
    /\ pc = "below" => failure > 0
    /\ pc = "again" => failure - 1 \notin here
    /\ pc # "done" => answer = Searching

SearchInv ==
    /\ TypeOK /\ BatchInv /\ FreshInv /\ FailureInv /\ CoverInv /\ PhaseInv
    /\ CleanIsClean /\ ReportsReproduce

-----------------------------------------------------------------------------
\* A nonempty set of naturals has a least member, and Earliest names it.
LEMMA EarliestIsLeast ==
    ASSUME NEW S \in SUBSET Nat, S # {}
    PROVE  Earliest(S) \in S /\ \A q \in S : Earliest(S) <= q
<1>1. PICK p \in S : \A q \in S : <<q, p>> \notin OpToRel(<, Nat)
  BY NatLessThanWellFounded, WFMin
<1>2. ASSUME NEW q \in S, q < p PROVE FALSE
  <2>1. <<q, p>> \in Nat \X Nat /\ <<q, p>>[1] < <<q, p>>[2]
    BY <1>2
  <2>2. <<q, p>> \in OpToRel(<, Nat)
    BY <2>1, Zenon DEF OpToRel
  <2> QED BY <1>1, <2>2
<1>3. \A q \in S : p <= q
  BY <1>2
<1> QED BY <1>3 DEF Earliest

\* A batch is not empty and stays within the list of seeds.
LEMMA BatchBounds ==
    ASSUME NEW b \in Positions
    PROVE  b < EndOf(b) /\ EndOf(b) <= Total /\ EndOf(b) \in Nat
BY ParallelAssumption DEF Positions, EndOf

LEMMA RunningFinite ==
    ASSUME TypeOK
    PROVE  IsFiniteSet(running) /\ Cardinality(running) \in Nat
<1>1. IsFiniteSet(Positions)
  BY ParallelAssumption, FS_Interval DEF Positions
<1> QED BY <1>1, FS_Subset, FS_CardinalityType DEF TypeOK

\* What Collect records is never later than what was known or has come in.
LEMMA RecordedIsLowest ==
    ASSUME TypeOK, BatchInv, FailureInv
    PROVE  /\ Recorded \in Positions \cup {None}
           /\ Recorded # None => Recorded \in there
           /\ failure # None => Recorded # None /\ Recorded <= failure
           /\ \A v \in Failures : Recorded # None /\ Recorded <= v
<1>1. Failures \in SUBSET Nat /\ Failures \subseteq Positions
  BY ParallelAssumption DEF Failures, Positions
<1>2. Failures \subseteq there
  BY DEF Failures, Finished, BatchInv
<1>3. CASE Failures = {}
  BY <1>3 DEF Recorded, TypeOK, FailureInv, Positions, None
<1>4. CASE Failures # {}
  <2>1. Earliest(Failures) \in Failures /\ \A q \in Failures : Earliest(Failures) <= q
    BY <1>1, <1>4, EarliestIsLeast
  <2>2. Earliest(Failures) \in Positions /\ Earliest(Failures) \in there
    BY <1>1, <1>2, <2>1, Zenon
  <2>2a. \A v \in Failures : v \in Nat
    BY <1>1, Zenon
  <2>3. Earliest(Failures) \in Nat /\ failure \in Int /\ None = -1
    BY <2>2 DEF TypeOK, Positions, None
  <2>4. CASE failure # None /\ failure <= Earliest(Failures)
    <3>1. Recorded = failure
      BY <1>4, <2>4 DEF Recorded
    <3> QED BY <2>1, <2>2, <2>2a, <2>3, <2>4, <3>1 DEF TypeOK, FailureInv
  <2>5. CASE ~(failure # None /\ failure <= Earliest(Failures))
    <3>1. Recorded = Earliest(Failures)
      BY <1>4, <2>5 DEF Recorded
    <3> QED BY <2>1, <2>2, <2>2a, <2>3, <2>5, <3>1
  <2> QED BY <2>4, <2>5
<1> QED BY <1>3, <1>4

-----------------------------------------------------------------------------
LEMMA SearchInit == Init => SearchInv
<1> SUFFICES ASSUME Init PROVE SearchInv
  OBVIOUS
<1> USE ParallelAssumption DEF Init
<1>1. TypeOK
  <2>1. Cardinality({}) = 0
    BY FS_EmptySet
  <2>2. answer \in Answers
    BY DEF Searching, Answer, Answers, None
  <2>3. there \subseteq Positions /\ here \subseteq Positions /\ other \subseteq here
    <3>1. CASE Flaky
      BY <3>1
    <3>2. CASE ~Flaky
      BY <3>2
    <3> QED BY <3>1, <3>2
  <2>4. pos \in [Positions -> 0 .. Total] /\ cursor \in 0 .. Total
    BY DEF Positions
  <2>5. verdict \in [Positions -> Positions \cup {None, Busy, Died}]
    OBVIOUS
  <2>6. running \subseteq Positions /\ Cardinality(running) <= Jobs
    BY <2>1
  <2>7. broken \in BOOLEAN /\ failure \in Positions \cup {None}
    OBVIOUS
  <2> QED BY <2>2, <2>3, <2>4, <2>5, <2>6, <2>7, Zenon DEF TypeOK
<1>2. BatchInv /\ FreshInv /\ FailureInv /\ CoverInv
  BY DEF BatchInv, FreshInv, FailureInv, CoverInv, Covered, Positions, None
<1>3. PhaseInv /\ CleanIsClean /\ ReportsReproduce
  BY DEF PhaseInv, FindsLowest, CleanIsClean, ReportsReproduce, Searching, Answer
<1> QED BY <1>1, <1>2, <1>3 DEF SearchInv

LEMMA TakeKeeps == SearchInv /\ Take => SearchInv'
<1> SUFFICES ASSUME SearchInv, Take PROVE SearchInv'
  OBVIOUS
<1> USE ParallelAssumption DEF SearchInv
<1>0. cursor \in Positions /\ cursor \notin running
  BY DEF Take, Worthwhile, TypeOK, BatchInv, Positions
<1>1. cursor < EndOf(cursor) /\ EndOf(cursor) <= Total /\ EndOf(cursor) \in Nat
  BY <1>0, BatchBounds
<1>2. TypeOK'
  <2>1. Cardinality(running') <= Jobs
    <3>1. IsFiniteSet(running) /\ Cardinality(running) \in Nat
      BY RunningFinite
    <3>2. Cardinality(running \cup {cursor}) = Cardinality(running) + 1
      BY <1>0, <3>1, FS_AddElement
    <3> QED BY <3>1, <3>2 DEF Take
  <2> QED BY <1>0, <1>1, <2>1 DEF Take, TypeOK, runs
<1>3. BatchInv'
  <2> SUFFICES ASSUME NEW b \in running'
               PROVE  /\ b < cursor'
                      /\ b <= pos[b] /\ pos[b] <= EndOf(b)
                      /\ \A p \in there : ~(b <= p /\ p < pos[b])
                      /\ verdict[b] = Busy => pos[b] < EndOf(b)
                      /\ verdict[b] = None => pos[b] = EndOf(b)
                      /\ verdict[b] \in Positions => verdict[b] = pos[b] /\ pos[b] \in there
    BY DEF Take, BatchInv, EndOf, runs
  <2>1. CASE b \in running
    BY <2>1, <1>0, <1>1 DEF Take, BatchInv, TypeOK, Positions
  <2>2. CASE b = cursor
    <3>1. verdict[b] = Busy /\ pos[b] = b
      BY <2>2, <1>0 DEF FreshInv, TypeOK, Positions
    <3>2. \A p \in there : p \in Int
      BY DEF TypeOK, Positions
    <3> QED BY <2>2, <3>1, <3>2, <1>0, <1>1 DEF Take, Positions, Busy, None
  <2> QED BY <2>1, <2>2 DEF Take
<1>4. FreshInv'
  BY <1>0, <1>1 DEF Take, FreshInv, Positions, runs
<1>5. CoverInv'
  <2> SUFFICES ASSUME NEW p \in there, p < EndOf(cursor)
               PROVE  Covered(p)'
    BY DEF CoverInv, Take, runs
  <2>1. p \in Positions
    BY DEF TypeOK
  <2>2. CASE p < cursor
    BY <2>2 DEF CoverInv, Covered, Take, EndOf
  <2>3. CASE cursor <= p
    BY <2>3 DEF Covered, Take, EndOf
  <2> QED BY <1>0, <2>1, <2>2, <2>3 DEF Positions
<1>6. FailureInv' /\ PhaseInv' /\ CleanIsClean' /\ ReportsReproduce'
  BY DEF Take, FailureInv, PhaseInv, FindsLowest, CleanIsClean, ReportsReproduce, runs
<1> QED BY <1>2, <1>3, <1>4, <1>5, <1>6

\* With nothing out and nothing worth taking, the frontier has the lowest
\* failure, or there is none at all.
LEMMA FrontierIsTheLowest ==
    ASSUME SearchInv, pc = "fill", running = {}, Cardinality(running) >= Jobs \/ ~Worthwhile
    PROVE  /\ failure = None => there = {}
           /\ failure # None => \A p \in there : failure <= p
<1> USE ParallelAssumption DEF SearchInv
<1>1. ~Worthwhile
  BY FS_EmptySet
<1>2. \A p \in there : p < cursor => failure # None /\ failure <= p
  BY DEF CoverInv, Covered
<1>3. there \subseteq 0 .. Total - 1 /\ cursor \in 0 .. Total
      /\ failure \in (0 .. Total - 1) \cup {-1}
  BY DEF TypeOK, Positions, None
<1>4. \A p \in there : failure # None /\ failure <= p
  BY <1>1, <1>2, <1>3 DEF Worthwhile, None
<1> QED BY <1>4

LEMMA FilledKeeps == SearchInv /\ Filled => SearchInv'
<1> SUFFICES ASSUME SearchInv, Filled PROVE SearchInv'
  OBVIOUS
<1> USE ParallelAssumption DEF SearchInv
<1>1. CASE running # {}
  <2>1. pc = "fill" /\ pc' = "wait"
    BY <1>1 DEF Filled, ParentTurn
  <2>2. UNCHANGED <<runs, broken, cursor, running, pos, verdict, failure, answer>>
    BY <2>1 DEF Filled, ParentTurn
  <2>3. TypeOK' /\ BatchInv' /\ FreshInv' /\ FailureInv'
    BY <2>1, <2>2 DEF runs, TypeOK, BatchInv, FreshInv, FailureInv, EndOf
  <2>4. CoverInv' /\ PhaseInv' /\ CleanIsClean' /\ ReportsReproduce'
    BY <2>1, <2>2 DEF runs, CoverInv, Covered, EndOf, PhaseInv, FindsLowest,
       CleanIsClean, ReportsReproduce
  <2> QED BY <2>3, <2>4
<1>2. CASE running = {}
  <2>1. /\ failure = None => there = {}
        /\ failure # None => \A p \in there : failure <= p
    BY <1>2, FrontierIsTheLowest DEF Filled, ParentTurn
  <2>2. failure \in (0 .. Total - 1) \cup {-1}
    BY DEF TypeOK, Positions, None
  <2>3. answer' \in Answers
    BY <1>2 DEF Filled, ParentTurn, TypeOK, Answer, Answers
  <2>4. TypeOK'
    BY <1>2, <2>3 DEF Filled, ParentTurn, TypeOK, runs
  <2>5. BatchInv' /\ FreshInv' /\ FailureInv'
    BY <1>2 DEF Filled, ParentTurn, runs, BatchInv, FreshInv, FailureInv, EndOf
  <2>6. CoverInv'
    BY <1>2 DEF Filled, ParentTurn, runs, CoverInv, Covered, EndOf
  <2>7. FindsLowest'
    BY <1>2, <2>1, <2>2 DEF Filled, ParentTurn, runs, FindsLowest, FailureInv, None
  <2>8. PhaseInv'
    <3>1. pc' = "again" => failure - 1 \notin here
      BY <1>2, <2>2 DEF Filled, ParentTurn, None, TypeOK, Positions
    <3> QED BY <1>2, <2>2, <2>7, <3>1 DEF Filled, ParentTurn, runs, PhaseInv, None
  <2>9. CleanIsClean' /\ ReportsReproduce'
    BY <1>2, <2>1 DEF Filled, ParentTurn, runs, CleanIsClean, ReportsReproduce, Answer, PhaseInv,
       Searching
  <2> QED BY <2>4, <2>5, <2>6, <2>8, <2>9
<1> QED BY <1>1, <1>2

LEMMA WorkerSeedKeeps ==
    ASSUME SearchInv, NEW b \in Positions, WorkerSeed(b)
    PROVE  SearchInv'
<1> USE ParallelAssumption DEF SearchInv
<1>0. /\ b \in running /\ verdict[b] = Busy /\ pos[b] < EndOf(b)
      /\ b <= pos[b] /\ EndOf(b) <= Total /\ EndOf(b) \in Nat /\ pos[b] \in 0 .. Total
      /\ b < cursor
      /\ \A p \in there : ~(b <= p /\ p < pos[b])
  BY BatchBounds DEF WorkerSeed, BatchInv, TypeOK
<1>1. pos[b] \in Positions /\ pos[b] + 1 \in 0 .. Total
  BY <1>0 DEF Positions
<1>2. TypeOK'
  BY <1>0, <1>1 DEF WorkerSeed, TypeOK, runs
<1>3. BatchInv'
  <2>1. there' = there /\ running' = running /\ cursor' = cursor
    BY DEF WorkerSeed, runs
  <2>2. \A c \in running : c # b => verdict'[c] = verdict[c] /\ pos'[c] = pos[c]
    BY DEF WorkerSeed, TypeOK
  <2>3. /\ b <= pos'[b] /\ pos'[b] <= EndOf(b)
        /\ \A p \in there : ~(b <= p /\ p < pos'[b])
        /\ verdict'[b] = Busy => pos'[b] < EndOf(b)
        /\ verdict'[b] = None => pos'[b] = EndOf(b)
        /\ verdict'[b] \in Positions => verdict'[b] = pos'[b] /\ pos'[b] \in there
    <3>1. CASE pos[b] \in there
      <4>1. verdict'[b] = pos[b] /\ pos'[b] = pos[b]
        BY <3>1 DEF WorkerSeed, TypeOK
      <4> QED BY <4>1, <3>1, <1>0, <1>1 DEF Busy, None, Positions
    <3>2. CASE pos[b] \notin there
      <4>1. /\ pos'[b] = pos[b] + 1
            /\ verdict'[b] = IF pos[b] + 1 = EndOf(b) THEN None ELSE Busy
        BY <3>2 DEF WorkerSeed, TypeOK
      <4>2. \A p \in there : p \in Int
        BY DEF TypeOK, Positions
      <4> QED BY <4>1, <4>2, <3>2, <1>0, <1>1 DEF Busy, None, Positions
    <3> QED BY <3>1, <3>2
  <2> QED BY <1>0, <2>1, <2>2, <2>3 DEF BatchInv, EndOf
<1>4. FreshInv'
  <2>1. \A c \in Positions : c # b => verdict'[c] = verdict[c] /\ pos'[c] = pos[c]
    BY DEF WorkerSeed, TypeOK
  <2>2. cursor' = cursor
    BY DEF WorkerSeed
  <2> QED BY <1>0, <2>1, <2>2 DEF FreshInv, TypeOK, Positions
<1>5. FailureInv' /\ CoverInv' /\ PhaseInv' /\ CleanIsClean' /\ ReportsReproduce'
  BY DEF WorkerSeed, runs, FailureInv, CoverInv, Covered, EndOf, PhaseInv, FindsLowest,
     CleanIsClean, ReportsReproduce
<1> QED BY <1>2, <1>3, <1>4, <1>5

\* A batch that fails without an answer changes its verdict and nothing else.
LEMMA DeathKeeps ==
    ASSUME SearchInv, verdict' \in [Positions -> Positions \cup {None, Busy, Died}],
           \A b \in Positions : verdict'[b] = verdict[b]
                                \/ (b \in running /\ verdict'[b] = Died),
           broken' \in BOOLEAN,
           UNCHANGED <<runs, cursor, running, pos, failure, pc, answer>>
    PROVE  SearchInv'
<1> USE ParallelAssumption DEF SearchInv
<1>1. TypeOK'
  BY DEF TypeOK, runs
<1>2. BatchInv'
  BY DEF BatchInv, TypeOK, EndOf, runs, Died, None, Busy, Positions
<1>3. FreshInv'
  BY DEF FreshInv, BatchInv, TypeOK, Positions
<1>4. FailureInv' /\ CoverInv' /\ PhaseInv' /\ CleanIsClean' /\ ReportsReproduce'
  BY DEF runs, FailureInv, CoverInv, Covered, EndOf, PhaseInv, FindsLowest,
     CleanIsClean, ReportsReproduce
<1> QED BY <1>1, <1>2, <1>3, <1>4

LEMMA CollectKeeps == SearchInv /\ Collect => SearchInv'
<1> SUFFICES ASSUME SearchInv, Collect PROVE SearchInv'
  OBVIOUS
<1> USE ParallelAssumption DEF SearchInv
<1>0. running' \subseteq running /\ Cardinality(running') <= Jobs
  <2>1. running' \subseteq running
    BY DEF Collect
  <2>2. Cardinality(running') <= Cardinality(running) /\ Cardinality(running') \in Nat
    BY <2>1, RunningFinite, FS_Subset, FS_CardinalityType
  <2> QED BY <2>1, <2>2, RunningFinite DEF TypeOK
<1>1. BatchInv' /\ FreshInv'
  BY <1>0 DEF Collect, runs, BatchInv, FreshInv, EndOf
<1>2. CASE \E b \in Finished : verdict[b] = Died
  <2>1. answer' \in Answers
    BY <1>2 DEF Collect, Answer, Answers
  <2> QED BY <1>0, <1>1, <1>2, <2>1 DEF Collect, runs, TypeOK, FailureInv, CoverInv,
         PhaseInv, FindsLowest, CleanIsClean, ReportsReproduce, Answer
<1>3. CASE ~ \E b \in Finished : verdict[b] = Died
  <2>1. pc = "wait" /\ pc' = "fill" /\ failure' = Recorded /\ answer' = answer
        /\ running' = running \ Finished /\ UNCHANGED <<runs, broken, cursor, pos, verdict>>
    BY <1>3 DEF Collect
  <2>2. /\ Recorded \in Positions \cup {None}
        /\ Recorded # None => Recorded \in there
        /\ failure # None => Recorded # None /\ Recorded <= failure
        /\ \A v \in Failures : Recorded # None /\ Recorded <= v
    BY RecordedIsLowest
  <2>3. TypeOK' /\ FailureInv'
    BY <1>0, <2>1, <2>2 DEF TypeOK, FailureInv, runs
  <2>4. CoverInv'
    <3> SUFFICES ASSUME NEW p \in there, p < cursor
                 PROVE  Covered(p)'
      BY <2>1 DEF CoverInv, runs
    <3>0. p \in Int /\ failure \in Int /\ Recorded \in Int
      BY <2>2 DEF TypeOK, Positions, None
    <3>1. CASE failure # None /\ failure <= p
      BY <3>0, <3>1, <2>1, <2>2 DEF Covered
    <3>2. ASSUME NEW b \in running, b <= p, p < EndOf(b)
          PROVE  Covered(p)'
      <4>1. CASE b \notin Finished
        BY <3>2, <4>1, <2>1 DEF Covered, EndOf
      <4>2. CASE b \in Finished
        <5>1. verdict[b] # None
          BY <3>2 DEF BatchInv
        <5>2. verdict[b] \in Positions
          BY <1>3, <4>2, <5>1 DEF Finished, TypeOK
        <5>3. verdict[b] = pos[b] /\ ~(p < pos[b]) /\ pos[b] \in Int
          BY <3>2, <5>2 DEF BatchInv, TypeOK
        <5>4. verdict[b] \in Failures
          BY <4>2, <5>2 DEF Failures
        <5>5. Recorded # None /\ Recorded <= verdict[b]
          BY <2>2, <5>4
        <5>6. Recorded <= p
          BY <3>0, <5>3, <5>5
        <5> QED BY <2>1, <5>5, <5>6 DEF Covered
      <4> QED BY <4>1, <4>2
    <3> QED BY <2>1, <3>1, <3>2 DEF CoverInv, Covered
  <2>5. PhaseInv' /\ CleanIsClean' /\ ReportsReproduce'
    BY <2>1 DEF runs, PhaseInv, FindsLowest, CleanIsClean, ReportsReproduce
  <2> QED BY <1>1, <2>3, <2>4, <2>5
<1> QED BY <1>2, <1>3

LEMMA ParentTailKeeps == SearchInv /\ (SubmitFails \/ Below \/ Again) => SearchInv'
<1> SUFFICES ASSUME SearchInv, SubmitFails \/ Below \/ Again PROVE SearchInv'
  OBVIOUS
<1> USE ParallelAssumption DEF SearchInv
<1>0. failure \in (0 .. Total - 1) \cup {-1}
  BY DEF TypeOK, Positions, None
<1>1. CASE SubmitFails
  <2>0. cursor \in Positions
    BY <1>1 DEF SubmitFails, Worthwhile, TypeOK, Positions
  <2>1. cursor < EndOf(cursor) /\ EndOf(cursor) \in 0 .. Total
    BY <2>0, BatchBounds
  <2>2. answer' \in Answers
    BY <1>1 DEF SubmitFails, Answer, Answers
  <2>3. TypeOK'
    BY <1>1, <2>1, <2>2 DEF SubmitFails, TypeOK, runs
  <2>4. BatchInv'
    BY <1>1, <2>0, <2>1 DEF SubmitFails, BatchInv, EndOf, runs, TypeOK, Positions
  <2>5. FreshInv'
    BY <1>1, <2>0, <2>1 DEF SubmitFails, FreshInv, Positions
  <2>6. FailureInv' /\ CoverInv' /\ PhaseInv' /\ CleanIsClean' /\ ReportsReproduce'
    BY <1>1 DEF SubmitFails, runs, FailureInv, CoverInv, PhaseInv, FindsLowest,
       CleanIsClean, ReportsReproduce, Answer
  <2> QED BY <2>3, <2>4, <2>5, <2>6
<1>2. CASE Below
  <2>1. failure - 1 \in Positions
    BY <1>0, <1>2 DEF Below, PhaseInv, Positions
  <2>2. answer' \in Answers
    BY <1>2, <2>1 DEF Below, TypeOK, Answer, Answers
  <2>3. TypeOK' /\ BatchInv' /\ FreshInv' /\ FailureInv' /\ CoverInv'
    BY <1>2, <2>2 DEF Below, TypeOK, runs, BatchInv, FreshInv, FailureInv, CoverInv,
       Covered, EndOf
  <2>4. PhaseInv' /\ CleanIsClean' /\ ReportsReproduce'
    BY <1>2 DEF Below, runs, PhaseInv, FindsLowest, CleanIsClean, ReportsReproduce,
       Answer, Searching
  <2> QED BY <2>3, <2>4
<1>3. CASE Again
  <2>1. failure \in Positions /\ failure - 1 \in Positions \cup {None}
    BY <1>0, <1>3 DEF Again, PhaseInv, FindsLowest, Positions, None, TypeOK
  <2>2. answer' \in Answers
    BY <1>3, <2>1 DEF Again, Reproduced, Answer, Answers
  <2>3. TypeOK' /\ BatchInv' /\ FreshInv' /\ FailureInv' /\ CoverInv'
    BY <1>3, <2>2 DEF Again, TypeOK, runs, BatchInv, FreshInv, FailureInv, CoverInv, EndOf
  <2>4. PhaseInv' /\ CleanIsClean' /\ ReportsReproduce'
    BY <1>3 DEF Again, Reproduced, runs, PhaseInv, FindsLowest, CleanIsClean, ReportsReproduce, Answer
  <2> QED BY <2>3, <2>4
<1> QED BY <1>1, <1>2, <1>3

LEMMA SearchStep == SearchInv /\ [Next]_vars => SearchInv'
<1> SUFFICES ASSUME SearchInv, [Next]_vars PROVE SearchInv'
  OBVIOUS
<1>1. CASE Parent
  BY <1>1, TakeKeeps, FilledKeeps, CollectKeeps, ParentTailKeeps DEF Parent
<1>2. ASSUME NEW b \in Positions, WorkerSeed(b) PROVE SearchInv'
  BY <1>2, WorkerSeedKeeps
<1>3. ASSUME NEW b \in Positions, WorkerRaises(b) PROVE SearchInv'
  <2>1. /\ verdict' \in [Positions -> Positions \cup {None, Busy, Died}]
        /\ \A c \in Positions : verdict'[c] = verdict[c]
                                \/ (c \in running /\ verdict'[c] = Died)
        /\ broken' \in BOOLEAN
    BY <1>3 DEF WorkerRaises, SearchInv, TypeOK
  <2>2. UNCHANGED <<runs, cursor, running, pos, failure, pc, answer>>
    BY <1>3 DEF WorkerRaises
  <2> QED BY <2>1, <2>2, DeathKeeps
<1>4. ASSUME PoolBreaks PROVE SearchInv'
  <2>1. /\ verdict' \in [Positions -> Positions \cup {None, Busy, Died}]
        /\ \A c \in Positions : verdict'[c] = verdict[c]
                                \/ (c \in running /\ verdict'[c] = Died)
        /\ broken' \in BOOLEAN
    BY <1>4 DEF PoolBreaks, SearchInv, TypeOK
  <2>2. UNCHANGED <<runs, cursor, running, pos, failure, pc, answer>>
    BY <1>4 DEF PoolBreaks
  <2> QED BY <2>1, <2>2, DeathKeeps
<1>5. CASE UNCHANGED vars
  BY <1>5 DEF vars, runs, SearchInv, TypeOK, BatchInv, FreshInv, FailureInv, CoverInv,
     Covered, EndOf, PhaseInv, FindsLowest, CleanIsClean, ReportsReproduce
<1> QED BY <1>1, <1>2, <1>3, <1>4, <1>5 DEF Next, Workers

\* The inductive invariant holds in every behaviour of the search.
THEOREM SearchInvariant == Spec => []SearchInv
BY SearchInit, SearchStep, PTL DEF Spec

\* Type correctness of the search, with at most Jobs batches out.
THEOREM SearchTypes == Spec => []TypeOK
BY SearchInvariant, PTL DEF SearchInv

\* find_lowest_failure returns the position sequential exploration would have
\* stopped at, for every number of seeds, workers and seeds per batch.
THEOREM LowestFound == Spec => []FindsLowest
BY SearchInvariant, PTL DEF SearchInv, PhaseInv

\* A clean verdict is never given while some seed fails in a worker, even when
\* worker processes die.
THEOREM CleanHolds == Spec => []CleanIsClean
BY SearchInvariant, PTL DEF SearchInv

\* What is reported has been reproduced in the parent (check_reproduced).
THEOREM ReportHolds == Spec => []ReportsReproduce
BY SearchInvariant, PTL DEF SearchInv

-----------------------------------------------------------------------------
\* A mismatch the parent raises is one: the two runs of the seed differ.
THEOREM MismatchHolds == Spec => []MismatchIsReal
<1> USE ParallelAssumption
<1>1. Init => MismatchIsReal
  BY DEF Init, MismatchIsReal, Searching, Answer
<1>2. SearchInv /\ MismatchIsReal /\ [Next]_vars => MismatchIsReal'
  <2> SUFFICES ASSUME SearchInv, MismatchIsReal, [Next]_vars PROVE MismatchIsReal'
    OBVIOUS
  <2>1. CASE Below
    <3>1. failure \in Int /\ failure - 1 \notin there
      BY <2>1 DEF Below, SearchInv, PhaseInv, FindsLowest, TypeOK, Positions, None
    <3> QED BY <2>1, <3>1 DEF Below, MismatchIsReal, Answer, runs
  <2>2. CASE Again
    <3>1. failure \in there
      BY <2>2 DEF Again, SearchInv, PhaseInv, FindsLowest
    <3> QED BY <2>2, <3>1 DEF Again, Reproduced, MismatchIsReal, Answer, runs
  <2>3. CASE UNCHANGED <<answer, runs>> \/ answer'.kind # "mismatch"
    BY <2>3 DEF MismatchIsReal, runs
  <2> QED BY <2>1, <2>2, <2>3 DEF Next, Parent, Workers, WorkerSeed, WorkerRaises, PoolBreaks,
          Take, SubmitFails, Filled, Collect, Answer, vars, runs
<1> QED BY <1>1, <1>2, SearchInvariant, PTL DEF Spec

-----------------------------------------------------------------------------
\* The parallel search implements the promise of SeedVerdict: an answer it
\* gives, if it gives one, is the sequential one.
THEOREM ParallelRefines == Spec => ParallelIsTheVerdict
<1> USE ParallelAssumption
<1>1. Init => Verdict!Init
  BY DEF Init, Verdict!Init, Given, Searching, Answer, Verdict!Searching,
     None, Verdict!None, Positions, Verdict!Positions
<1>2. SearchInv /\ [Next]_vars => [Verdict!Answer]_<<there, Given>>
  <2> SUFFICES ASSUME SearchInv, [Next]_vars, <<there, Given>>' # <<there, Given>>
               PROVE  Verdict!Answer
    OBVIOUS
  <2>0. there' = there /\ (SubmitFails \/ Filled \/ Collect \/ Below \/ Again)
    BY DEF Next, Parent, Workers, WorkerSeed, WorkerRaises, PoolBreaks, Take, SubmitFails,
       Filled, Collect, Below, Again, vars, runs, Given
  <2>1. pc # "done" => Given = Searching
    BY DEF SearchInv, PhaseInv, Searching, Answer, Given
  <2>2. pc # "done"
    BY <2>0 DEF SubmitFails, Filled, Collect, Below, Again
  <2>3. Searching = Verdict!Searching
    BY DEF Searching, Answer, Verdict!Searching, None, Verdict!None
  <2>4. Given' # Searching
    BY <2>0, <2>1, <2>2 DEF Searching, Answer
  <2>5. answer' # answer /\ answer'.kind \notin {"mismatch", "raised"} /\ Given' = answer'
    BY <2>0, <2>1, <2>2, <2>4 DEF Given, Searching, Answer
  <2>6. CASE Filled
    <3>0. pc' = "done" /\ answer' = Answer("clean", None, None, None)
      BY <2>5, <2>6 DEF Filled, ParentTurn
    <3>1. running = {} /\ failure = None /\ pc = "fill"
      BY <2>6, <3>0 DEF Filled, ParentTurn
    <3>2. there = {}
      BY <2>6, <3>1, FrontierIsTheLowest DEF Filled, ParentTurn
    <3> QED BY <2>0, <2>1, <2>2, <2>3, <2>5, <3>0, <3>2 DEF Verdict!Answer, Verdict!AllPassed,
           Answer, None, Verdict!None
  <2>7. CASE Again
    <3>1. failure \in there /\ \A p \in there : failure <= p
      BY <2>7 DEF Again, SearchInv, PhaseInv, FindsLowest
    <3>2. answer' = Answer("report", failure, failure, failure - 1)
      BY <2>5, <2>7 DEF Again, Reproduced, Answer
    <3> QED BY <2>0, <2>1, <2>2, <2>3, <2>5, <3>1, <3>2 DEF Verdict!Answer, Verdict!IsLowest,
           Verdict!ReportOf, Answer
  <2>8. ~SubmitFails /\ ~Collect /\ ~Below
    BY <2>5 DEF SubmitFails, Collect, Below, Answer
  <2> QED BY <2>0, <2>6, <2>7, <2>8
<1> QED BY <1>1, <1>2, SearchInvariant, PTL
       DEF Spec, ParallelIsTheVerdict, Verdict!Spec
=============================================================================
