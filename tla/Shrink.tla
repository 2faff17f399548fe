------------------------------- MODULE Shrink -------------------------------
(***************************************************************************)
(* Shrinking a failing schedule: shrink_schedule, _Search and the three    *)
(* reduction passes of src/src/simloop/_shrink.py.                         *)
(*                                                                         *)
(* A candidate keeps some of the recorded choices and is FIFO, choice 0,   *)
(* everywhere else, and a replay runs FIFO past its end; so how it runs    *)
(* depends only on the set of steps at which it makes a choice other than  *)
(* 0.  Which of these sets raise the failure again is arbitrary: editing a *)
(* schedule can change everything after the edit.  ScheduleProofs extends  *)
(* this module and Policies, so no name here is one of Policies.           *)
(***************************************************************************)
EXTENDS Integers, Sequences, FiniteSets, SequencesExt

CONSTANTS
    Length,     \* steps in the recording
    Budgets     \* values of shrink_budget

ASSUME ShrinkAssumption == Length \in Nat /\ Budgets \subseteq Nat \ {0}

Steps == 0 .. Length - 1
NoBest == [steps |-> {}, len |-> -1]

VARIABLES
    chosen,     \* steps at which the recording made a choice other than 0
    fails,      \* sets of such steps whose replay fails the same way
    budget,     \* _budget
    pass,       \* which it is in: "record", "prefix", "fifo", "chunks", "rest", "done"
    runs,       \* _Search.runs
    best,       \* _Search.best
    lo, hi,     \* of the two binary searches
    length,     \* what _shortest_prefix returned
    kept,       \* _ddmin's kept, a sequence of steps
    granularity,
    turn,       \* the chunk whose turn it is, from 0
    exhausted   \* the search was ended by _OutOfBudget

scenario == <<chosen, fails, budget>>
searchVars == <<scenario, pass, runs, best, lo, hi, length, kept, granularity, turn, exhausted>>

-----------------------------------------------------------------------------
\* _candidate: the recorded choices at those steps, FIFO elsewhere.
Candidate(steps) == chosen \cap steps

\* _same_failure, of a replay of that candidate.
SameFailure(steps) == steps \in fails

\* _rank: fewer choices first, then the shorter list.
Better(steps, n) ==
    LET held == Cardinality(best.steps)
    IN Cardinality(steps) < held \/ (Cardinality(steps) = held /\ n < best.len)

\* slip: any candidate is remembered, failing or not.
RemembersAny(steps, n) ==
    /\ runs < budget
    /\ runs' = runs + 1
    /\ best' = IF best = NoBest \/ Better(steps, n) THEN [steps |-> steps, len |-> n] ELSE best
    /\ UNCHANGED <<scenario, exhausted>>

\* probe, on the candidate of n steps that makes the choices of steps.
Probe(steps, n) ==
    /\ runs < budget
    /\ runs' = runs + 1
    /\ best' = IF SameFailure(steps) /\ (best = NoBest \/ Better(steps, n))
               THEN [steps |-> steps, len |-> n] ELSE best
    /\ UNCHANGED <<scenario, exhausted>>

\* The recording itself, which may not reproduce the failure.
ProbeRecording ==
    /\ pass = "record"
    /\ Probe(chosen, Length)
    /\ pass' = IF SameFailure(chosen) THEN "prefix" ELSE "done"
    /\ UNCHANGED <<lo, hi, length, kept, granularity, turn>>

\* _shortest_prefix
ProbePrefix ==
    /\ pass = "prefix" /\ lo < hi
    /\ LET mid == (lo + hi) \div 2
           steps == Candidate(0 .. mid - 1)
       IN /\ Probe(steps, mid)
          /\ IF SameFailure(steps) THEN hi' = mid /\ UNCHANGED lo ELSE lo' = mid + 1 /\ UNCHANGED hi
    /\ UNCHANGED <<pass, length, kept, granularity, turn>>

PrefixFound ==
    /\ pass = "prefix" /\ lo >= hi
    /\ pass' = "fifo" /\ length' = hi /\ lo' = 0
    /\ UNCHANGED <<scenario, runs, best, hi, kept, granularity, turn, exhausted>>

\* _fifo_prefix
ProbeFifo ==
    /\ pass = "fifo" /\ lo < hi
    /\ LET mid == (lo + hi + 1) \div 2
           steps == Candidate(mid .. length - 1)
       IN /\ Probe(steps, length)
          /\ IF SameFailure(steps) THEN lo' = mid /\ UNCHANGED hi ELSE hi' = mid - 1 /\ UNCHANGED lo
    /\ UNCHANGED <<pass, length, kept, granularity, turn>>

FifoFound ==
    /\ pass = "fifo" /\ lo >= hi
    /\ pass' = "chunks" /\ granularity' = 2 /\ turn' = 0
    /\ kept' = [i \in 1 .. length - lo |-> lo + i - 1]
    /\ UNCHANGED <<scenario, runs, best, lo, hi, length, exhausted>>

-----------------------------------------------------------------------------
\* _ddmin

\* _split: near-equal chunks, and what is left without one, which is what comes
\* before and after it, since no step is in kept twice.
Cut(i)   == (i * Len(kept)) \div granularity
Chunk(i) == SubSeq(kept, Cut(i) + 1, Cut(i + 1))
Rest(i)  == SubSeq(kept, 1, Cut(i)) \o SubSeq(kept, Cut(i + 1) + 1, Len(kept))

\* Another chunk, or the end of this round.
NextTurn == turn' = turn + 1 /\ UNCHANGED <<pass, kept, granularity>>

\* Start a round over fewer steps.
Narrow(steps, g) == pass' = "chunks" /\ kept' = steps /\ granularity' = g /\ turn' = 0

ProbeChunk ==
    /\ pass = "chunks" /\ Len(kept) > 1 /\ turn < granularity
    /\ LET steps == Candidate(ToSet(Chunk(turn)))
       IN Probe(steps, length) /\ IF SameFailure(steps) THEN Narrow(Chunk(turn), 2) ELSE NextTurn
    /\ UNCHANGED <<lo, hi, length>>

\* _first_failing_complement, one chunk.
ProbeRest ==
    /\ pass = "rest" /\ turn < granularity
    /\ LET rest == Rest(turn)
           steps == Candidate(ToSet(rest))
           coarser == IF granularity - 1 > 2 THEN granularity - 1 ELSE 2
       IN IF rest = <<>>
          THEN NextTurn /\ UNCHANGED <<scenario, runs, best, exhausted>>
          ELSE Probe(steps, length) /\ IF SameFailure(steps) THEN Narrow(rest, coarser) ELSE NextTurn
    /\ UNCHANGED <<lo, hi, length>>

\* slip: the granularity is doubled past the number of steps.
Doubled == 2 * granularity

\* min(granularity * 2, len(kept))
Finer == IF 2 * granularity < Len(kept) THEN 2 * granularity ELSE Len(kept)

\* slip: complements are never tried.
RoundFailsAtOnce ==
    /\ pass = "chunks" /\ Len(kept) > 1 /\ turn = granularity
    /\ IF granularity >= Len(kept)
       THEN pass' = "done" /\ UNCHANGED <<kept, granularity, turn>>
       ELSE Narrow(kept, Finer)
    /\ UNCHANGED <<scenario, runs, best, lo, hi, length, exhausted>>

\* Neither chunk nor complement: refine, or stop.  At granularity 2 the
\* complements are the chunks.
RoundFails ==
    /\ pass \in {"chunks", "rest"} /\ Len(kept) > 1 /\ turn = granularity
    /\ IF pass = "chunks" /\ granularity > 2
       THEN pass' = "rest" /\ turn' = 0 /\ UNCHANGED <<kept, granularity>>
       ELSE IF granularity >= Len(kept)
       THEN pass' = "done" /\ UNCHANGED <<kept, granularity, turn>>
       ELSE Narrow(kept, Finer)
    /\ UNCHANGED <<scenario, runs, best, lo, hi, length, exhausted>>

OneStepLeft ==
    /\ pass = "chunks" /\ Len(kept) <= 1
    /\ pass' = "done"
    /\ UNCHANGED <<scenario, runs, best, lo, hi, length, kept, granularity, turn, exhausted>>

\* The next probe would be one too many.
Asking ==
    \/ pass = "record"
    \/ pass \in {"prefix", "fifo"} /\ lo < hi
    \/ pass = "chunks" /\ Len(kept) > 1 /\ turn < granularity
    \/ pass = "rest" /\ turn < granularity /\ Rest(turn) # <<>>

OutOfBudget ==
    /\ Asking /\ runs >= budget
    /\ pass' = "done" /\ exhausted' = TRUE
    /\ UNCHANGED <<scenario, runs, best, lo, hi, length, kept, granularity, turn>>

-----------------------------------------------------------------------------
ShrinkInit ==
    /\ chosen \in SUBSET Steps
    /\ fails \in SUBSET SUBSET chosen
    /\ budget \in Budgets
    /\ pass = "record" /\ runs = 0 /\ best = NoBest /\ exhausted = FALSE
    /\ lo = 0 /\ hi = Length /\ length = Length
    /\ kept = <<>> /\ granularity = 2 /\ turn = 0

ShrinkNext ==
    \/ ProbeRecording \/ ProbePrefix \/ PrefixFound \/ ProbeFifo \/ FifoFound
    \/ ProbeChunk \/ ProbeRest \/ RoundFails \/ OneStepLeft \/ OutOfBudget

ShrinkSpec == ShrinkInit /\ [][ShrinkNext]_searchVars

-----------------------------------------------------------------------------
\* Every variable keeps its type, the budget is never overspent, and no round
\* of _ddmin cuts its steps finer than they can be cut: no chunk is empty.
TypeOK ==
    /\ chosen \subseteq Steps /\ fails \subseteq SUBSET chosen /\ budget \in Budgets
    /\ pass \in {"record", "prefix", "fifo", "chunks", "rest", "done"}
    /\ runs \in 0 .. budget /\ exhausted \in BOOLEAN
    /\ best.steps \subseteq chosen /\ best.len \in -1 .. Length
    /\ lo \in 0 .. Length /\ hi \in 0 .. Length /\ length \in 0 .. Length
    /\ kept \in Seq(Steps) /\ turn \in 0 .. granularity
    /\ pass \in {"chunks", "rest"} /\ Len(kept) > 1 => granularity \in 2 .. Len(kept)

\* Whatever pass the budget runs out in, the schedule reported fails the way
\* the recording did, and None is only the answer to a recording that does
\* not reproduce.
AnswerReproduces ==
    pass = "done" => IF chosen \in fails THEN best # NoBest /\ best.steps \in fails
                   ELSE best = NoBest

\* When plain FIFO does not fail, the steps reported are all needed: reverting
\* any one of them to FIFO stops the failure.
OneMinimalIfFifoPasses ==
    pass = "done" /\ best # NoBest /\ ~exhausted /\ {} \notin fails =>
      \A step \in best.steps : best.steps \ {step} \notin fails
=============================================================================
