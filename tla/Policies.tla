------------------------------ MODULE Policies ------------------------------
(***************************************************************************)
(* Scheduling policies, and replaying what one of them chose: the policies *)
(* of src/src/simloop/_policy.py, _choice_log and _from_choices of         *)
(* src/src/simloop/_loop.py.                                               *)
(*                                                                         *)
(* The workload is any program that is deterministic given the choices: it *)
(* is a function from the choices made so far to the ready queue they lead *)
(* to, met one queue at a time.  A first run is scheduled by some policy   *)
(* and recorded; a second replays the recording, or the first run's script *)
(* without its trailing FIFO choices, as shrink_schedule reports it.       *)
(***************************************************************************)
EXTENDS Integers, Sequences, FiniteSets, SequencesExt, Functions

CONSTANTS
    Owners,     \* who a ready entry belongs to: a task, or a lone callback
    MaxWidth,   \* bound: entries in a ready queue
    MaxSteps,   \* bound: steps in a run
    MaxChoice,  \* bound: the largest choice in a script
    Draws,      \* what a first priority can be
    Depth, Horizon

ASSUME PolicyAssumption ==
    /\ MaxWidth \in Nat /\ MaxSteps \in Nat /\ MaxChoice \in Nat
    /\ Draws \subseteq Nat \ {0} /\ Draws # {}
    /\ Depth \in Nat \ {0} /\ Horizon \in Nat \ {0} /\ Depth - 1 <= Horizon

Queues  == SeqOf(Owners, MaxWidth)
Scripts == SeqOf(0 .. MaxChoice, MaxSteps)
Never == -1
NoScript == <<-1>>

VARIABLES
    queues,     \* the ready queue each sequence of choices leads to, once met
    policy,     \* "seeded", "pct" or "script"
    script,     \* ScriptedPolicy._choices
    log,        \* _choice_log
    divergedAt, \* diverged_at
    priorities, \* PCTPolicy._priorities
    floor,      \* PCTPolicy._floor
    changes,    \* PCTPolicy._change_points
    first,      \* the choices of the first run; NoScript while it goes on
    rerun,      \* what the second run replays: "recording" or "trimmed"
    pc          \* "first", "second", "done"

given == <<changes, rerun>>
pctVars == <<priorities, floor>>
vars == <<queues, policy, script, log, divergedAt, pctVars, given, first, pc>>

Met == log \in DOMAIN queues
Queue == queues[log]
Running == pc # "done" /\ Met /\ Queue # <<>>

-----------------------------------------------------------------------------
\* The workload, up to the next call of choose; an empty queue ends the run.
Meet ==
    /\ pc # "done" /\ ~Met
    /\ \E q \in IF Len(log) < MaxSteps THEN Queues ELSE {<<>>} :
          queues' = [h \in DOMAIN queues \cup {log} |-> IF h = log THEN q ELSE queues[h]]
    /\ UNCHANGED <<policy, script, log, divergedAt, pctVars, given, first, pc>>

\* SeededPolicy.choose: a uniform draw.
SeededChoose ==
    /\ Running /\ policy = "seeded"
    /\ \E i \in 0 .. Len(Queue) - 1 : log' = Append(log, i)
    /\ UNCHANGED <<queues, policy, script, divergedAt, pctVars, given, first, pc>>

\* slip: the latest departure is kept, not the first.
DivergedLast == Len(log)

\* _diverge
Diverged == IF divergedAt = Never THEN Len(log) ELSE divergedAt

\* slip: a script that is over runs the newest entry.
NewestFirst == Len(Queue) - 1

\* What an exhausted recording falls back to.
Fallback == 0

\* What a choice the queue does not have falls back to.
Clamped == Len(Queue) - 1

InRange == script[Len(log) + 1] < Len(Queue)

\* ScriptedPolicy.choose
ScriptedChoose ==
    /\ Running /\ policy = "script"
    /\ IF Len(log) >= Len(script) THEN log' = Append(log, Fallback) /\ divergedAt' = Diverged
       ELSE IF InRange THEN log' = Append(log, script[Len(log) + 1]) /\ UNCHANGED divergedAt
       ELSE log' = Append(log, Clamped) /\ divergedAt' = Diverged
    /\ UNCHANGED <<queues, policy, script, pctVars, given, first, pc>>

\* The earliest of the entries with the highest priority.
Leads(i, p) ==
    /\ \A j \in DOMAIN Queue : p[Queue[j]] <= p[Queue[i]]
    /\ \A j \in 1 .. i - 1 : p[Queue[j]] < p[Queue[i]]

\* The floor a change point demotes its leader to.
Lowered == floor - 1

\* PCTPolicy.choose; owners seen for the first time draw a priority.
PCTChoose ==
    /\ Running /\ policy = "pct"
    /\ \E fresh \in [ToSet(Queue) -> Draws] :
         LET p == [o \in DOMAIN priorities \cup ToSet(Queue) |->
                     IF o \in DOMAIN priorities THEN priorities[o] ELSE fresh[o]]
         IN \E i \in DOMAIN Queue :
              /\ Leads(i, p)
              /\ log' = Append(log, i - 1)
              /\ IF Len(log) \in changes
                 THEN floor' = Lowered /\ priorities' = [p EXCEPT ![Queue[i]] = Lowered]
                 ELSE priorities' = p /\ UNCHANGED floor
    /\ UNCHANGED <<queues, policy, script, divergedAt, given, first, pc>>

\* shrink_schedule drops the choices after the last one that is not FIFO.
Trimmed(s) ==
    SubSeq(s, 1, CHOOSE n \in 0 .. Len(s) :
                    /\ \A i \in n + 1 .. Len(s) : s[i] = 0
                    /\ n > 0 => s[n] # 0)

\* The first run is over: _from_choices builds the loop of the second.
Again ==
    /\ pc = "first" /\ Met /\ Queue = <<>>
    /\ pc' = "second" /\ first' = log /\ log' = <<>>
    /\ policy' = "script" /\ divergedAt' = Never
    /\ script' = IF rerun = "recording" THEN log ELSE Trimmed(script)
    /\ UNCHANGED <<queues, pctVars, given>>

Over ==
    /\ pc = "second" /\ Met /\ Queue = <<>>
    /\ pc' = "done"
    /\ UNCHANGED <<queues, policy, script, log, divergedAt, pctVars, given, first>>

Init ==
    /\ queues = << >>
    /\ policy \in {"seeded", "pct", "script"}
    /\ script \in IF policy = "script" THEN Scripts ELSE {NoScript}
    /\ changes \in IF policy = "pct"
                   THEN {C \in SUBSET (0 .. Horizon - 1) : Cardinality(C) = Depth - 1}
                   ELSE {{}}
    /\ rerun \in IF policy = "script" THEN {"recording", "trimmed"} ELSE {"recording"}
    /\ log = <<>> /\ divergedAt = Never /\ priorities = << >> /\ floor = 0
    /\ first = NoScript /\ pc = "first"

Next == Meet \/ SeededChoose \/ ScriptedChoose \/ PCTChoose \/ Again \/ Over

Spec == Init /\ [][Next]_vars

-----------------------------------------------------------------------------
\* diverged_at is "the first step where the replay stopped being faithful": up
\* to it the run made the recorded choices, and at it it could not.
DivergenceIsTold ==
    policy = "script" =>
        IF divergedAt = Never THEN IsPrefix(log, script)
        ELSE /\ divergedAt < Len(log)
             /\ IsPrefix(SubSeq(log, 1, divergedAt), script)
             /\ divergedAt < Len(script) => log[divergedAt + 1] # script[divergedAt + 1]

\* The second run does what the first did, step by step and to the end:
\* whichever policy chose it, and whether it had strayed from its own script,
\* a recording replays, and a script runs the same without the FIFO choices at
\* its end (_from_choices; the comment on trimming in shrink_schedule).
RerunsAlike ==
    /\ pc = "second" => IsPrefix(log, first)
    /\ pc = "done" => log = first

=============================================================================
