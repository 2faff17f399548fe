--------------------------- MODULE ScheduleProofs ---------------------------
(***************************************************************************)
(* Schedules, replayed and shrunk.  For any owners and any bounds, a       *)
(* recording replays and a trimmed script runs the same, and the departure *)
(* a replay reports is where it departed; what shrinking answers is below. *)
(*                                                                         *)
(* What a scripted run does at a step depends on the script, the number of *)
(* the step and the queue met there (Chosen), and that queue on the        *)
(* choices made so far.  The inductive invariant keeps the first run as a  *)
(* walk through the queues met (Walked) which the script of the second     *)
(* would choose again step by step (Follows): a recording because each of  *)
(* its choices is an entry of the queue it was made at, and a trimmed      *)
(* script because where it is over the whole one had nothing but zeros.    *)
(***************************************************************************)
EXTENDS Policies, Shrink, SequenceTheorems, FiniteSetTheorems, WellFoundedInduction, TLAPS

\* The choices before step n + 1.
Before(s, n) == SubSeq(s, 1, n)

\* What a run scripted with s chooses at step n + 1, from a queue q.
Chosen(s, n, q) ==
    IF n >= Len(s) THEN 0 ELSE IF s[n + 1] < Len(q) THEN s[n + 1] ELSE Len(q) - 1

\* Each choice is one of the entries of the queue those before it lead to.
Walked(choices) ==
    \A n \in 0 .. Len(choices) - 1 :
       /\ Before(choices, n) \in DOMAIN queues
       /\ queues[Before(choices, n)] # <<>>
       /\ choices[n + 1] < Len(queues[Before(choices, n)])

\* Each is what that script chooses there.
Follows(choices, s) ==
    \A n \in 0 .. Len(choices) - 1 :
       choices[n + 1] = Chosen(s, n, queues[Before(choices, n)])

PolicyTypes ==
    /\ \A h \in DOMAIN queues : queues[h] \in Seq(Owners)
    /\ log \in Seq(Nat) /\ divergedAt \in Nat \cup {Never}
    /\ policy \in {"seeded", "pct", "script"} /\ rerun \in {"recording", "trimmed"}
    /\ policy = "script" => script \in Seq(Nat)
    /\ pc \in {"first", "second", "done"}

FirstRunInv ==
    pc = "first" /\ rerun = "trimmed" => policy = "script"

WalkInv ==
    /\ Walked(log)
    /\ policy = "script" => Follows(log, script)

SecondRunInv ==
    pc # "first" =>
       /\ policy = "script"
       /\ first \in Seq(Nat) /\ Walked(first) /\ Follows(first, script)
       /\ first \in DOMAIN queues /\ queues[first] = <<>>
       /\ IsPrefix(log, first)
       /\ pc = "done" => log = first

PolicyInv ==
    PolicyTypes /\ DivergenceIsTold /\ FirstRunInv /\ WalkInv /\ SecondRunInv

-----------------------------------------------------------------------------
\* Prefixes

LEMMA BeforeIs ==
    ASSUME NEW S, NEW s \in Seq(S), NEW n \in Nat, n <= Len(s)
    PROVE  /\ Before(s, n) \in Seq(S) /\ Len(Before(s, n)) = n
           /\ \A i \in 1 .. n : Before(s, n)[i] = s[i]
<1>1. \A i \in 1 .. n : s[i] \in S
  <2>1. SUFFICES ASSUME NEW i \in 1 .. n PROVE s[i] \in S
    OBVIOUS
  <2>2. i \in 1 .. Len(s)
    OBVIOUS
  <2> QED BY <2>2, ElementOfSeq
<1>2. /\ SubSeq(s, 1, n) \in Seq(S)
      /\ Len(SubSeq(s, 1, n)) = IF 1 <= n THEN n - 1 + 1 ELSE 0
      /\ \A i \in 1 .. n - 1 + 1 : SubSeq(s, 1, n)[i] = s[1 + i - 1]
  BY <1>1, 1 \in Int, n \in Int, SubSeqProperties
<1>3. n - 1 + 1 = n /\ \A i \in 1 .. n : 1 + i - 1 = i
  OBVIOUS
<1> QED BY <1>2, <1>3 DEF Before

\* The choices before a step are those before it in any run that agrees so far.
LEMMA BeforeAlike ==
    ASSUME NEW S, NEW s \in Seq(S), NEW t \in Seq(S), NEW n \in Nat,
           n <= Len(s), n <= Len(t), \A i \in 1 .. n : s[i] = t[i]
    PROVE  Before(s, n) = Before(t, n)
<1>1. /\ Before(s, n) \in Seq(S) /\ Len(Before(s, n)) = n
      /\ \A i \in 1 .. n : Before(s, n)[i] = s[i]
  BY BeforeIs
<1>2. /\ Before(t, n) \in Seq(S) /\ Len(Before(t, n)) = n
      /\ \A i \in 1 .. n : Before(t, n)[i] = t[i]
  BY BeforeIs
<1>3. \A i \in 1 .. Len(Before(s, n)) : Before(s, n)[i] = Before(t, n)[i]
  BY <1>1, <1>2
<1> QED BY <1>1, <1>2, <1>3, SeqEqual

LEMMA BeforeWhole ==
    ASSUME NEW S, NEW s \in Seq(S)
    PROVE  Before(s, Len(s)) = s
<1>1. Len(s) \in Nat
  BY LenProperties
<1>2. /\ Before(s, Len(s)) \in Seq(S) /\ Len(Before(s, Len(s))) = Len(s)
      /\ \A i \in 1 .. Len(s) : Before(s, Len(s))[i] = s[i]
  BY <1>1, BeforeIs
<1> QED BY <1>2, SeqEqual

\* Whether one run begins another is told entry by entry.
LEMMA PrefixByEntry ==
    ASSUME NEW S, NEW s \in Seq(S), NEW t \in Seq(S)
    PROVE  IsPrefix(s, t) <=>
              Len(s) <= Len(t) /\ \A i \in 1 .. Len(s) : s[i] = t[i]
<1>0. Len(s) \in Nat /\ Before(s, Len(s)) = s
  BY LenProperties, BeforeWhole
<1>1. ASSUME IsPrefix(s, t)
      PROVE  Len(s) <= Len(t) /\ \A i \in 1 .. Len(s) : s[i] = t[i]
  <2>1. Len(s) <= Len(t) /\ Before(s, Len(s)) = Before(t, Len(s))
    BY <1>1 DEF IsPrefix, Before
  <2>2. \A i \in 1 .. Len(s) : Before(t, Len(s))[i] = t[i]
    BY <2>1, <1>0, BeforeIs
  <2> QED BY <1>0, <2>1, <2>2
<1>2. ASSUME Len(s) <= Len(t), \A i \in 1 .. Len(s) : s[i] = t[i]
      PROVE  IsPrefix(s, t)
  <2>1. Len(s) <= Len(s)
    BY <1>0
  <2>2. Before(s, Len(s)) = Before(t, Len(s))
    BY <1>0, <1>2, <2>1, BeforeAlike
  <2> QED BY <1>2, <2>2 DEF IsPrefix, Before
<1> QED BY <1>1, <1>2

\* A longer run made the same choices before each of the steps they share.
LEMMA GrownIs ==
    ASSUME NEW S, NEW s \in Seq(S), NEW x \in S
    PROVE  /\ Append(s, x) \in Seq(S) /\ Len(Append(s, x)) = Len(s) + 1
           /\ Append(s, x)[Len(s) + 1] = x
           /\ \A i \in 1 .. Len(s) : Append(s, x)[i] = s[i]
           /\ Before(Append(s, x), Len(s)) = s
           /\ \A n \in 0 .. Len(s) : Before(Append(s, x), n) = Before(s, n)
<1>1. Len(s) \in Nat
  BY LenProperties
<1>2. /\ Append(s, x) \in Seq(S) /\ Len(Append(s, x)) = Len(s) + 1
      /\ Append(s, x)[Len(s) + 1] = x
      /\ \A i \in 1 .. Len(s) : Append(s, x)[i] = s[i]
  BY AppendProperties
<1>3. \A n \in 0 .. Len(s) : Before(Append(s, x), n) = Before(s, n)
  <2>1. SUFFICES ASSUME NEW n \in 0 .. Len(s)
                 PROVE  Before(Append(s, x), n) = Before(s, n)
    OBVIOUS
  <2>2. /\ n \in Nat /\ n <= Len(s) /\ n <= Len(Append(s, x))
        /\ \A i \in 1 .. n : Append(s, x)[i] = s[i]
    BY <1>1, <1>2
  <2> QED BY <1>2, <2>2, BeforeAlike
<1>4. Before(Append(s, x), Len(s)) = s
  <2>1. Len(s) \in 0 .. Len(s)
    BY <1>1
  <2> QED BY <1>3, <2>1, BeforeWhole
<1> QED BY <1>2, <1>3, <1>4

-----------------------------------------------------------------------------
\* Scripts without their trailing zeros

\* A nonempty set of naturals has a least member.
LEMMA LeastOf ==
    ASSUME NEW S \in SUBSET Nat, S # {}
    PROVE  \E p \in S : \A q \in S : p <= q
<1>1. PICK p \in S : \A q \in S : <<q, p>> \notin OpToRel(<, Nat)
  BY NatLessThanWellFounded, WFMin
<1>2. ASSUME NEW q \in S, q < p PROVE FALSE
  <2>1. <<q, p>> \in Nat \X Nat /\ <<q, p>>[1] < <<q, p>>[2]
    BY <1>2
  <2>2. <<q, p>> \in OpToRel(<, Nat)
    BY <2>1, Zenon DEF OpToRel
  <2> QED BY <1>1, <2>2
<1> QED BY <1>2

\* Trimmed drops a tail of zeros, and only that.
LEMMA TrimmedIs ==
    ASSUME NEW s \in Seq(Nat)
    PROVE  \E n \in 0 .. Len(s) : /\ Trimmed(s) = Before(s, n)
                                  /\ \A i \in n + 1 .. Len(s) : s[i] = 0
<1> DEFINE Over0(n) == \A i \in n + 1 .. Len(s) : s[i] = 0
           CutAt(n) == Over0(n) /\ (n > 0 => s[n] # 0)
           Cuts == {n \in 0 .. Len(s) : Over0(n)}
<1>1. Len(s) \in Nat /\ Len(s) \in Cuts /\ Cuts \in SUBSET Nat
  BY LenProperties
<1>2. PICK p \in Cuts : \A q \in Cuts : p <= q
  <2> HIDE DEF Cuts
  <2> QED BY <1>1, LeastOf
<1>3. p > 0 => s[p] # 0
  <2>1. SUFFICES ASSUME p > 0, s[p] = 0 PROVE FALSE
    OBVIOUS
  <2>2. p - 1 \in 0 .. Len(s) /\ \A i \in (p - 1) + 1 .. Len(s) : i = p \/ i \in p + 1 .. Len(s)
    BY <1>1, <2>1
  <2>3. p - 1 \in Cuts
    BY <2>1, <2>2
  <2>4. p \in Nat /\ p <= p - 1
    <3> HIDE DEF Cuts
    <3> QED BY <1>1, <1>2, <2>3
  <2> QED BY <2>4
<1>4. \E n \in 0 .. Len(s) : CutAt(n)
  BY <1>2, <1>3
<1>5. PICK c : c = CHOOSE n \in 0 .. Len(s) : CutAt(n)
  OBVIOUS
<1>6. c \in 0 .. Len(s) /\ CutAt(c)
  <2> HIDE DEF CutAt
  <2> QED BY <1>4, <1>5
<1>7. Trimmed(s) = Before(s, c)
  BY <1>5 DEF Trimmed, Before
<1> QED BY <1>6, <1>7

\* So the trimmed script chooses what the whole one does, at every step.
LEMMA TrimmedChooses ==
    ASSUME NEW s \in Seq(Nat)
    PROVE  /\ Trimmed(s) \in Seq(Nat)
           /\ \A n \in Nat : \A q \in Seq(Owners) :
                 q # <<>> => Chosen(Trimmed(s), n, q) = Chosen(s, n, q)
<1>1. PICK c \in 0 .. Len(s) : /\ Trimmed(s) = Before(s, c)
                               /\ \A i \in c + 1 .. Len(s) : s[i] = 0
  BY TrimmedIs
<1>2. Len(s) \in Nat /\ c \in Nat /\ c <= Len(s)
  BY LenProperties
<1>3. /\ Trimmed(s) \in Seq(Nat) /\ Len(Trimmed(s)) = c
      /\ \A i \in 1 .. c : Trimmed(s)[i] = s[i]
  BY <1>1, <1>2, BeforeIs
<1>4. ASSUME NEW n \in Nat, NEW q \in Seq(Owners), q # <<>>
      PROVE  Chosen(Trimmed(s), n, q) = Chosen(s, n, q)
  <2>1. Len(q) \in Nat /\ Len(q) > 0
    BY <1>4, EmptySeq
  <2>2. CASE n < c
    BY <2>1, <2>2, <1>2, <1>3 DEF Chosen
  <2>3. CASE c <= n /\ n < Len(s)
    <3>1. n + 1 \in c + 1 .. Len(s)
      BY <2>3, <1>2
    <3>2. s[n + 1] = 0
      BY <3>1, <1>1
    <3> QED BY <3>2, <2>3, <2>1, <1>2, <1>3 DEF Chosen
  <2>4. CASE Len(s) <= n
    BY <2>4, <1>2, <1>3 DEF Chosen
  <2> QED BY <2>2, <2>3, <2>4, <1>2
<1> QED BY <1>3, <1>4

\* And a recording chooses what it recorded, whatever policy chose it.
LEMMA RecordingChooses ==
    ASSUME log \in Seq(Nat), Walked(log)
    PROVE  Follows(log, log)
<1>1. SUFFICES ASSUME NEW n \in 0 .. Len(log) - 1
               PROVE  log[n + 1] = Chosen(log, n, queues[Before(log, n)])
  BY DEF Follows
<1>2. Len(log) \in Nat /\ ~(n >= Len(log))
  BY LenProperties
<1>3. log[n + 1] < Len(queues[Before(log, n)])
  BY DEF Walked
<1> QED BY <1>2, <1>3 DEF Chosen

-----------------------------------------------------------------------------
\* What the steps do

\* A policy picks entry x of the queue it is given.
Picks(x) ==
    /\ Running /\ x \in 0 .. Len(Queue) - 1 /\ log' = Append(log, x)
    /\ UNCHANGED <<queues, policy, script, rerun, first, pc>>
    /\ divergedAt' \in {divergedAt, Diverged}
    /\ policy = "script" =>
          /\ x = Chosen(script, Len(log), Queue)
          /\ divergedAt' = IF Len(log) < Len(script) /\ x = script[Len(log) + 1]
                           THEN divergedAt ELSE Diverged

LEMMA QueueMet ==
    ASSUME PolicyTypes, Running
    PROVE  /\ log \in DOMAIN queues /\ Queue = queues[log]
           /\ Queue \in Seq(Owners) /\ Queue # <<>> /\ Len(Queue) \in Nat \ {0}
<1>1. log \in DOMAIN queues /\ Queue = queues[log] /\ Queue # <<>>
  BY DEF Running, Met, Queue
<1>2. Queue \in Seq(Owners)
  BY <1>1 DEF PolicyTypes
<1> QED BY <1>1, <1>2, EmptySeq

LEMMA SeededPicks ==
    ASSUME PolicyTypes, SeededChoose
    PROVE  \E x \in Nat : Picks(x)
<1>1. /\ Running /\ policy = "seeded"
      /\ UNCHANGED <<queues, policy, script, divergedAt, rerun, first, pc>>
  BY DEF SeededChoose, given
<1>2. PICK x \in 0 .. Len(Queue) - 1 : log' = Append(log, x)
  BY DEF SeededChoose
<1>3. x \in Nat
  BY <1>1, QueueMet
<1> QED BY <1>1, <1>2, <1>3 DEF Picks

LEMMA PCTPicks ==
    ASSUME PolicyTypes, PCTChoose
    PROVE  \E x \in Nat : Picks(x)
<1>1. /\ Running /\ policy = "pct"
      /\ UNCHANGED <<queues, policy, script, divergedAt, rerun, first, pc>>
  BY DEF PCTChoose, given
<1>2. PICK i \in DOMAIN Queue : log' = Append(log, i - 1)
  BY Zenon DEF PCTChoose
<1>3. /\ Queue \in Seq(Owners) /\ Len(Queue) \in Nat \ {0}
      /\ DOMAIN Queue = 1 .. Len(Queue)
  BY <1>1, QueueMet, LenProperties
<1>4. i - 1 \in Nat /\ i - 1 \in 0 .. Len(Queue) - 1
  BY <1>2, <1>3
<1>5. PICK x : x = i - 1
  OBVIOUS
<1> QED BY <1>1, <1>2, <1>4, <1>5 DEF Picks

LEMMA ScriptedPicks ==
    ASSUME PolicyTypes, ScriptedChoose
    PROVE  \E x \in Nat : Picks(x)
<1>1. /\ Running /\ policy = "script" /\ script \in Seq(Nat) /\ log \in Seq(Nat)
      /\ UNCHANGED <<queues, policy, script, rerun, first, pc>>
  BY DEF ScriptedChoose, given, PolicyTypes
<1>2. Len(log) \in Nat /\ Len(script) \in Nat /\ Len(Queue) \in Nat \ {0}
  BY <1>1, QueueMet, LenProperties
<1>3. CASE Len(log) >= Len(script)
  <2>1. log' = Append(log, 0) /\ divergedAt' = Diverged
    BY <1>3 DEF ScriptedChoose, Fallback
  <2>2. 0 = Chosen(script, Len(log), Queue) /\ ~(Len(log) < Len(script))
    BY <1>2, <1>3 DEF Chosen
  <2>3. 0 \in 0 .. Len(Queue) - 1
    BY <1>2
  <2>4. Picks(0)
    BY <1>1, <2>1, <2>2, <2>3 DEF Picks
  <2> QED BY <2>4
<1>4. CASE Len(log) < Len(script) /\ InRange
  <2>1. log' = Append(log, script[Len(log) + 1]) /\ divergedAt' = divergedAt
    BY <1>2, <1>4 DEF ScriptedChoose
  <2>2. PICK x : x = script[Len(log) + 1]
    OBVIOUS
  <2>3. Len(log) + 1 \in 1 .. Len(script)
    BY <1>2, <1>4
  <2>4. x \in Nat
    BY <1>1, <2>2, <2>3, ElementOfSeq
  <2>5. x < Len(Queue) /\ x = Chosen(script, Len(log), Queue)
    BY <1>2, <1>4, <2>2 DEF Chosen, InRange
  <2>6. x \in 0 .. Len(Queue) - 1
    BY <1>2, <2>4, <2>5
  <2>7. Picks(x)
    BY <1>1, <1>4, <2>1, <2>2, <2>5, <2>6 DEF Picks
  <2> QED BY <2>4, <2>7
<1>5. CASE Len(log) < Len(script) /\ ~InRange
  <2>1. log' = Append(log, Clamped) /\ divergedAt' = Diverged
    BY <1>2, <1>5 DEF ScriptedChoose
  <2>2. PICK x : x = Clamped
    OBVIOUS
  <2>3. script[Len(log) + 1] \in Nat
    <3>1. Len(log) + 1 \in 1 .. Len(script)
      BY <1>2, <1>5
    <3> QED BY <1>1, <3>1, ElementOfSeq
  <2>4. /\ x \in Nat /\ x \in 0 .. Len(Queue) - 1 /\ x # script[Len(log) + 1]
        /\ x = Chosen(script, Len(log), Queue)
    BY <1>2, <1>5, <2>2, <2>3 DEF Chosen, InRange, Clamped
  <2>5. Picks(x)
    BY <1>1, <2>1, <2>2, <2>4 DEF Picks
  <2> QED BY <2>4, <2>5
<1> QED BY <1>2, <1>3, <1>4, <1>5

-----------------------------------------------------------------------------
\* The departure a replay reports

\* The run made those choices and strayed from the script at that step.
Told(choices, s, d) ==
    IF d = Never THEN IsPrefix(choices, s)
    ELSE /\ d < Len(choices)
         /\ IsPrefix(SubSeq(choices, 1, d), s)
         /\ d < Len(s) => choices[d + 1] # s[d + 1]

\* A run that had strayed has strayed there still when it is longer.
LEMMA StrayedStays ==
    ASSUME NEW l \in Seq(Nat), NEW x \in Nat, NEW s \in Seq(Nat), NEW d \in Nat,
           Told(l, s, d)
    PROVE  Told(Append(l, x), s, d)
<1>1. /\ d # Never /\ d < Len(l) /\ IsPrefix(Before(l, d), s)
      /\ d < Len(s) => l[d + 1] # s[d + 1]
  BY DEF Told, Never, Before
<1>2. Len(l) \in Nat /\ d \in 0 .. Len(l) /\ d + 1 \in 1 .. Len(l)
  BY <1>1, LenProperties
<1>3. /\ Len(Append(l, x)) = Len(l) + 1 /\ Append(l, x)[d + 1] = l[d + 1]
      /\ Before(Append(l, x), d) = Before(l, d)
  BY <1>2, GrownIs
<1>4. d < Len(Append(l, x))
  BY <1>1, <1>2, <1>3
<1> QED BY <1>1, <1>3, <1>4 DEF Told, Before

\* One that had not stays with the script, or strays now.
LEMMA StraysNow ==
    ASSUME NEW l \in Seq(Nat), NEW x \in Nat, NEW s \in Seq(Nat), Told(l, s, Never)
    PROVE  Told(Append(l, x), s,
                IF Len(l) < Len(s) /\ x = s[Len(l) + 1] THEN Never ELSE Len(l))
<1>1. Len(l) <= Len(s) /\ \A i \in 1 .. Len(l) : l[i] = s[i]
  BY PrefixByEntry DEF Told
<1>2. /\ Append(l, x) \in Seq(Nat) /\ Len(Append(l, x)) = Len(l) + 1
      /\ Append(l, x)[Len(l) + 1] = x /\ Before(Append(l, x), Len(l)) = l
      /\ \A i \in 1 .. Len(l) : Append(l, x)[i] = l[i]
  BY GrownIs
<1>3. Len(l) \in Nat /\ Len(s) \in Nat
  BY LenProperties
<1>4. CASE Len(l) < Len(s) /\ x = s[Len(l) + 1]
  <2>1. Len(Append(l, x)) <= Len(s)
    BY <1>2, <1>3, <1>4
  <2>2. ASSUME NEW i \in 1 .. Len(Append(l, x)) PROVE Append(l, x)[i] = s[i]
    <3>1. i = Len(l) + 1 \/ i \in 1 .. Len(l)
      BY <1>2, <1>3
    <3> QED BY <3>1, <1>1, <1>2, <1>4
  <2>3. IsPrefix(Append(l, x), s)
    BY <1>2, <2>1, <2>2, PrefixByEntry
  <2> QED BY <1>4, <2>3 DEF Told
<1>5. CASE ~(Len(l) < Len(s) /\ x = s[Len(l) + 1])
  <2>1. Len(l) # Never /\ Len(l) < Len(Append(l, x))
    BY <1>2, <1>3 DEF Never
  <2>2. IsPrefix(SubSeq(Append(l, x), 1, Len(l)), s)
    BY <1>2 DEF Told, Before
  <2>3. Len(l) < Len(s) => Append(l, x)[Len(l) + 1] # s[Len(l) + 1]
    BY <1>2, <1>5
  <2> QED BY <1>5, <2>1, <2>2, <2>3 DEF Told
<1> QED BY <1>4, <1>5

LEMMA PickingTells ==
    ASSUME NEW x \in Nat, PolicyTypes, DivergenceIsTold, Picks(x)
    PROVE  DivergenceIsTold'
<1>1. SUFFICES ASSUME policy = "script" PROVE Told(log', script', divergedAt')
  BY DEF DivergenceIsTold, Told, Picks
<1>2. /\ log \in Seq(Nat) /\ script \in Seq(Nat) /\ divergedAt \in Nat \cup {Never}
      /\ Told(log, script, divergedAt) /\ log' = Append(log, x) /\ script' = script
      /\ divergedAt' = IF Len(log) < Len(script) /\ x = script[Len(log) + 1]
                       THEN divergedAt ELSE Diverged
  BY <1>1 DEF PolicyTypes, DivergenceIsTold, Told, Picks
<1>3. CASE divergedAt = Never
  <2>1. divergedAt' = IF Len(log) < Len(script) /\ x = script[Len(log) + 1]
                      THEN Never ELSE Len(log)
    BY <1>2, <1>3 DEF Diverged
  <2> QED BY <1>2, <1>3, <2>1, StraysNow
<1>4. CASE divergedAt # Never
  <2>1. divergedAt' = divergedAt /\ divergedAt \in Nat
    BY <1>2, <1>4 DEF Diverged
  <2> QED BY <1>2, <2>1, StrayedStays
<1> QED BY <1>3, <1>4

-----------------------------------------------------------------------------
\* The walk through the queues

LEMMA PickingWalks ==
    ASSUME NEW x \in Nat, PolicyTypes, WalkInv, Picks(x)
    PROVE  WalkInv'
<1>1. /\ log \in Seq(Nat) /\ log' = Append(log, x) /\ queues' = queues
      /\ script' = script /\ policy' = policy
      /\ policy = "script" => x = Chosen(script, Len(log), Queue)
      /\ x \in 0 .. Len(Queue) - 1
  BY DEF PolicyTypes, Picks
<1>2. /\ log \in DOMAIN queues /\ Queue = queues[log]
      /\ Queue # <<>> /\ Len(Queue) \in Nat \ {0}
  BY QueueMet DEF Picks
<1>3. /\ Len(log') = Len(log) + 1 /\ log'[Len(log) + 1] = x /\ Before(log', Len(log)) = log
      /\ \A i \in 1 .. Len(log) : log'[i] = log[i]
      /\ \A n \in 0 .. Len(log) : Before(log', n) = Before(log, n)
      /\ Len(log) \in Nat
  BY <1>1, GrownIs, LenProperties
<1>4. \A n \in 0 .. Len(log') - 1 : n \in 0 .. Len(log) - 1 \/ n = Len(log)
  BY <1>3
<1>5. \A n \in 0 .. Len(log) - 1 : n \in 0 .. Len(log) /\ n + 1 \in 1 .. Len(log)
  BY <1>3
<1>6. Walked(log)'
  <2>1. SUFFICES ASSUME NEW n \in 0 .. Len(log') - 1
                 PROVE  /\ Before(log', n) \in DOMAIN queues
                        /\ queues[Before(log', n)] # <<>>
                        /\ log'[n + 1] < Len(queues[Before(log', n)])
    BY <1>1 DEF Walked
  <2>2. CASE n = Len(log)
    BY <2>2, <1>1, <1>2, <1>3
  <2>3. CASE n \in 0 .. Len(log) - 1
    BY <2>3, <1>3, <1>5 DEF WalkInv, Walked
  <2> QED BY <1>4, <2>2, <2>3
<1>7. policy' = "script" => Follows(log, script)'
  <2>1. SUFFICES ASSUME policy = "script", NEW n \in 0 .. Len(log') - 1
                 PROVE  log'[n + 1] = Chosen(script, n, queues[Before(log', n)])
    BY <1>1 DEF Follows, Chosen
  <2>2. CASE n = Len(log)
    BY <2>1, <2>2, <1>1, <1>2, <1>3
  <2>3. CASE n \in 0 .. Len(log) - 1
    BY <2>1, <2>3, <1>3, <1>5 DEF WalkInv, Follows
  <2> QED BY <1>4, <2>2, <2>3
<1> QED BY <1>6, <1>7 DEF WalkInv

\* What the second run picks is what the first did there.
LEMMA PickingReruns ==
    ASSUME NEW x \in Nat, PolicyTypes, SecondRunInv, Picks(x)
    PROVE  SecondRunInv'
<1>1. /\ log \in Seq(Nat) /\ log' = Append(log, x)
      /\ UNCHANGED <<queues, policy, script, first, pc>>
      /\ policy = "script" => x = Chosen(script, Len(log), Queue)
      /\ pc # "done"
  BY DEF PolicyTypes, Picks, Running
<1>2. /\ log \in DOMAIN queues /\ Queue = queues[log] /\ Queue # <<>>
  BY QueueMet DEF Picks
<1>3. SUFFICES ASSUME pc # "first" PROVE IsPrefix(log', first)
  BY <1>1 DEF SecondRunInv, Walked, Follows, Chosen
<1>4. /\ policy = "script" /\ first \in Seq(Nat) /\ queues[first] = <<>>
      /\ Follows(first, script) /\ IsPrefix(log, first)
  BY <1>3 DEF SecondRunInv
<1>5. /\ Len(log) \in Nat /\ Len(first) \in Nat /\ Len(log) <= Len(first)
      /\ \A i \in 1 .. Len(log) : log[i] = first[i]
  <2>1. Len(log) \in Nat /\ Len(first) \in Nat
    BY <1>1, <1>4, LenProperties
  <2>2. Len(log) <= Len(first) /\ \A i \in 1 .. Len(log) : log[i] = first[i]
    BY <1>1, <1>4, PrefixByEntry
  <2> QED BY <2>1, <2>2
<1>6. Len(log) # Len(first)
  <2>1. SUFFICES ASSUME Len(log) = Len(first) PROVE FALSE
    OBVIOUS
  <2>2. log = first
    BY <2>1, <1>1, <1>4, <1>5, SeqEqual
  <2> QED BY <2>2, <1>2, <1>4
<1>7. Before(first, Len(log)) = log
  <2>1. Len(log) <= Len(log)
    BY <1>5
  <2>2. Before(log, Len(log)) = Before(first, Len(log))
    BY <2>1, <1>1, <1>4, <1>5, BeforeAlike
  <2> QED BY <2>2, <1>1, BeforeWhole
<1>8. first[Len(log) + 1] = x
  <2>1. Len(log) \in 0 .. Len(first) - 1
    BY <1>5, <1>6
  <2>2. first[Len(log) + 1] = Chosen(script, Len(log), queues[Before(first, Len(log))])
    BY <2>1, <1>4 DEF Follows
  <2> QED BY <2>2, <1>1, <1>2, <1>4, <1>7
<1>9. /\ log' \in Seq(Nat) /\ Len(log') = Len(log) + 1 /\ log'[Len(log) + 1] = x
      /\ \A i \in 1 .. Len(log) : log'[i] = log[i]
  BY <1>1, GrownIs
<1>10. Len(log') <= Len(first)
  BY <1>5, <1>6, <1>9
<1>11. ASSUME NEW i \in 1 .. Len(log') PROVE log'[i] = first[i]
  <2>1. i = Len(log) + 1 \/ i \in 1 .. Len(log)
    BY <1>5, <1>9
  <2> QED BY <2>1, <1>5, <1>8, <1>9
<1> QED BY <1>4, <1>9, <1>10, <1>11, PrefixByEntry

LEMMA PickingKeeps ==
    ASSUME NEW x \in Nat, PolicyInv, Picks(x)
    PROVE  PolicyInv'
<1>1. PolicyTypes'
  <2>1. log' \in Seq(Nat) /\ Len(log) \in Nat
    BY GrownIs, LenProperties DEF PolicyInv, PolicyTypes, Picks
  <2>2. divergedAt' \in Nat \cup {Never}
    BY <2>1 DEF PolicyInv, PolicyTypes, Picks, Diverged
  <2> QED BY <2>1, <2>2 DEF PolicyInv, PolicyTypes, Picks
<1>2. DivergenceIsTold'
  BY PickingTells DEF PolicyInv
<1>3. FirstRunInv'
  BY DEF PolicyInv, FirstRunInv, Picks
<1>4. WalkInv'
  BY PickingWalks DEF PolicyInv
<1>5. SecondRunInv'
  BY PickingReruns DEF PolicyInv
<1> QED BY <1>1, <1>2, <1>3, <1>4, <1>5 DEF PolicyInv

-----------------------------------------------------------------------------
\* The other steps

\* A queue is met where none was: no earlier choice was made there.
LEMMA MeetingKeeps ==
    ASSUME PolicyAssumption, PolicyInv, Meet
    PROVE  PolicyInv'
<1>1. /\ log \notin DOMAIN queues
      /\ UNCHANGED <<policy, script, log, divergedAt, rerun, first, pc>>
  BY DEF Meet, Met, given
<1>2. PICK q \in IF Len(log) < MaxSteps THEN Queues ELSE {<<>>} :
         queues' = [h \in DOMAIN queues \cup {log} |-> IF h = log THEN q ELSE queues[h]]
  BY DEF Meet
<1>3. /\ DOMAIN queues' = DOMAIN queues \cup {log} /\ queues'[log] = q
      /\ \A h \in DOMAIN queues : queues'[h] = queues[h]
  BY <1>1, <1>2
<1>4. q \in Seq(Owners)
  <2>1. CASE q \in Queues
    <3>1. PICK m \in 0 .. MaxWidth : q \in [1 .. m -> Owners]
      BY <2>1 DEF Queues, SeqOf
    <3>2. m \in Nat
      BY <3>1 DEF PolicyAssumption
    <3> QED BY <3>1, <3>2, SeqDef
  <2>2. CASE q = <<>>
    BY <2>2, EmptySeq
  <2> QED BY <1>2, <2>1, <2>2
<1>5. PolicyTypes'
  BY <1>1, <1>3, <1>4 DEF PolicyInv, PolicyTypes
<1>6. ASSUME NEW l, Walked(l) PROVE /\ Walked(l)'
                                    /\ \A s : Follows(l, s) => Follows(l, s)'
  <2>1. ASSUME NEW n \in 0 .. Len(l) - 1
        PROVE  /\ Before(l, n) \in DOMAIN queues' /\ queues'[Before(l, n)] # <<>>
               /\ l[n + 1] < Len(queues'[Before(l, n)])
               /\ queues'[Before(l, n)] = queues[Before(l, n)]
    BY <1>3, <1>6 DEF Walked
  <2> QED BY <2>1 DEF Walked, Follows
<1>7. WalkInv'
  BY <1>1, <1>6 DEF PolicyInv, WalkInv
<1>8. SecondRunInv'
  BY <1>1, <1>3, <1>6 DEF PolicyInv, SecondRunInv
<1>9. DivergenceIsTold' /\ FirstRunInv'
  BY <1>1 DEF PolicyInv, DivergenceIsTold, FirstRunInv
<1> QED BY <1>5, <1>7, <1>8, <1>9 DEF PolicyInv

\* The second run sets out with a script that the first followed to its end.
LEMMA AgainKeeps ==
    ASSUME PolicyInv, Again
    PROVE  PolicyInv'
<1>1. /\ pc = "first" /\ log \in DOMAIN queues /\ queues[log] = <<>>
      /\ pc' = "second" /\ first' = log /\ log' = <<>> /\ policy' = "script"
      /\ divergedAt' = Never /\ UNCHANGED <<queues, rerun>>
      /\ script' = IF rerun = "recording" THEN log ELSE Trimmed(script)
  BY DEF Again, Met, Queue, given
<1>2. log \in Seq(Nat) /\ Walked(log)
  BY DEF PolicyInv, PolicyTypes, WalkInv
<1>3. script' \in Seq(Nat) /\ Follows(log, script')
  <2>1. CASE rerun = "recording"
    <3>1. script' = log
      BY <1>1, <2>1
    <3> QED BY <3>1, <1>2, RecordingChooses
  <2>2. CASE rerun # "recording"
    <3>1. policy = "script" /\ script \in Seq(Nat) /\ Follows(log, script)
      BY <1>1, <2>2 DEF PolicyInv, PolicyTypes, FirstRunInv, WalkInv
    <3>2. PICK s : s = Trimmed(script)
      OBVIOUS
    <3>3. s \in Seq(Nat) /\ script' = s
      BY <1>1, <2>2, <3>1, <3>2, TrimmedChooses
    <3>4. \A n \in Nat : \A q \in Seq(Owners) :
             q # <<>> => Chosen(s, n, q) = Chosen(script, n, q)
      BY <3>1, <3>2, TrimmedChooses
    <3>5. ASSUME NEW n \in 0 .. Len(log) - 1
          PROVE  log[n + 1] = Chosen(s, n, queues[Before(log, n)])
      <4>1. queues[Before(log, n)] # <<>> /\ queues[Before(log, n)] \in Seq(Owners)
        BY <1>2 DEF Walked, PolicyInv, PolicyTypes
      <4>2. n \in Nat /\ log[n + 1] = Chosen(script, n, queues[Before(log, n)])
        BY <3>1 DEF Follows
      <4> QED BY <3>4, <4>1, <4>2
    <3> QED BY <3>3, <3>5 DEF Follows
  <2> QED BY <2>1, <2>2
<1>4. PolicyTypes'
  BY <1>1, <1>3, EmptySeq DEF PolicyInv, PolicyTypes
<1>5. /\ <<>> \in Seq(Nat) /\ Len(<<>>) = 0
      /\ \A s \in Seq(Nat) : IsPrefix(<<>>, s)
  <2>1. <<>> \in Seq(Nat) /\ Len(<<>>) = 0
    BY EmptySeq
  <2>2. ASSUME NEW s \in Seq(Nat) PROVE IsPrefix(<<>>, s)
    <3>1. Len(<<>>) <= Len(s) /\ \A i \in 1 .. Len(<<>>) : <<>>[i] = s[i]
      BY <2>1, LenProperties
    <3> QED BY <2>1, <3>1, PrefixByEntry
  <2> QED BY <2>1, <2>2
<1>6. DivergenceIsTold'
  BY <1>1, <1>3, <1>5 DEF DivergenceIsTold
<1>7. FirstRunInv'
  BY <1>1 DEF FirstRunInv
<1>8. WalkInv'
  BY <1>1, <1>5 DEF WalkInv, Walked, Follows
<1>9. SecondRunInv'
  <2>1. Walked(first)' /\ Follows(first, script)'
    BY <1>1, <1>2, <1>3 DEF Walked, Follows
  <2>2. IsPrefix(log, first)'
    BY <1>1, <1>2, <1>5
  <2> QED BY <1>1, <1>2, <2>1, <2>2 DEF SecondRunInv
<1> QED BY <1>4, <1>6, <1>7, <1>8, <1>9 DEF PolicyInv

\* The second run ends where the first did: there is no queue beyond, and the
\* first met a queue with entries at every step before.
LEMMA OverKeeps ==
    ASSUME PolicyInv, Over
    PROVE  PolicyInv'
<1>1. /\ pc = "second" /\ pc' = "done" /\ log \in DOMAIN queues /\ queues[log] = <<>>
      /\ UNCHANGED <<queues, policy, script, log, divergedAt, rerun, first>>
  BY DEF Over, Met, Queue, given
<1>2. /\ log \in Seq(Nat) /\ first \in Seq(Nat) /\ Walked(first) /\ IsPrefix(log, first)
  BY <1>1 DEF PolicyInv, PolicyTypes, SecondRunInv
<1>3. Len(log) <= Len(first) /\ \A i \in 1 .. Len(log) : log[i] = first[i]
  BY <1>2, PrefixByEntry
<1>4. Len(log) \in Nat /\ Len(first) \in Nat /\ Len(log) <= Len(log)
  BY <1>2, LenProperties
<1>5. Before(first, Len(log)) = log
  <2>1. Before(log, Len(log)) = Before(first, Len(log))
    BY <1>2, <1>3, <1>4, BeforeAlike
  <2> QED BY <2>1, <1>2, BeforeWhole
<1>6. Len(log) = Len(first)
  <2>1. SUFFICES ASSUME Len(log) # Len(first) PROVE FALSE
    OBVIOUS
  <2>2. Len(log) \in 0 .. Len(first) - 1
    BY <2>1, <1>3, <1>4
  <2> QED BY <2>2, <1>1, <1>2, <1>5 DEF Walked
<1>7. log = first
  BY <1>2, <1>3, <1>6, SeqEqual
<1>8. SecondRunInv'
  BY <1>1, <1>7 DEF PolicyInv, SecondRunInv, Walked, Follows
<1> QED BY <1>1, <1>8
     DEF PolicyInv, PolicyTypes, DivergenceIsTold, FirstRunInv, WalkInv, Walked, Follows

LEMMA StutterKeeps ==
    ASSUME PolicyInv, UNCHANGED vars
    PROVE  PolicyInv'
BY DEF vars, given, PolicyInv, PolicyTypes, DivergenceIsTold, FirstRunInv, WalkInv,
       SecondRunInv, Walked, Follows

-----------------------------------------------------------------------------
LEMMA InitInv ==
    ASSUME PolicyAssumption, Init
    PROVE  PolicyInv
<1>1. /\ queues = << >> /\ log = <<>> /\ divergedAt = Never /\ pc = "first"
      /\ policy \in {"seeded", "pct", "script"}
      /\ policy = "script" => script \in Scripts
      /\ rerun \in IF policy = "script" THEN {"recording", "trimmed"} ELSE {"recording"}
  BY DEF Init
<1>2. <<>> \in Seq(Nat) /\ Len(<<>>) = 0 /\ DOMAIN queues = {}
  <2>1. <<>> \in Seq(Nat) /\ Len(<<>>) = 0
    BY EmptySeq
  <2>2. DOMAIN queues = 1 .. 0
    BY <1>1, <2>1, LenProperties
  <2> QED BY <2>1, <2>2
<1>3. policy = "script" => script \in Seq(Nat)
  <2>1. SUFFICES ASSUME policy = "script" PROVE script \in Seq(Nat)
    OBVIOUS
  <2>2. PICK m \in 0 .. MaxSteps : script \in [1 .. m -> 0 .. MaxChoice]
    BY <1>1, <2>1 DEF Scripts, SeqOf
  <2>3. m \in Nat /\ 0 .. MaxChoice \subseteq Nat
    BY <2>2 DEF PolicyAssumption
  <2>4. script \in [1 .. m -> Nat]
    BY <2>2, <2>3
  <2> QED BY <2>3, <2>4, SeqDef
<1>4. PolicyTypes
  BY <1>1, <1>2, <1>3 DEF PolicyTypes
<1>5. policy = "script" => IsPrefix(log, script)
  <2>1. SUFFICES ASSUME policy = "script" PROVE IsPrefix(log, script)
    OBVIOUS
  <2>2. Len(log) <= Len(script) /\ \A i \in 1 .. Len(log) : log[i] = script[i]
    BY <1>1, <1>2, <1>3, <2>1, LenProperties
  <2> QED BY <1>1, <1>2, <1>3, <2>1, <2>2, PrefixByEntry
<1>6. DivergenceIsTold /\ FirstRunInv /\ WalkInv /\ SecondRunInv
  BY <1>1, <1>2, <1>5
     DEF DivergenceIsTold, FirstRunInv, WalkInv, Walked, Follows, SecondRunInv
<1> QED BY <1>4, <1>6 DEF PolicyInv

LEMMA NextInv ==
    ASSUME PolicyAssumption, PolicyInv, [Next]_vars
    PROVE  PolicyInv'
<1>1. CASE Meet
  BY <1>1, MeetingKeeps
<1>2. CASE SeededChoose \/ PCTChoose \/ ScriptedChoose
  <2>1. PICK x \in Nat : Picks(x)
    BY <1>2, SeededPicks, PCTPicks, ScriptedPicks DEF PolicyInv
  <2> QED BY <2>1, PickingKeeps
<1>3. CASE Again
  BY <1>3, AgainKeeps
<1>4. CASE Over
  BY <1>4, OverKeeps
<1>5. CASE UNCHANGED vars
  BY <1>5, StutterKeeps
<1> QED BY <1>1, <1>2, <1>3, <1>4, <1>5 DEF Next

\* The inductive invariant: two runs are two walks through the same queues, and
\* the second's script chooses what the first chose (run_until_complete's choice
\* log, _from_choices).
THEOREM PolicyInvariant == Spec => []PolicyInv
<1>1. Init => PolicyInv
  BY PolicyAssumption, InitInv
<1>2. PolicyInv /\ [Next]_vars => PolicyInv'
  BY PolicyAssumption, NextInv
<1> QED BY <1>1, <1>2, PTL DEF Spec

\* A replay keeps to its script up to the step it reports and leaves it there,
\* whatever the queues it meets (ScriptedPolicy.choose, _diverge).
THEOREM DivergenceTold == Spec => []DivergenceIsTold
<1>1. PolicyInv => DivergenceIsTold
  BY DEF PolicyInv
<1> QED BY <1>1, PolicyInvariant, PTL

\* The recording of any run, under any policy, reruns that run, and a script the
\* same without its trailing zeros (_from_choices, shrink_schedule's trimming).
THEOREM ReplayReruns == Spec => []RerunsAlike
<1>1. PolicyInv => RerunsAlike
  BY DEF PolicyInv, SecondRunInv, RerunsAlike
<1> QED BY <1>1, PolicyInvariant, PTL

-----------------------------------------------------------------------------
(***************************************************************************)
(* Shrinking a recording, for any length, any budget and any oracle.       *)
(*                                                                         *)
(* A pass asks only for steps of the best schedule, so a candidate that    *)
(* fails is no larger and becomes the best one (Asked).  Hence the best    *)
(* schedule always makes the choices the pass has not given up             *)
(* (BestIsCurrent).  In _ddmin a round remembers what it has tried without *)
(* success (Tried), and a round over chunks of one step has tried every    *)
(* step when it ends (FinestRound).  That the chunks of _split are never   *)
(* empty, and that a chunk and what is left without it share no step, is   *)
(* whole division (Cuts) and that kept has no step twice (RoundCuts).      *)
(***************************************************************************)
Distinct(s) == \A i, j \in 1 .. Len(s) : s[i] = s[j] => i = j

Searching == pass \in {"prefix", "fifo", "chunks", "rest"}

\* The binary searches stay between their bounds.
BoundsFit ==
    /\ pass = "record" => runs = 0 /\ best = NoBest /\ lo = 0 /\ hi = Length
    /\ pass \in {"record", "prefix", "fifo"} => lo <= hi
    /\ pass = "fifo" => hi <= length

\* ddmin's steps are all different, and it goes on only while there are two.
RoundsFit ==
    /\ Distinct(kept) /\ granularity \in Nat \ {0}
    /\ pass = "rest" => Len(kept) > 1 /\ granularity > 2

\* The best schedule makes the choices the current pass has not given up.
BestIsCurrent ==
    /\ Searching => best # NoBest /\ best.steps \in fails /\ chosen \in fails
    /\ pass = "prefix" => best.steps = Candidate(0 .. hi - 1)
    /\ pass = "fifo" => best.steps = Candidate(lo .. length - 1)
    /\ pass \in {"chunks", "rest"} => best.steps = Candidate(ToSet(kept))

\* What this round has tried does not fail.
Tried ==
    /\ pass = "chunks" /\ Len(kept) > 1 =>
          \A i \in 0 .. turn - 1 : Candidate(ToSet(Chunk(i))) \notin fails
    /\ pass = "rest" =>
          \A i \in 0 .. turn - 1 : Candidate(ToSet(Rest(i))) \notin fails

ShrinkInv ==
    /\ TypeOK /\ BoundsFit /\ RoundsFit /\ BestIsCurrent /\ Tried
    /\ AnswerReproduces /\ OneMinimalIfFifoPasses

\* What a pass asks of the oracle: steps of the best schedule.
Asks(steps, n) == Searching /\ steps \subseteq best.steps /\ n \in 0 .. Length /\ Probe(steps, n)

-----------------------------------------------------------------------------
\* t holds what s does in those places.
Gathers(t, s, places) == \A x : x \in ToSet(t) <=> \E k \in places : x = s[k]

\* Membership, by position.
LEMMA ToSetIs ==
    ASSUME NEW T, NEW s \in Seq(T)
    PROVE  /\ Len(s) \in Nat
           /\ \A x : x \in ToSet(s) <=> \E i \in 1 .. Len(s) : x = s[i]
           /\ \A i \in 1 .. Len(s) : s[i] \in T
<1>1. Len(s) \in Nat /\ DOMAIN s = 1 .. Len(s) /\ s \in [1 .. Len(s) -> T]
  BY LenProperties
<1>2. \A x : x \in ToSet(s) <=> \E i \in 1 .. Len(s) : x = s[i]
  BY <1>1, Zenon DEF ToSet
<1>3. \A i \in 1 .. Len(s) : s[i] \in T
  BY <1>1
<1> QED BY <1>1, <1>2, <1>3

\* A piece of a sequence without repetitions.
LEMMA PieceOf ==
    ASSUME NEW T, NEW s \in Seq(T), Distinct(s), NEW a \in 0 .. Len(s), NEW b \in a .. Len(s),
           NEW c, c = SubSeq(s, a + 1, b)
    PROVE  /\ c \in Seq(T) /\ Len(c) = b - a /\ Distinct(c)
           /\ \A i \in 1 .. b - a : c[i] = s[a + i]
           /\ Gathers(c, s, a + 1 .. b)
<1>1. Len(s) \in Nat /\ a \in Nat /\ b \in Nat /\ a <= b /\ b <= Len(s)
  BY ToSetIs
<1>2. \A i \in a + 1 .. b : s[i] \in T
  BY <1>1, ElementOfSeq
<1>3. /\ c \in Seq(T) /\ Len(c) = IF a + 1 <= b THEN b - (a + 1) + 1 ELSE 0
      /\ \A i \in 1 .. b - (a + 1) + 1 : c[i] = s[(a + 1) + i - 1]
  <2>1. a + 1 \in Int /\ b \in Int
    BY <1>1
  <2> QED BY <1>2, <2>1, SubSeqProperties
<1>4. Len(c) = b - a /\ \A i \in 1 .. b - a : c[i] = s[a + i]
  <2>1. ASSUME NEW i \in 1 .. b - a PROVE c[i] = s[a + i]
    <3>1. i \in 1 .. b - (a + 1) + 1 /\ (a + 1) + i - 1 = a + i
      BY <1>1
    <3> QED BY <1>3, <3>1
  <2>2. Len(c) = b - a
    BY <1>1, <1>3
  <2> QED BY <2>1, <2>2
<1>5. Distinct(c)
  <2>1. SUFFICES ASSUME NEW i \in 1 .. b - a, NEW j \in 1 .. b - a, c[i] = c[j] PROVE i = j
    BY <1>4 DEF Distinct
  <2>2. a + i \in 1 .. Len(s) /\ a + j \in 1 .. Len(s)
    BY <1>1
  <2>3. s[a + i] = s[a + j]
    BY <1>4, <2>1
  <2>4. a + i = a + j
    BY <2>2, <2>3 DEF Distinct
  <2> QED BY <1>1, <2>4
<1>6. ASSUME NEW x PROVE x \in ToSet(c) <=> \E k \in a + 1 .. b : x = s[k]
  <2>1. x \in ToSet(c) <=> \E i \in 1 .. b - a : x = c[i]
    <3>1. x \in ToSet(c) <=> \E i \in 1 .. Len(c) : x = c[i]
      BY <1>3, ToSetIs
    <3> QED BY <1>4, <3>1
  <2>2. ASSUME NEW i \in 1 .. b - a, x = c[i] PROVE \E k \in a + 1 .. b : x = s[k]
    <3>1. a + i \in a + 1 .. b /\ x = s[a + i]
      BY <1>1, <1>4, <2>2
    <3> QED BY <3>1
  <2>3. ASSUME NEW k \in a + 1 .. b, x = s[k] PROVE \E i \in 1 .. b - a : x = c[i]
    <3>1. k - a \in 1 .. b - a /\ a + (k - a) = k
      BY <1>1
    <3>2. c[k - a] = s[k]
      BY <1>4, <3>1
    <3> QED BY <2>3, <3>1, <3>2
  <2> QED BY <2>1, <2>2, <2>3
<1> QED BY <1>3, <1>4, <1>5, <1>6 DEF Gathers

\* r is s without its positions a + 1 .. b.
Remains(r, s, a, b, T) ==
    /\ r \in Seq(T) /\ Len(r) = a + (Len(s) - b) /\ Distinct(r)
    /\ Gathers(r, s, (1 .. Len(s)) \ (a + 1 .. b))

\* What comes before a piece, followed by what comes after.
LEMMA WithoutPiece ==
    ASSUME NEW T, NEW s \in Seq(T), Distinct(s), NEW a \in 0 .. Len(s), NEW b \in a .. Len(s),
           NEW r, r = SubSeq(s, 1, a) \o SubSeq(s, b + 1, Len(s))
    PROVE  Remains(r, s, a, b, T)
<1>1. Len(s) \in Nat /\ a \in Nat /\ b \in Nat /\ a <= b /\ b <= Len(s)
  BY ToSetIs
<1>2. PICK f : f = SubSeq(s, 0 + 1, a)
  OBVIOUS
<1>3. PICK g : g = SubSeq(s, b + 1, Len(s))
  OBVIOUS
<1>4. f \in Seq(T) /\ Len(f) = a /\ \A i \in 1 .. a : f[i] = s[i]
  <2>1. 0 \in 0 .. Len(s) /\ a \in 0 .. Len(s)
    BY <1>1
  <2>2. f \in Seq(T) /\ Len(f) = a - 0 /\ \A i \in 1 .. a - 0 : f[i] = s[0 + i]
    BY <1>2, <2>1, PieceOf
  <2> QED BY <1>1, <2>2
<1>5. g \in Seq(T) /\ Len(g) = Len(s) - b /\ \A i \in 1 .. Len(s) - b : g[i] = s[b + i]
  <2>1. b \in 0 .. Len(s) /\ Len(s) \in b .. Len(s)
    BY <1>1
  <2> QED BY <1>3, <2>1, PieceOf
<1> DEFINE m == a + (Len(s) - b)
<1>6. r \in Seq(T) /\ Len(r) = m
  <2>1. 0 + 1 = 1
    OBVIOUS
  <2>2. r = f \o g
    BY <1>2, <1>3, <2>1
  <2>3. r \in Seq(T) /\ Len(r) = Len(f) + Len(g)
    BY <1>4, <1>5, <2>2, ConcatProperties
  <2> QED BY <1>4, <1>5, <2>3
<1>7. \A i \in 1 .. m : r[i] = IF i <= a THEN f[i] ELSE g[i - a]
  <2>1. 0 + 1 = 1
    OBVIOUS
  <2>2. r = f \o g
    BY <1>2, <1>3, <2>1
  <2>3. \A i \in 1 .. Len(f) + Len(g) : (f \o g)[i] = IF i <= Len(f) THEN f[i] ELSE g[i - Len(f)]
    BY <1>4, <1>5, ConcatProperties
  <2>4. Len(f) = a /\ Len(g) = Len(s) - b
    BY <1>4, <1>5
  <2> QED BY <2>2, <2>3, <2>4
<1>8. m \in Nat /\ m >= a
  BY <1>1
<1> HIDE DEF m
<1>9. PICK at : at = [i \in 1 .. m |-> IF i <= a THEN i ELSE b + (i - a)]
  OBVIOUS
<1>10. \A i \in 1 .. m : at[i] = IF i <= a THEN i ELSE b + (i - a)
  BY <1>9
<1>11. ASSUME NEW i \in 1 .. m
       PROVE  at[i] \in 1 .. Len(s) /\ (at[i] <= a \/ at[i] > b) /\ r[i] = s[at[i]]
  <2>1. CASE i <= a
    <3>1. at[i] = i
      BY <1>10, <2>1
    <3>2. i \in 1 .. a /\ i \in 1 .. Len(s)
      BY <1>1, <1>8, <2>1
    <3>3. r[i] = f[i]
      BY <1>7, <2>1
    <3>4. f[i] = s[i]
      BY <1>4, <3>2
    <3> QED BY <2>1, <3>1, <3>2, <3>3, <3>4
  <2>2. CASE ~(i <= a)
    <3>1. at[i] = b + (i - a)
      BY <1>10, <2>2
    <3>2. i - a \in 1 .. Len(s) - b /\ b + (i - a) \in 1 .. Len(s) /\ b + (i - a) > b
      BY <1>1, <1>8, <2>2 DEF m
    <3>3. r[i] = g[i - a]
      BY <1>7, <2>2
    <3>4. g[i - a] = s[b + (i - a)]
      BY <1>5, <3>2
    <3> QED BY <3>1, <3>2, <3>3, <3>4
  <2> QED BY <2>1, <2>2
<1>12. Distinct(r)
  <2>1. SUFFICES ASSUME NEW i \in 1 .. m, NEW j \in 1 .. m, r[i] = r[j] PROVE i = j
    BY <1>6 DEF Distinct
  <2>2. at[i] \in 1 .. Len(s) /\ r[i] = s[at[i]] /\ at[j] \in 1 .. Len(s) /\ r[j] = s[at[j]]
    BY <1>11
  <2>3. at[i] = at[j]
    BY <2>1, <2>2 DEF Distinct
  <2>4. /\ at[i] = IF i <= a THEN i ELSE b + (i - a)
        /\ at[j] = IF j <= a THEN j ELSE b + (j - a)
    BY <1>10
  <2>5. i \in Nat /\ j \in Nat
    BY <1>8
  <2>6. CASE i <= a /\ j <= a
    BY <2>3, <2>4, <2>6
  <2>7. CASE i <= a /\ ~(j <= a)
    <3>1. i = b + (j - a)
      BY <2>3, <2>4, <2>7
    <3>2. a \in Int /\ b \in Int /\ a <= b
      BY <1>1
    <3> QED BY <2>5, <2>7, <3>1, <3>2
  <2>8. CASE ~(i <= a) /\ j <= a
    <3>1. j = b + (i - a)
      BY <2>3, <2>4, <2>8
    <3>2. a \in Int /\ b \in Int /\ a <= b
      BY <1>1
    <3> QED BY <2>5, <2>8, <3>1, <3>2
  <2>9. CASE ~(i <= a) /\ ~(j <= a)
    <3>1. b + (i - a) = b + (j - a)
      BY <2>3, <2>4, <2>9
    <3>2. a \in Int /\ b \in Int /\ a <= b
      BY <1>1
    <3> QED BY <2>5, <2>9, <3>1, <3>2
  <2> QED BY <2>6, <2>7, <2>8, <2>9
<1>13. ASSUME NEW x
       PROVE  x \in ToSet(r) <=> \E k \in (1 .. Len(s)) \ (a + 1 .. b) : x = s[k]
  <2>1. x \in ToSet(r) <=> \E i \in 1 .. m : x = r[i]
    <3>1. x \in ToSet(r) <=> \E i \in 1 .. Len(r) : x = r[i]
      BY <1>6, ToSetIs
    <3> QED BY <1>6, <3>1
  <2>2. ASSUME NEW i \in 1 .. m, x = r[i]
        PROVE  \E k \in (1 .. Len(s)) \ (a + 1 .. b) : x = s[k]
    <3>1. at[i] \in 1 .. Len(s) /\ (at[i] <= a \/ at[i] > b) /\ x = s[at[i]]
      BY <1>11, <2>2
    <3>2. at[i] \in (1 .. Len(s)) \ (a + 1 .. b)
      BY <1>1, <3>1
    <3> QED BY <3>1, <3>2
  <2>3. ASSUME NEW k \in (1 .. Len(s)) \ (a + 1 .. b), x = s[k]
        PROVE  \E i \in 1 .. m : x = r[i]
    <3> k \in 1 .. Len(s) /\ (k <= a \/ k > b)
      BY <1>1
    <3>1. CASE k <= a
      <4>1. k \in 1 .. m
        BY <1>1, <1>8, <3>1
      <4>2. at[k] = k
        BY <1>10, <3>1, <4>1
      <4> QED BY <1>11, <2>3, <4>1, <4>2
    <3>2. CASE k > b
      <4>1. a + (k - b) \in 1 .. m /\ ~(a + (k - b) <= a) /\ b + ((a + (k - b)) - a) = k
        BY <1>1, <1>8, <3>2 DEF m
      <4>2. at[a + (k - b)] = k
        BY <1>10, <4>1
      <4> QED BY <1>11, <2>3, <4>1, <4>2
    <3> QED BY <2>3, <3>1, <3>2
  <2> QED BY <2>1, <2>2, <2>3
<1>14. Len(r) = a + (Len(s) - b)
  BY <1>6 DEF m
<1> QED BY <1>6, <1>12, <1>13, <1>14 DEF Gathers, Remains

\* Whole division.
LEMMA Quotient ==
    ASSUME NEW x \in Nat, NEW g \in Nat \ {0}
    PROVE  x \div g \in Nat /\ g * (x \div g) <= x /\ x < g * (x \div g) + g
  OBVIOUS

\* What a product bounds, its factor does.
LEMMA Products ==
    ASSUME NEW g \in Nat \ {0}, NEW p \in Int, NEW q \in Int, g * p < g * q + g
    PROVE  p <= q
<1>1. SUFFICES ASSUME p >= q + 1 PROVE FALSE
  OBVIOUS
<1>2. g * p >= g * (q + 1)
  BY <1>1
<1>3. g * (q + 1) = g * q + g
  OBVIOUS
<1> QED BY <1>2, <1>3

\* Where a sequence of n is cut in g: in order, with no piece empty if g <= n.
LEMMA Cuts ==
    ASSUME NEW n \in Nat, NEW g \in Nat \ {0}, NEW i \in 0 .. g - 1
    PROVE  /\ (i * n) \div g \in 0 .. n /\ ((i + 1) * n) \div g \in (i * n) \div g .. n
           /\ g <= n => (i * n) \div g >= i /\ n - ((i + 1) * n) \div g >= (g - i) - 1
           /\ g <= n => (i * n) \div g < ((i + 1) * n) \div g
<1>1. i \in Nat /\ i * n \in Nat /\ (i + 1) * n \in Nat /\ g \in Nat /\ n \in Nat /\ n * g = g * n
  OBVIOUS
<1>2. PICK a : a = (i * n) \div g
  OBVIOUS
<1>3. PICK b : b = ((i + 1) * n) \div g
  OBVIOUS
<1>4. a \in Nat /\ g * a <= i * n /\ i * n < g * a + g
  BY <1>1, <1>2, Quotient
<1>5. b \in Nat /\ g * b <= (i + 1) * n /\ (i + 1) * n < g * b + g
  BY <1>1, <1>3, Quotient
<1>6. (i + 1) * n = i * n + n
  BY <1>1
<1>7. a <= b
  <2>1. g * a < g * b + g
    BY <1>1, <1>4, <1>5, <1>6
  <2> QED BY <1>4, <1>5, <2>1, Products
<1>8. b <= n
  <2>1. (i + 1) * n <= g * n
    <3>1. \E d \in Nat : g = i + 1 + d
      <4>1. g - (i + 1) \in Nat /\ g = i + 1 + (g - (i + 1))
        BY <1>1
      <4> QED BY <4>1
    <3>2. PICK d \in Nat : g = (i + 1) + d
      BY <1>1, <3>1
    <3>3. g * n = (i + 1) * n + d * n /\ d * n \in Nat
      BY <1>1, <3>2
    <3> QED BY <1>1, <3>3
  <2>2. g * b < g * n + g
    BY <1>1, <1>5, <2>1
  <2> QED BY <1>5, <2>2, Products
<1>9. ASSUME g <= n PROVE a >= i /\ n - b >= (g - i) - 1 /\ a < b
  <2>1. PICK e \in Nat : n = g + e
    <3>1. n - g \in Nat /\ n = g + (n - g)
      BY <1>1, <1>9
    <3> QED BY <3>1
  <2>2. i * n = i * g + i * e /\ i * e \in Nat /\ i * g = g * i
    BY <1>1, <2>1
  <2>3. g * i < g * a + g
    BY <1>1, <1>4, <2>2
  <2>4. i <= a
    BY <1>1, <1>4, <2>3, Products
  <2>5. a + 1 <= b
    <3>1. g * (a + 1) = g * a + g
      BY <1>1, <1>4
    <3>2. g * (a + 1) < g * b + g
      BY <1>1, <1>4, <1>5, <1>6, <1>9, <3>1
    <3> QED BY <1>4, <1>5, <3>2, Products
  <2>6. b + ((g - i) - 1) <= n
    <3>1. PICK d \in Nat : d = g - (i + 1)
      BY <1>1
    <3>2. g * (b + d) = g * b + g * d /\ g * d \in Nat /\ g * d = d * g
      BY <1>1, <1>5, <3>1
    <3>3. d * n = d * g + d * e /\ d * e \in Nat
      BY <1>1, <2>1, <3>1
    <3>4. g = (i + 1) + d
      BY <1>1, <3>1
    <3>5. g * n = (i + 1) * n + d * n
      BY <1>1, <3>4
    <3>6. g * (b + d) < g * n + g
      BY <1>1, <1>5, <3>2, <3>3, <3>5
    <3>7. b + d <= n
      BY <1>1, <1>5, <3>1, <3>6, Products
    <3> QED BY <1>1, <1>5, <3>1, <3>7
  <2> QED BY <1>1, <1>4, <1>5, <2>4, <2>5, <2>6
<1> QED BY <1>1, <1>2, <1>3, <1>4, <1>5, <1>7, <1>8, <1>9
\* A multiple divides evenly.
LEMMA QuotientIs ==
    ASSUME NEW g \in Nat \ {0}, NEW q \in Nat
    PROVE  (q * g) \div g = q
<1>1. g * q = q * g /\ q * g \in Nat
  OBVIOUS
<1>2. PICK p : p = (q * g) \div g
  OBVIOUS
<1>3. p \in Nat /\ g * p <= g * q /\ g * q < g * p + g
  BY <1>1, <1>2, Quotient
<1>4. p <= q
  <2>1. g * p < g * q + g
    BY <1>1, <1>3
  <2> QED BY <1>3, <2>1, Products
<1>5. q <= p
  BY <1>3, Products
<1> QED BY <1>2, <1>3, <1>4, <1>5

\* A chunk of a round that cuts its steps no finer than they can be cut, and
\* what is left without it.
ChunkFits(i) ==
    /\ Chunk(i) \in Seq(Steps) /\ Distinct(Chunk(i)) /\ Len(Chunk(i)) >= 1
    /\ ToSet(Chunk(i)) \subseteq ToSet(kept)
    /\ granularity = Len(kept) => \A x : x \in ToSet(Chunk(i)) <=> x = kept[i + 1]

RestFits(i) ==
    /\ Rest(i) \in Seq(Steps) /\ Distinct(Rest(i)) /\ Len(Rest(i)) >= granularity - 1
    /\ ToSet(Rest(i)) \subseteq ToSet(kept)
    /\ granularity = Len(kept) =>
          \A x : x \in ToSet(Rest(i)) <=> x \in ToSet(kept) /\ x # kept[i + 1]

LEMMA RoundCuts ==
    ASSUME kept \in Seq(Steps), Distinct(kept), granularity \in 1 .. Len(kept),
           NEW i \in 0 .. granularity - 1
    PROVE  ChunkFits(i) /\ RestFits(i)
<1>1. Len(kept) \in Nat /\ granularity \in Nat \ {0} /\ granularity <= Len(kept) /\ i \in Nat
  BY LenProperties
<1>2. PICK a, b : a = Cut(i) /\ b = Cut(i + 1)
  OBVIOUS
<1>3. /\ a \in 0 .. Len(kept) /\ b \in a .. Len(kept) /\ a < b
      /\ a >= i /\ Len(kept) - b >= (granularity - i) - 1
  BY <1>1, <1>2, Cuts DEF Cut
<1>4. granularity = Len(kept) => a = i /\ b = i + 1
  BY <1>1, <1>2, QuotientIs DEF Cut
<1>5. \A x : x \in ToSet(kept) <=> \E k \in 1 .. Len(kept) : x = kept[k]
  BY ToSetIs
<1>6. ChunkFits(i)
  <2>1. PICK c : c = SubSeq(kept, a + 1, b)
    OBVIOUS
  <2>2. Chunk(i) = c
    BY <1>2, <2>1 DEF Chunk
  <2>3. c \in Seq(Steps) /\ Len(c) = b - a /\ Distinct(c) /\ Gathers(c, kept, a + 1 .. b)
    <3>1. /\ kept \in Seq(Steps) /\ Distinct(kept)
          /\ a \in 0 .. Len(kept) /\ b \in a .. Len(kept)
          /\ c = SubSeq(kept, a + 1, b)
      BY <1>3, <2>1
    <3>2. c \in Seq(Steps) /\ Len(c) = b - a
      BY <3>1, PieceOf
    <3>3. Distinct(c)
      BY <3>1, PieceOf
    <3>4. Gathers(c, kept, a + 1 .. b)
      BY <3>1, PieceOf, Zenon
    <3> QED BY <3>2, <3>3, <3>4
  <2>4. \A k \in a + 1 .. b : k \in 1 .. Len(kept)
    BY <1>1, <1>3
  <2>5. ToSet(c) \subseteq ToSet(kept)
    BY <1>5, <2>3, <2>4 DEF Gathers
  <2>6. ASSUME granularity = Len(kept) PROVE \A x : x \in ToSet(c) <=> x = kept[i + 1]
    <3>1. a + 1 .. b = {i + 1}
      BY <1>1, <1>4, <2>6
    <3> QED BY <2>3, <3>1 DEF Gathers
  <2>7. Len(c) >= 1
    BY <1>1, <1>3, <2>3
  <2> QED BY <2>2, <2>3, <2>5, <2>6, <2>7 DEF ChunkFits
<1>7. RestFits(i)
  <2>1. PICK r : r = SubSeq(kept, 1, a) \o SubSeq(kept, b + 1, Len(kept))
    OBVIOUS
  <2>2. Rest(i) = r
    BY <1>2, <2>1 DEF Rest
  <2> DEFINE others == (1 .. Len(kept)) \ (a + 1 .. b)
  <2>3. r \in Seq(Steps) /\ Len(r) = a + (Len(kept) - b) /\ Distinct(r) /\ Gathers(r, kept, others)
    <3>1. /\ kept \in Seq(Steps) /\ Distinct(kept)
          /\ a \in 0 .. Len(kept) /\ b \in a .. Len(kept)
          /\ r = SubSeq(kept, 1, a) \o SubSeq(kept, b + 1, Len(kept))
      BY <1>3, <2>1
    <3>2. Remains(r, kept, a, b, Steps)
      BY <3>1, WithoutPiece, Zenon
    <3> QED BY <3>2 DEF Remains
  <2>4. ToSet(r) \subseteq ToSet(kept)
    BY <1>5, <2>3 DEF Gathers
  <2>5. ASSUME granularity = Len(kept), NEW x
        PROVE  x \in ToSet(r) <=> x \in ToSet(kept) /\ x # kept[i + 1]
    <3>1. a = i /\ b = i + 1
      BY <1>4, <2>5
    <3>2. \A k \in 1 .. Len(kept) : k \in others <=> k # i + 1
      BY <1>1, <3>1
    <3>3. i + 1 \in 1 .. Len(kept)
      BY <1>1, <1>3, <3>1
    <3>4. ASSUME x \in ToSet(r) PROVE x \in ToSet(kept) /\ x # kept[i + 1]
      <4>1. PICK k \in others : x = kept[k]
        BY <2>3, <3>4 DEF Gathers
      <4>2. k \in 1 .. Len(kept) /\ k # i + 1
        BY <3>2, <4>1
      <4> QED BY <1>5, <3>3, <4>1, <4>2 DEF Distinct
    <3>5. ASSUME x \in ToSet(kept), x # kept[i + 1] PROVE x \in ToSet(r)
      <4>1. PICK k \in 1 .. Len(kept) : x = kept[k]
        BY <1>5, <3>5
      <4>2. k \in others
        BY <3>2, <3>5, <4>1
      <4> QED BY <2>3, <4>1, <4>2 DEF Gathers
    <3> QED BY <3>4, <3>5
  <2>6. Len(r) >= granularity - 1
    <3>1. a \in Int /\ b \in Int /\ a >= i /\ Len(kept) - b >= (granularity - i) - 1
      BY <1>3
    <3> QED BY <1>1, <2>3, <3>1
  <2> QED BY <2>2, <2>3, <2>4, <2>5, <2>6 DEF RestFits
<1> QED BY <1>6, <1>7

-----------------------------------------------------------------------------
\* A probe for steps of the best schedule: a candidate that fails becomes it.
ProbeHolds(steps) ==
    /\ best' # NoBest /\ best'.steps \in fails
    /\ best'.steps \subseteq chosen /\ best'.len \in -1 .. Length
    /\ best'.steps = IF steps \in fails THEN steps ELSE best.steps
    /\ runs' \in 0 .. budget
    /\ UNCHANGED <<chosen, fails, budget, exhausted>>

LEMMA Asked ==
    ASSUME ShrinkInv, NEW steps, NEW n, Asks(steps, n)
    PROVE  ProbeHolds(steps)
<1>1. /\ best # NoBest /\ best.steps \in fails /\ steps \subseteq best.steps /\ n \in 0 .. Length
      /\ Probe(steps, n)
  BY DEF Asks, ShrinkInv, BestIsCurrent
<1>2. /\ chosen \subseteq Steps /\ runs \in 0 .. budget /\ budget \in Nat /\ Length \in Nat
      /\ best.steps \subseteq chosen /\ best.len \in -1 .. Length
  BY ShrinkAssumption DEF ShrinkInv, TypeOK
<1>3. /\ runs < budget /\ runs' = runs + 1 /\ UNCHANGED <<chosen, fails, budget, exhausted>>
      /\ best' = IF steps \in fails /\ (best = NoBest \/ Better(steps, n))
                 THEN [steps |-> steps, len |-> n] ELSE best
  BY <1>1 DEF Probe, scenario, SameFailure
<1>4. runs' \in 0 .. budget
  BY <1>2, <1>3
<1>5. CASE steps \in fails /\ Better(steps, n)
  <2>1. best' = [steps |-> steps, len |-> n]
    BY <1>3, <1>5
  <2>2. best'.steps = steps /\ best'.len = n
    BY <2>1
  <2>3. best' # NoBest
    <3>1. n # -1
      BY <1>1, <1>2
    <3> QED BY <2>2, <3>1 DEF NoBest
  <2>4. best'.len \in -1 .. Length
    BY <1>1, <1>2, <2>2
  <2> QED BY <1>1, <1>2, <1>3, <1>4, <1>5, <2>2, <2>3, <2>4 DEF ProbeHolds
<1>6. CASE ~(steps \in fails /\ Better(steps, n))
  <2>1. best' = best
    BY <1>1, <1>3, <1>6
  <2>2. ASSUME steps \in fails PROVE steps = best.steps
    <3>1. IsFiniteSet(Steps)
      BY <1>2, FS_Interval DEF Steps
    <3>2. IsFiniteSet(best.steps)
      BY <1>2, <3>1, FS_Subset
    <3>3. /\ IsFiniteSet(steps) /\ Cardinality(steps) \in Nat /\ Cardinality(best.steps) \in Nat
          /\ Cardinality(steps) <= Cardinality(best.steps)
          /\ Cardinality(steps) = Cardinality(best.steps) => steps = best.steps
      BY <1>1, <3>2, FS_Subset, FS_CardinalityType
    <3>4. ~(Cardinality(steps) < Cardinality(best.steps))
      <4>1. ~Better(steps, n)
        BY <1>6, <2>2
      <4> QED BY <4>1 DEF Better
    <3> QED BY <3>3, <3>4
  <2> QED BY <1>1, <1>2, <1>3, <1>4, <2>1, <2>2 DEF ProbeHolds
<1> QED BY <1>5, <1>6

\* The invariant, of a search that is not over.
LEMMA StillSearching ==
    ASSUME pass' # "done", TypeOK', BoundsFit', RoundsFit', BestIsCurrent', Tried'
    PROVE  ShrinkInv'
BY DEF ShrinkInv, AnswerReproduces, OneMinimalIfFifoPasses

\* The variables no probe and no pass puts outside its type.
OuterTypes ==
    /\ chosen \subseteq Steps /\ fails \subseteq SUBSET chosen /\ budget \in Budgets
    /\ runs \in 0 .. budget /\ exhausted \in BOOLEAN
    /\ best.steps \subseteq chosen /\ best.len \in -1 .. Length

LEMMA ProbeTypes ==
    ASSUME TypeOK, NEW steps, ProbeHolds(steps)
    PROVE  OuterTypes'
BY DEF TypeOK, ProbeHolds, OuterTypes, Steps

LEMMA FirstProbe ==
    ASSUME ShrinkInv, ProbeRecording
    PROVE  ShrinkInv'
<1>1. /\ pass = "record" /\ Probe(chosen, Length)
      /\ pass' = IF chosen \in fails THEN "prefix" ELSE "done"
      /\ UNCHANGED <<lo, hi, length, kept, granularity, turn>>
  BY DEF ProbeRecording, SameFailure
<1>2. /\ runs = 0 /\ best = NoBest /\ lo = 0 /\ hi = Length /\ Length \in Nat
      /\ budget \in Nat \ {0} /\ budget \in Budgets
  BY <1>1, ShrinkAssumption DEF ShrinkInv, BoundsFit, TypeOK
<1>3. /\ runs' = 1 /\ UNCHANGED <<chosen, fails, budget, exhausted>>
      /\ best' = IF chosen \in fails THEN [steps |-> chosen, len |-> Length] ELSE NoBest
  BY <1>1, <1>2 DEF Probe, scenario, SameFailure
<1>4. CASE chosen \in fails
  <2>1. best' = [steps |-> chosen, len |-> Length] /\ pass' = "prefix"
    BY <1>1, <1>3, <1>4
  <2>2. best'.steps = chosen /\ best'.len = Length
    BY <2>1
  <2>3. best' # NoBest
    <3>1. Length # -1
      BY <1>2
    <3> QED BY <2>2, <3>1 DEF NoBest
  <2>4. TypeOK'
    <3>1. runs' \in 0 .. budget' /\ best'.len \in -1 .. Length
      BY <1>2, <1>3, <2>2
    <3> QED BY <1>1, <1>2, <1>3, <2>1, <2>2, <3>1 DEF ShrinkInv, TypeOK, Steps
  <2>5. BoundsFit'
    BY <1>1, <1>2, <2>1 DEF BoundsFit
  <2>6. RoundsFit'
    BY <1>1, <2>1 DEF ShrinkInv, RoundsFit, Distinct
  <2>7. BestIsCurrent'
    <3>1. chosen = chosen \cap (0 .. hi - 1)
      BY <1>2 DEF ShrinkInv, TypeOK, Steps
    <3> QED BY <1>1, <1>3, <1>4, <2>1, <2>2, <2>3, <3>1 DEF BestIsCurrent, Searching, Candidate
  <2>8. Tried'
    BY <2>1 DEF Tried
  <2> QED BY <2>1, <2>4, <2>5, <2>6, <2>7, <2>8, StillSearching
<1>5. CASE chosen \notin fails
  <2>1. best' = NoBest /\ pass' = "done"
    BY <1>1, <1>3, <1>5
  <2>2. TypeOK'
    <3>1. runs' \in 0 .. budget' /\ NoBest.len \in -1 .. Length /\ NoBest.steps = {}
      BY <1>2, <1>3 DEF NoBest
    <3> QED BY <1>1, <1>2, <1>3, <2>1, <3>1 DEF ShrinkInv, TypeOK, Steps
  <2>3. BoundsFit'
    BY <2>1 DEF BoundsFit
  <2>4. RoundsFit'
    BY <1>1, <2>1 DEF ShrinkInv, RoundsFit, Distinct
  <2>5. BestIsCurrent' /\ Tried'
    BY <2>1 DEF BestIsCurrent, Searching, Tried
  <2>6. AnswerReproduces' /\ OneMinimalIfFifoPasses'
    BY <1>3, <1>5, <2>1 DEF AnswerReproduces, OneMinimalIfFifoPasses, NoBest
  <2> QED BY <2>2, <2>3, <2>4, <2>5, <2>6 DEF ShrinkInv
<1> QED BY <1>4, <1>5

LEMMA PrefixProbe ==
    ASSUME ShrinkInv, ProbePrefix
    PROVE  ShrinkInv'
<1>1. PICK mid : mid = (lo + hi) \div 2
  OBVIOUS
<1>2. PICK steps : steps = Candidate(0 .. mid - 1)
  OBVIOUS
<1>3. /\ pass = "prefix" /\ lo < hi /\ Probe(steps, mid)
      /\ IF steps \in fails THEN hi' = mid /\ lo' = lo ELSE lo' = mid + 1 /\ hi' = hi
      /\ UNCHANGED <<pass, length, kept, granularity, turn>>
  BY <1>1, <1>2 DEF ProbePrefix, SameFailure
<1>4. lo \in 0 .. Length /\ hi \in 0 .. Length /\ length \in 0 .. Length /\ Length \in Nat
  BY ShrinkAssumption DEF ShrinkInv, TypeOK
<1>5. mid \in lo .. hi - 1
  BY <1>1, <1>3, <1>4
<1>6. best.steps = Candidate(0 .. hi - 1)
  BY <1>3 DEF ShrinkInv, BestIsCurrent
<1>7. Asks(steps, mid)
  <2>1. steps \subseteq best.steps
    BY <1>2, <1>4, <1>5, <1>6 DEF Candidate
  <2>2. mid \in 0 .. Length
    BY <1>4, <1>5
  <2> QED BY <1>3, <2>1, <2>2 DEF Asks, Searching
<1>8. ProbeHolds(steps)
  BY <1>7, Asked
<1>9. OuterTypes'
  BY <1>8, ProbeTypes DEF ShrinkInv
<1>10. lo' \in 0 .. Length /\ hi' \in 0 .. Length /\ lo' <= hi'
  BY <1>3, <1>4, <1>5
<1>11. TypeOK'
  BY <1>3, <1>9, <1>10 DEF ShrinkInv, OuterTypes, TypeOK, Steps
<1>12. BoundsFit'
  BY <1>3, <1>10 DEF BoundsFit
<1>13. RoundsFit'
  BY <1>3 DEF ShrinkInv, RoundsFit, Distinct
<1>14. BestIsCurrent'
  <2>1. best'.steps = chosen \cap (0 .. hi' - 1)
    BY <1>2, <1>3, <1>6, <1>8 DEF ProbeHolds, Candidate
  <2> QED BY <1>3, <1>8, <2>1 DEF ShrinkInv, BestIsCurrent, Searching, ProbeHolds, Candidate
<1>15. Tried'
  BY <1>3 DEF Tried
<1> QED BY <1>3, <1>11, <1>12, <1>13, <1>14, <1>15, StillSearching

LEMMA PrefixDone ==
    ASSUME ShrinkInv, PrefixFound
    PROVE  ShrinkInv'
<1>1. /\ pass = "prefix" /\ lo >= hi /\ pass' = "fifo" /\ length' = hi /\ lo' = 0
      /\ UNCHANGED <<chosen, fails, budget, runs, best, hi, kept, granularity, turn, exhausted>>
  BY DEF PrefixFound, scenario
<1>2. lo \in 0 .. Length /\ hi \in 0 .. Length /\ Length \in Nat
  BY ShrinkAssumption DEF ShrinkInv, TypeOK
<1>3. TypeOK'
  <2>1. lo' \in 0 .. Length /\ length' \in 0 .. Length
    BY <1>1, <1>2
  <2> QED BY <1>1, <2>1 DEF ShrinkInv, TypeOK, Steps
<1>4. BoundsFit'
  BY <1>1, <1>2 DEF BoundsFit
<1>5. RoundsFit'
  BY <1>1 DEF ShrinkInv, RoundsFit, Distinct
<1>6. BestIsCurrent'
  BY <1>1 DEF ShrinkInv, BestIsCurrent, Searching, Candidate
<1>7. Tried'
  BY <1>1 DEF Tried
<1> QED BY <1>1, <1>3, <1>4, <1>5, <1>6, <1>7, StillSearching

LEMMA FifoProbe ==
    ASSUME ShrinkInv, ProbeFifo
    PROVE  ShrinkInv'
<1>1. PICK mid : mid = (lo + hi + 1) \div 2
  OBVIOUS
<1>2. PICK steps : steps = Candidate(mid .. length - 1)
  OBVIOUS
<1>3. /\ pass = "fifo" /\ lo < hi /\ Probe(steps, length)
      /\ IF steps \in fails THEN lo' = mid /\ hi' = hi ELSE hi' = mid - 1 /\ lo' = lo
      /\ UNCHANGED <<pass, length, kept, granularity, turn>>
  BY <1>1, <1>2 DEF ProbeFifo, SameFailure
<1>4. /\ lo \in 0 .. Length /\ hi \in 0 .. Length /\ length \in 0 .. Length /\ Length \in Nat
      /\ hi <= length
  BY <1>3, ShrinkAssumption DEF ShrinkInv, TypeOK, BoundsFit
<1>5. mid \in lo + 1 .. hi
  BY <1>1, <1>3, <1>4
<1>6. best.steps = Candidate(lo .. length - 1)
  BY <1>3 DEF ShrinkInv, BestIsCurrent
<1>7. Asks(steps, length)
  <2>1. steps \subseteq best.steps
    BY <1>2, <1>4, <1>5, <1>6 DEF Candidate
  <2> QED BY <1>3, <1>4, <2>1 DEF Asks, Searching
<1>8. ProbeHolds(steps)
  BY <1>7, Asked
<1>9. OuterTypes'
  BY <1>8, ProbeTypes DEF ShrinkInv
<1>10. lo' \in 0 .. Length /\ hi' \in 0 .. Length /\ lo' <= hi' /\ hi' <= length
  BY <1>3, <1>4, <1>5
<1>11. TypeOK'
  BY <1>3, <1>9, <1>10 DEF ShrinkInv, OuterTypes, TypeOK, Steps
<1>12. BoundsFit'
  BY <1>3, <1>10 DEF BoundsFit
<1>13. RoundsFit'
  BY <1>3 DEF ShrinkInv, RoundsFit, Distinct
<1>14. BestIsCurrent'
  <2>1. best'.steps = chosen \cap (lo' .. length - 1)
    BY <1>2, <1>3, <1>6, <1>8 DEF ProbeHolds, Candidate
  <2> QED BY <1>3, <1>8, <2>1 DEF ShrinkInv, BestIsCurrent, Searching, ProbeHolds, Candidate
<1>15. Tried'
  BY <1>3 DEF Tried
<1> QED BY <1>3, <1>11, <1>12, <1>13, <1>14, <1>15, StillSearching

LEMMA FifoDone ==
    ASSUME ShrinkInv, FifoFound
    PROVE  ShrinkInv'
<1>1. PICK s : s = [i \in 1 .. length - lo |-> lo + i - 1]
  OBVIOUS
<1>2. /\ pass = "fifo" /\ lo >= hi /\ pass' = "chunks" /\ granularity' = 2 /\ turn' = 0 /\ kept' = s
      /\ UNCHANGED <<chosen, fails, budget, runs, best, lo, hi, length, exhausted>>
  BY <1>1 DEF FifoFound, scenario
<1>3. /\ lo \in 0 .. Length /\ hi \in 0 .. Length /\ length \in 0 .. Length /\ Length \in Nat
      /\ lo <= length
  BY <1>2, ShrinkAssumption DEF ShrinkInv, TypeOK, BoundsFit
<1>4. s \in Seq(Steps) /\ Len(s) = length - lo
  <2>1. \A i \in 1 .. length - lo : lo + i - 1 \in Steps
    BY <1>3 DEF Steps
  <2>2. length - lo \in Nat
    BY <1>3
  <2> QED BY <1>1, <2>1, <2>2
<1>5. \A i \in 1 .. length - lo : s[i] = lo + i - 1
  BY <1>1
<1>6. Distinct(s)
  BY <1>3, <1>4, <1>5 DEF Distinct
<1>7. ToSet(s) = lo .. length - 1
  <2>1. ASSUME NEW x PROVE x \in ToSet(s) <=> x \in lo .. length - 1
    <3>1. x \in ToSet(s) <=> \E i \in 1 .. Len(s) : x = s[i]
      BY <1>4, ToSetIs
    <3>2. ASSUME NEW i \in 1 .. length - lo, x = s[i] PROVE x \in lo .. length - 1
      BY <1>3, <1>5, <3>2
    <3>3. ASSUME x \in lo .. length - 1 PROVE \E i \in 1 .. length - lo : x = s[i]
      <4>1. x - lo + 1 \in 1 .. length - lo /\ lo + (x - lo + 1) - 1 = x
        BY <1>3, <3>3
      <4> QED BY <1>5, <4>1
    <3> QED BY <1>4, <3>1, <3>2, <3>3
  <2> QED BY <2>1
<1>8. TypeOK'
  <2>1. Len(s) > 1 => 2 \in 2 .. Len(s)
    BY <1>3, <1>4
  <2>2. 0 \in 0 .. 2
    OBVIOUS
  <2> QED BY <1>2, <1>4, <2>1, <2>2 DEF ShrinkInv, TypeOK, Steps
<1>9. BoundsFit'
  BY <1>2 DEF BoundsFit
<1>10. RoundsFit'
  BY <1>2, <1>6 DEF RoundsFit, Distinct
<1>11. BestIsCurrent'
  <2>1. best.steps = chosen \cap ToSet(s)
    BY <1>2, <1>7 DEF ShrinkInv, BestIsCurrent, Candidate
  <2>2. ToSet(kept)' = ToSet(s)
    BY <1>2 DEF ToSet
  <2> QED BY <1>2, <2>1, <2>2 DEF ShrinkInv, BestIsCurrent, Searching, Candidate
<1>12. Tried'
  BY <1>2 DEF Tried
<1> QED BY <1>2, <1>8, <1>9, <1>10, <1>11, <1>12, StillSearching

-----------------------------------------------------------------------------
\* A round over fewer steps: kept is a part of what it was, and best its choices.
LEMMA NarrowedTo ==
    ASSUME ShrinkInv, pass \in {"chunks", "rest"}, NEW s \in Seq(Steps), Distinct(s),
           NEW g \in Nat, g >= 2, Len(s) > 1 => g <= Len(s),
           pass' = "chunks", kept' = s, granularity' = g, turn' = 0,
           OuterTypes', best' # NoBest, best'.steps \in fails,
           best'.steps = Candidate(ToSet(s)),
           UNCHANGED <<chosen, fails, lo, hi, length>>
    PROVE  ShrinkInv'
<1>1. TypeOK'
  <2>1. Len(s) \in Nat
    BY LenProperties
  <2>2. Len(s) > 1 => g \in 2 .. Len(s)
    BY <2>1
  <2>3. 0 \in 0 .. g
    OBVIOUS
  <2> QED BY <2>2, <2>3 DEF ShrinkInv, OuterTypes, TypeOK, Steps
<1>2. BoundsFit'
  BY DEF BoundsFit
<1>3. RoundsFit'
  BY DEF RoundsFit, Distinct
<1>4. BestIsCurrent'
  <2>1. ToSet(kept)' = ToSet(s)
    BY DEF ToSet
  <2> QED BY <2>1 DEF ShrinkInv, BestIsCurrent, Searching, Candidate
<1>5. Tried'
  BY DEF Tried
<1> QED BY <1>1, <1>2, <1>3, <1>4, <1>5, StillSearching

\* The next chunk, or the end of the round: this one was tried.
LEMMA TurnTaken ==
    ASSUME ShrinkInv, pass \in {"chunks", "rest"}, Len(kept) > 1, turn < granularity,
           pass = "chunks" => Candidate(ToSet(Chunk(turn))) \notin fails,
           pass = "rest" => Candidate(ToSet(Rest(turn))) \notin fails,
           turn' = turn + 1, OuterTypes', best' # NoBest, best'.steps = best.steps,
           UNCHANGED <<chosen, fails, lo, hi, length, pass, kept, granularity>>
    PROVE  ShrinkInv'
<1>1. turn \in 0 .. granularity /\ granularity \in Nat \ {0} /\ kept \in Seq(Steps)
  BY DEF ShrinkInv, RoundsFit, TypeOK
<1>2. turn + 1 \in 0 .. granularity /\ \A i \in 0 .. (turn + 1) - 1 : i \in 0 .. turn - 1 \/ i = turn
  BY <1>1
<1>3. TypeOK'
  BY <1>2 DEF ShrinkInv, OuterTypes, TypeOK, Steps
<1>4. BoundsFit'
  BY DEF BoundsFit
<1>5. RoundsFit'
  BY DEF ShrinkInv, RoundsFit, Distinct
<1>6. BestIsCurrent'
  BY DEF ShrinkInv, BestIsCurrent, Searching, Candidate, ToSet
<1>7. Tried'
  <2>1. ASSUME pass = "chunks", NEW i \in 0 .. (turn + 1) - 1
        PROVE  Candidate(ToSet(Chunk(i))) \notin fails
    BY <1>2, <2>1 DEF ShrinkInv, Tried
  <2>2. ASSUME pass = "rest", NEW i \in 0 .. (turn + 1) - 1
        PROVE  Candidate(ToSet(Rest(i))) \notin fails
    BY <1>2, <2>2 DEF ShrinkInv, Tried
  <2>3. ASSUME NEW i PROVE /\ Candidate(ToSet(Chunk(i)))' = Candidate(ToSet(Chunk(i)))
                           /\ Candidate(ToSet(Rest(i)))' = Candidate(ToSet(Rest(i)))
    BY DEF Candidate, Chunk, Rest, Cut, ToSet
  <2> QED BY <2>1, <2>2, <2>3 DEF Tried
<1> QED BY <1>3, <1>4, <1>5, <1>6, <1>7, StillSearching

LEMMA ChunkProbe ==
    ASSUME ShrinkInv, ProbeChunk
    PROVE  ShrinkInv'
<1>1. PICK s : s = Chunk(turn)
  OBVIOUS
<1>2. PICK steps : steps = Candidate(ToSet(s))
  OBVIOUS
<1>3. /\ pass = "chunks" /\ Len(kept) > 1 /\ turn < granularity /\ Probe(steps, length)
      /\ IF steps \in fails
         THEN pass' = "chunks" /\ kept' = s /\ granularity' = 2 /\ turn' = 0
         ELSE turn' = turn + 1 /\ UNCHANGED <<pass, kept, granularity>>
      /\ UNCHANGED <<lo, hi, length>>
  BY <1>1, <1>2 DEF ProbeChunk, SameFailure, Narrow, NextTurn
<1>4. /\ kept \in Seq(Steps) /\ Distinct(kept) /\ granularity \in 2 .. Len(kept)
      /\ turn \in 0 .. granularity /\ length \in 0 .. Length
      /\ best.steps = Candidate(ToSet(kept))
  BY <1>3 DEF ShrinkInv, TypeOK, RoundsFit, BestIsCurrent
<1>5. granularity \in 1 .. Len(kept) /\ turn \in 0 .. granularity - 1
  BY <1>3, <1>4, LenProperties
<1>6. s \in Seq(Steps) /\ Distinct(s) /\ ToSet(s) \subseteq ToSet(kept)
  BY <1>1, <1>4, <1>5, RoundCuts DEF ChunkFits
<1>7. Asks(steps, length)
  BY <1>2, <1>3, <1>4, <1>6 DEF Asks, Searching, Candidate
<1>8. ProbeHolds(steps)
  BY <1>7, Asked
<1>9. OuterTypes'
  BY <1>8, ProbeTypes DEF ShrinkInv
<1>10. CASE steps \in fails
  <2>1. Len(s) \in Nat /\ (Len(s) > 1 => 2 <= Len(s))
    BY <1>6, LenProperties
  <2>2. /\ best' # NoBest /\ best'.steps \in fails /\ best'.steps = Candidate(ToSet(s))
        /\ UNCHANGED <<chosen, fails>>
    BY <1>2, <1>8, <1>10 DEF ProbeHolds
  <2> QED BY <1>3, <1>6, <1>9, <1>10, <2>1, <2>2, NarrowedTo
<1>11. CASE steps \notin fails
  <2>1. best' # NoBest /\ best'.steps = best.steps /\ UNCHANGED <<chosen, fails>>
    BY <1>8, <1>11 DEF ProbeHolds
  <2> QED BY <1>1, <1>2, <1>3, <1>9, <1>11, <2>1, TurnTaken
<1> QED BY <1>10, <1>11

LEMMA RestProbe ==
    ASSUME ShrinkInv, ProbeRest
    PROVE  ShrinkInv'
<1>1. PICK s : s = Rest(turn)
  OBVIOUS
<1>2. PICK steps : steps = Candidate(ToSet(s))
  OBVIOUS
<1>3. PICK g : g = IF granularity - 1 > 2 THEN granularity - 1 ELSE 2
  OBVIOUS
<1>4. pass = "rest" /\ turn < granularity /\ UNCHANGED <<lo, hi, length>>
  BY DEF ProbeRest
<1>5. /\ kept \in Seq(Steps) /\ Distinct(kept) /\ Len(kept) > 1 /\ granularity > 2
      /\ granularity \in 2 .. Len(kept)
      /\ turn \in 0 .. granularity /\ length \in 0 .. Length
      /\ best.steps = Candidate(ToSet(kept))
  BY <1>4 DEF ShrinkInv, TypeOK, RoundsFit, BestIsCurrent
<1>6. Len(kept) \in Nat /\ granularity \in 1 .. Len(kept) /\ turn \in 0 .. granularity - 1
  <2>1. Len(kept) \in Nat
    BY <1>5, LenProperties
  <2> QED BY <1>4, <1>5, <2>1
<1>7. s \in Seq(Steps) /\ Distinct(s) /\ ToSet(s) \subseteq ToSet(kept) /\ Len(s) >= granularity - 1
  BY <1>1, <1>5, <1>6, RoundCuts DEF RestFits
<1>8. Len(s) \in Nat /\ g \in Nat /\ g >= 2 /\ g <= Len(s) /\ s # <<>>
  <2>1. Len(s) \in Nat
    BY <1>7, LenProperties
  <2>2. Len(s) >= 2
    BY <1>5, <1>6, <1>7, <2>1
  <2>3. s # <<>>
    BY <2>2
  <2> QED BY <1>3, <1>5, <1>6, <1>7, <2>1, <2>2, <2>3
<1>9. /\ Probe(steps, length)
      /\ IF steps \in fails
         THEN pass' = "chunks" /\ kept' = s /\ granularity' = g /\ turn' = 0
         ELSE turn' = turn + 1 /\ UNCHANGED <<pass, kept, granularity>>
  BY <1>1, <1>2, <1>3, <1>8 DEF ProbeRest, SameFailure, Narrow, NextTurn
<1>10. Asks(steps, length)
  BY <1>2, <1>4, <1>5, <1>7, <1>9 DEF Asks, Searching, Candidate
<1>11. ProbeHolds(steps)
  BY <1>10, Asked
<1>12. OuterTypes'
  BY <1>11, ProbeTypes DEF ShrinkInv
<1>13. CASE steps \in fails
  <2>1. /\ best' # NoBest /\ best'.steps \in fails /\ best'.steps = Candidate(ToSet(s))
        /\ UNCHANGED <<chosen, fails>>
    BY <1>2, <1>11, <1>13 DEF ProbeHolds
  <2> QED BY <1>4, <1>7, <1>8, <1>9, <1>12, <1>13, <2>1, NarrowedTo
<1>14. CASE steps \notin fails
  <2>1. best' # NoBest /\ best'.steps = best.steps /\ UNCHANGED <<chosen, fails>>
    BY <1>11, <1>14 DEF ProbeHolds
  <2> QED BY <1>1, <1>2, <1>4, <1>5, <1>9, <1>12, <1>14, <2>1, TurnTaken
<1> QED BY <1>13, <1>14

-----------------------------------------------------------------------------
\* A search that had found the failure ends with the best schedule it has.
LEMMA SearchOver ==
    ASSUME ShrinkInv, Searching, pass' = "done", exhausted' \in BOOLEAN,
           ~exhausted' /\ {} \notin fails => \A step \in best.steps : best.steps \ {step} \notin fails,
           UNCHANGED <<chosen, fails, budget, runs, best, lo, hi, length, kept, granularity, turn>>
    PROVE  ShrinkInv'
<1>1. TypeOK'
  BY DEF ShrinkInv, TypeOK, Steps
<1>2. BoundsFit'
  BY DEF BoundsFit
<1>3. RoundsFit'
  BY DEF ShrinkInv, RoundsFit, Distinct
<1>4. BestIsCurrent' /\ Tried'
  BY DEF BestIsCurrent, Searching, Tried
<1>5. best # NoBest /\ best.steps \in fails /\ chosen \in fails
  BY DEF ShrinkInv, BestIsCurrent
<1>6. AnswerReproduces'
  BY <1>5 DEF AnswerReproduces, NoBest
<1>7. OneMinimalIfFifoPasses'
  BY DEF OneMinimalIfFifoPasses, NoBest
<1> QED BY <1>1, <1>2, <1>3, <1>4, <1>6, <1>7 DEF ShrinkInv

\* When every chunk is one step, each step was tried without the others or
\* the others without it; of two, these are the same.
LEMMA FinestRound ==
    ASSUME ShrinkInv, pass = "rest" \/ (pass = "chunks" /\ granularity <= 2), Len(kept) > 1,
           turn = granularity, granularity >= Len(kept), NEW step \in best.steps
    PROVE  best.steps \ {step} \notin fails
<1>1. /\ kept \in Seq(Steps) /\ Distinct(kept) /\ granularity \in 2 .. Len(kept)
      /\ best.steps = Candidate(ToSet(kept)) /\ Len(kept) \in Nat
  <2>1. kept \in Seq(Steps) /\ Distinct(kept) /\ granularity \in 2 .. Len(kept)
    BY DEF ShrinkInv, TypeOK, RoundsFit
  <2>2. best.steps = Candidate(ToSet(kept))
    BY DEF ShrinkInv, BestIsCurrent
  <2> QED BY <2>1, <2>2, LenProperties
<1>2. granularity = Len(kept) /\ granularity \in 1 .. Len(kept)
  BY <1>1
<1>3. \A x : x \in ToSet(kept) <=> \E k \in 1 .. Len(kept) : x = kept[k]
  BY <1>1, ToSetIs
<1>4. PICK k \in 1 .. Len(kept) : step = kept[k]
  BY <1>1, <1>3 DEF Candidate
<1>5. CASE pass = "rest"
  <2>1. k - 1 \in 0 .. granularity - 1 /\ (k - 1) + 1 = k
    BY <1>1, <1>2
  <2>2. Candidate(ToSet(Rest(k - 1))) \notin fails
    BY <1>5, <2>1 DEF ShrinkInv, Tried
  <2>3. \A x : x \in ToSet(Rest(k - 1)) <=> x \in ToSet(kept) /\ x # kept[k]
    BY <1>1, <1>2, <2>1, RoundCuts DEF RestFits
  <2>4. Candidate(ToSet(Rest(k - 1))) = best.steps \ {step}
    BY <1>1, <1>4, <2>3 DEF Candidate
  <2> QED BY <2>2, <2>4
<1>6. CASE pass = "chunks" /\ granularity <= 2
  <2>1. Len(kept) = 2 /\ granularity = 2
    BY <1>1, <1>2, <1>6
  <2>2. PICK i \in 0 .. granularity - 1 : i + 1 \in 1 .. 2 /\ i + 1 # k
    <3>1. CASE k = 1
      <4>1. 1 \in 0 .. granularity - 1 /\ 1 + 1 \in 1 .. 2 /\ 1 + 1 # k
        BY <2>1, <3>1
      <4> QED BY <4>1
    <3>2. CASE k = 2
      <4>1. 0 \in 0 .. granularity - 1 /\ 0 + 1 \in 1 .. 2 /\ 0 + 1 # k
        BY <2>1, <3>2
      <4> QED BY <4>1
    <3> QED BY <1>4, <2>1, <3>1, <3>2
  <2>3. Candidate(ToSet(Chunk(i))) \notin fails
    BY <1>6, <2>2 DEF ShrinkInv, Tried
  <2>4. \A x : x \in ToSet(Chunk(i)) <=> x = kept[i + 1]
    BY <1>1, <1>2, <2>2, RoundCuts DEF ChunkFits
  <2>5. ASSUME NEW x PROVE x = kept[i + 1] <=> x \in ToSet(kept) /\ x # kept[k]
    <3>1. kept[i + 1] # kept[k]
      BY <1>1, <1>4, <2>1, <2>2 DEF Distinct
    <3>2. \A j \in 1 .. 2 : j = i + 1 \/ j = k
      BY <1>4, <2>1, <2>2
    <3>3. x \in ToSet(kept) <=> \E j \in 1 .. 2 : x = kept[j]
      BY <1>3, <2>1
    <3> QED BY <2>2, <3>1, <3>2, <3>3
  <2>6. Candidate(ToSet(Chunk(i))) = best.steps \ {step}
    BY <1>1, <1>4, <2>4, <2>5 DEF Candidate
  <2> QED BY <2>3, <2>6
<1> QED BY <1>5, <1>6

LEMMA RoundOver ==
    ASSUME ShrinkInv, RoundFails
    PROVE  ShrinkInv'
<1>1. /\ pass \in {"chunks", "rest"} /\ Len(kept) > 1 /\ turn = granularity
      /\ UNCHANGED <<chosen, fails, budget, runs, best, lo, hi, length, exhausted>>
  BY DEF RoundFails, scenario
<1>2. /\ kept \in Seq(Steps) /\ Distinct(kept) /\ granularity \in 2 .. Len(kept)
      /\ best # NoBest /\ best.steps \in fails /\ best.steps = Candidate(ToSet(kept))
  BY <1>1 DEF ShrinkInv, TypeOK, RoundsFit, BestIsCurrent, Searching
<1>3. Len(kept) \in Nat
  BY <1>2, LenProperties
<1>4. OuterTypes'
  BY <1>1 DEF ShrinkInv, TypeOK, OuterTypes, Steps
<1>5. CASE pass = "chunks" /\ granularity > 2
  <2>1. pass' = "rest" /\ turn' = 0 /\ UNCHANGED <<kept, granularity>>
    BY <1>5 DEF RoundFails
  <2>2. TypeOK'
    <3>1. 0 \in 0 .. granularity
      BY <1>2, <1>3
    <3> QED BY <1>1, <2>1, <3>1 DEF ShrinkInv, TypeOK, Steps
  <2>3. BoundsFit'
    BY <2>1 DEF BoundsFit
  <2>4. RoundsFit'
    BY <1>1, <1>5, <2>1 DEF ShrinkInv, RoundsFit, Distinct
  <2>5. BestIsCurrent'
    BY <1>1, <2>1 DEF ShrinkInv, BestIsCurrent, Searching, Candidate, ToSet
  <2>6. Tried'
    BY <2>1 DEF Tried
  <2> QED BY <2>1, <2>2, <2>3, <2>4, <2>5, <2>6, StillSearching
<1>6. CASE ~(pass = "chunks" /\ granularity > 2) /\ granularity >= Len(kept)
  <2>1. pass' = "done" /\ UNCHANGED <<kept, granularity, turn>>
    BY <1>6 DEF RoundFails
  <2>2. pass = "rest" \/ (pass = "chunks" /\ granularity <= 2)
    BY <1>1, <1>2, <1>6
  <2>3. \A step \in best.steps : best.steps \ {step} \notin fails
    BY <1>1, <1>6, <2>2, FinestRound
  <2>4. Searching /\ exhausted' \in BOOLEAN
    BY <1>1, <1>4 DEF Searching, OuterTypes
  <2> QED BY <1>1, <2>1, <2>3, <2>4, SearchOver
<1>7. CASE ~(pass = "chunks" /\ granularity > 2) /\ ~(granularity >= Len(kept))
  <2>1. pass' = "chunks" /\ kept' = kept /\ granularity' = Finer /\ turn' = 0
    BY <1>7 DEF RoundFails, Narrow
  <2>2. Finer \in Nat /\ Finer >= 2 /\ Finer <= Len(kept)
    BY <1>2, <1>3 DEF Finer
  <2> QED BY <1>1, <1>2, <1>4, <2>1, <2>2, NarrowedTo
<1> QED BY <1>5, <1>6, <1>7

LEMMA FewSteps ==
    ASSUME ShrinkInv, OneStepLeft
    PROVE  ShrinkInv'
<1>1. /\ pass = "chunks" /\ Len(kept) <= 1 /\ pass' = "done"
      /\ UNCHANGED <<chosen, fails, budget, runs, best, lo, hi, length, kept, granularity, turn, exhausted>>
  BY DEF OneStepLeft, scenario
<1>2. kept \in Seq(Steps) /\ exhausted \in BOOLEAN /\ best.steps = Candidate(ToSet(kept))
  BY <1>1 DEF ShrinkInv, TypeOK, BestIsCurrent
<1>3. ASSUME NEW step \in best.steps PROVE best.steps \ {step} = {}
  <2>1. Len(kept) \in Nat /\ \A x : x \in ToSet(kept) <=> \E k \in 1 .. Len(kept) : x = kept[k]
    BY <1>2, ToSetIs
  <2>2. \A k \in 1 .. Len(kept) : k = 1
    BY <1>1, <2>1
  <2>3. \A x \in best.steps : x = kept[1]
    BY <1>2, <2>1, <2>2 DEF Candidate
  <2> QED BY <2>3
<1>4. {} \notin fails => \A step \in best.steps : best.steps \ {step} \notin fails
  BY <1>3
<1> QED BY <1>1, <1>2, <1>4, SearchOver DEF Searching

LEMMA BudgetOver ==
    ASSUME ShrinkInv, OutOfBudget
    PROVE  ShrinkInv'
<1>1. /\ runs >= budget /\ pass' = "done" /\ exhausted' = TRUE /\ Asking
      /\ UNCHANGED <<chosen, fails, budget, runs, best, lo, hi, length, kept, granularity, turn>>
  BY DEF OutOfBudget, scenario
<1>2. pass # "record"
  <2>1. budget \in Nat \ {0} /\ (pass = "record" => runs = 0)
    BY ShrinkAssumption DEF ShrinkInv, BoundsFit, TypeOK
  <2> QED BY <1>1, <2>1
<1>3. Searching
  BY <1>1, <1>2 DEF Asking, Searching
<1> QED BY <1>1, <1>3, SearchOver

-----------------------------------------------------------------------------
LEMMA ShrinkStarts ==
    ASSUME ShrinkInit
    PROVE  ShrinkInv
<1>1. /\ chosen \in SUBSET Steps /\ fails \in SUBSET SUBSET chosen /\ budget \in Budgets
      /\ pass = "record" /\ runs = 0 /\ best = NoBest /\ exhausted = FALSE
      /\ lo = 0 /\ hi = Length /\ length = Length
      /\ kept = <<>> /\ granularity = 2 /\ turn = 0
  BY DEF ShrinkInit
<1>2. Length \in Nat /\ budget \in Nat
  BY <1>1, ShrinkAssumption
<1>3. best.steps = {} /\ best.len = -1
  BY <1>1 DEF NoBest
<1>4. kept \in Seq(Steps) /\ Len(kept) = 0
  BY <1>1
<1>5. TypeOK
  <2>1. /\ runs \in 0 .. budget /\ best.len \in -1 .. Length /\ turn \in 0 .. granularity
        /\ lo \in 0 .. Length /\ hi \in 0 .. Length /\ length \in 0 .. Length
    BY <1>1, <1>2, <1>3
  <2> QED BY <1>1, <1>3, <1>4, <2>1 DEF TypeOK
<1>6. BoundsFit
  BY <1>1, <1>2 DEF BoundsFit
<1>7. RoundsFit
  BY <1>1, <1>4 DEF RoundsFit, Distinct
<1>8. BestIsCurrent /\ Tried /\ AnswerReproduces /\ OneMinimalIfFifoPasses
  BY <1>1 DEF BestIsCurrent, Searching, Tried, AnswerReproduces, OneMinimalIfFifoPasses
<1> QED BY <1>5, <1>6, <1>7, <1>8 DEF ShrinkInv

LEMMA ShrinkStep ==
    ASSUME ShrinkInv, [ShrinkNext]_searchVars
    PROVE  ShrinkInv'
<1>1. CASE ShrinkNext
  BY <1>1, FirstProbe, PrefixProbe, PrefixDone, FifoProbe, FifoDone, ChunkProbe, RestProbe,
     RoundOver, FewSteps, BudgetOver DEF ShrinkNext
<1>2. CASE UNCHANGED searchVars
  <2>1. UNCHANGED <<chosen, fails, budget, pass, runs, best, lo, hi, length, kept, granularity, turn,
                    exhausted>>
    BY <1>2 DEF searchVars, scenario
  <2>2. TypeOK' /\ BoundsFit'
    BY <2>1 DEF ShrinkInv, TypeOK, BoundsFit, Steps
  <2>3. RoundsFit' /\ BestIsCurrent'
    BY <2>1 DEF ShrinkInv, RoundsFit, Distinct, BestIsCurrent, Searching, Candidate, ToSet
  <2>4. Tried'
    <3>1. ASSUME NEW i PROVE /\ Candidate(ToSet(Chunk(i)))' = Candidate(ToSet(Chunk(i)))
                             /\ Candidate(ToSet(Rest(i)))' = Candidate(ToSet(Rest(i)))
      BY <2>1 DEF Candidate, Chunk, Rest, Cut, ToSet
    <3>2. Tried
      BY DEF ShrinkInv
    <3> QED BY <2>1, <3>1, <3>2 DEF Tried
  <2>5. AnswerReproduces' /\ OneMinimalIfFifoPasses'
    BY <2>1 DEF ShrinkInv, AnswerReproduces, OneMinimalIfFifoPasses
  <2> QED BY <2>2, <2>3, <2>4, <2>5 DEF ShrinkInv
<1> QED BY <1>1, <1>2

\* The inductive invariant of shrink_schedule.
THEOREM ShrinkIsInvariant ==
    ShrinkSpec => []ShrinkInv
BY ShrinkStarts, ShrinkStep, PTL DEF ShrinkSpec

\* The types; _Search.probe never spends more than shrink_budget, and _ddmin
\* never cuts its steps finer than there are steps, so no chunk of _split is empty.
THEOREM ShrinkTypes ==
    ShrinkSpec => []TypeOK
<1>1. ShrinkInv => TypeOK
  BY DEF ShrinkInv
<1> QED BY <1>1, ShrinkIsInvariant, PTL

\* Wherever the budget runs out, shrink_schedule answers with a schedule whose
\* replay failed the way the recording did, and with None only when the
\* recording itself does not reproduce.
THEOREM AnswersReproduce ==
    ShrinkSpec => []AnswerReproduces
<1>1. ShrinkInv => AnswerReproduces
  BY DEF ShrinkInv
<1> QED BY <1>1, ShrinkIsInvariant, PTL

\* _shortest_prefix, _fifo_prefix and _ddmin together: within the budget, and
\* when plain FIFO does not fail, no single choice of the answer can be spared,
\* whichever edits of the schedule happen to fail.
THEOREM ShrunkIsOneMinimal ==
    ShrinkSpec => []OneMinimalIfFifoPasses
<1>1. ShrinkInv => OneMinimalIfFifoPasses
  BY DEF ShrinkInv
<1> QED BY <1>1, ShrinkIsInvariant, PTL
=============================================================================
