----------------------------- MODULE MCRaftStale -----------------------------
(***************************************************************************)
(* Nine nodes of RaftNode behind a network that lets the calls of Schedule *)
(* through, in that order, and holds every other one back.  old leads term *)
(* 1, mid term 2, cut term 3 and heir term 4.  heir commits; mid, deposed, *)
(* tells old under its own term; cut, still in office, takes that back     *)
(* from old's log; and old, deposed by mid, tells far under term 1.        *)
(***************************************************************************)
EXTENDS RaftNode

CONSTANTS old, mid, cut, heir, far, v, x, y, z

VARIABLE let        \* how many calls have been let through

FourTerms == {<<old, 1>>, <<mid, 2>>, <<cut, 3>>, <<heir, 4>>}
TwoCommands == {[log |-> 3, open |-> 1, faults |-> 0]}

Schedule ==
    << <<old, mid>>, <<old, x>>, <<old, y>>, <<old, z>>,          \* old is elected
       <<mid, heir>>, <<mid, x>>, <<mid, y>>, <<mid, z>>,         \* mid is elected
       <<mid, heir>>, <<mid, cut>>,                               \* and replicates
       <<cut, heir>>, <<cut, x>>, <<cut, y>>, <<cut, z>>,         \* cut is elected
       <<heir, v>>, <<heir, x>>, <<heir, y>>, <<heir, z>>,        \* heir is elected
       <<heir, v>>, <<heir, v>>, <<heir, x>>, <<heir, x>>,        \* replicates, refused
       <<heir, y>>, <<heir, y>>, <<heir, z>>, <<heir, z>>,        \* once by each, commits
       <<heir, mid>>,                                             \* and says so to mid
       <<mid, old>>, <<cut, old>>, <<old, far>> >>

LetThrough ==
    LET sent == InFlight' \ InFlight
    IN IF sent = {} THEN let' = let
       ELSE /\ let < Len(Schedule) /\ let' = let + 1
            /\ \A m \in sent : <<m.from, m.to>> = Schedule[let']

ScheduledSpec == Init /\ let = 0 /\ [][Next /\ LetThrough]_<<vars, let>>

\* No two state machines are given different commands for one index
\* (_state_machine_safety of tests/checks.py).
CommandsApplyAlike ==
    \A c, d \in committed :
        c.index = d.index /\ {c.entry.command, d.entry.command} \subseteq Commands =>
            c.entry = d.entry
=============================================================================
