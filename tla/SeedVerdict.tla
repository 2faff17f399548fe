---------------------------- MODULE SeedVerdict ----------------------------
(***************************************************************************)
(* What exploring a list of seeds promises, however it is done: one        *)
(* answer, given once, that names the first failing seed of the list, how  *)
(* many seeds passed before it and the seed its trace is compared with.    *)
(* Seeds are named by their position in the list.                          *)
(***************************************************************************)
EXTENDS Integers

CONSTANT Total                      \* seeds in the list, a natural number

Positions == 0 .. Total - 1
None == -1                          \* no position

VARIABLES
    failing,                        \* positions whose run raises
    answer

Searching   == [kind |-> "searching", at |-> None, passed |-> None, against |-> None]
AllPassed   == [kind |-> "clean", at |-> None, passed |-> None, against |-> None]
ReportOf(p) == [kind |-> "report", at |-> p, passed |-> p, against |-> p - 1]

IsLowest(p) == p \in failing /\ \A q \in failing : p <= q

Init == failing \in SUBSET Positions /\ answer = Searching

Answer ==
    /\ answer = Searching
    /\ \/ failing = {} /\ answer' = AllPassed
       \/ \E p \in failing : IsLowest(p) /\ answer' = ReportOf(p)
    /\ UNCHANGED failing

Spec == Init /\ [][Answer]_<<failing, answer>>
=============================================================================
