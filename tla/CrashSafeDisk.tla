--------------------------- MODULE CrashSafeDisk ---------------------------
(***************************************************************************)
(* What a simulated disk promises, without saying how: it is a line of     *)
(* versions, the durable one first and the one its owner reads last, one   *)
(* more for every change that is not durable yet.  Syncing keeps the last. *)
(* A crash keeps the first, or, on a disk that tears, any one of them: the *)
(* changes that survive are always the earliest ones.                      *)
(***************************************************************************)
EXTENDS Integers, Sequences

CONSTANTS Keys, Values, Absent

VARIABLES versions, buffered, torn

Newest == versions[Len(versions)]

Init ==
    /\ versions = << [k \in Keys |-> Absent] >>
    /\ buffered = FALSE /\ torn = FALSE

\* A write of v, or a delete when v is Absent, which needs something there.
Change(k, v) ==
    /\ v = Absent => Newest[k] # Absent
    /\ LET version == [Newest EXCEPT ![k] = v]
       IN versions' = IF buffered THEN Append(versions, version) ELSE <<version>>
    /\ UNCHANGED <<buffered, torn>>

Sync == versions' = <<Newest>> /\ UNCHANGED <<buffered, torn>>

Configure == versions' = <<Newest>> /\ buffered' \in BOOLEAN /\ torn' \in BOOLEAN

Crash ==
    /\ \E i \in 1 .. Len(versions) :
          /\ i = 1 \/ torn
          /\ versions' = <<versions[i]>>
    /\ UNCHANGED <<buffered, torn>>

Next ==
    \/ \E k \in Keys, v \in Values \cup {Absent} : Change(k, v)
    \/ Sync
    \/ Configure
    \/ Crash

Spec == Init /\ [][Next]_<<versions, buffered, torn>>
=============================================================================
