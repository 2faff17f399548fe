------------------------------ MODULE SimDisk ------------------------------
(***************************************************************************)
(* A host's storage: SimDisk in src/src/simloop/_net.py.  A buffered disk  *)
(* keeps its pending changes twice, as a journal, which sync() and a crash *)
(* replay in order, and as an overlay keyed for reading.                   *)
(*                                                                         *)
(* A Python dict is a function with the sequence of its keys in insertion  *)
(* order beside it.  Replaying a list of writes leaves, for each key, the  *)
(* last one; the order the keys end up in is computed write by write.      *)
(***************************************************************************)
EXTENDS Integers, Sequences, SequencesExt

CONSTANTS
    Keys, Values,
    Absent,     \* no such key in a dict
    Deleted,    \* _DELETED
    MaxJournal  \* bound: changes waiting for a sync

ASSUME DiskAssumption ==
    /\ Absent \notin Values /\ Deleted \notin Values /\ Absent # Deleted
    /\ MaxJournal \in Nat

VARIABLES
    data,       \* _data
    order,      \* the keys of _data in dict order
    journal,    \* _journal
    overlay,    \* _overlay; Absent where it has no entry
    written,    \* the keys of _overlay in dict order
    buffered,   \* _buffered
    torn        \* _torn

vars == <<data, order, journal, overlay, written, buffered, torn>>

Contents == [Keys -> Values \cup {Absent}]
Writes   == [key : Keys, val : Values \cup {Deleted}]

\* The keys in their order, but for some.
Without(keys, hidden) ==
    LET rest[n \in 0 .. Len(keys)] ==
          IF n = 0 THEN <<>>
          ELSE IF keys[n] \in hidden THEN rest[n - 1] ELSE Append(rest[n - 1], keys[n])
    IN rest[Len(keys)]

\* The dict's keys after one write of the journal: a new key goes last, an
\* overwritten one keeps its place, a deleted one loses it.
Placed(keys, w) ==
    IF w.val = Deleted THEN Without(keys, {w.key})
    ELSE IF w.key \in ToSet(keys) THEN keys ELSE Append(keys, w.key)

OrderAfter(keys, writes) ==
    LET after[n \in 0 .. Len(writes)] ==
          IF n = 0 THEN keys ELSE Placed(after[n - 1], writes[n])
    IN after[Len(writes)]

Touches(writes, k) == {i \in DOMAIN writes : writes[i].key = k}
IsLatest(writes, k, i) == i \in Touches(writes, k) /\ \A j \in Touches(writes, k) : j <= i
Stored(v) == IF v = Deleted THEN Absent ELSE v

\* The for loop of sync() and _crash(): the last write of each key stays.
Replay(contents, writes) ==
    [k \in Keys |->
        IF Touches(writes, k) = {} THEN contents[k]
        ELSE Stored(writes[CHOOSE i \in Touches(writes, k) : IsLatest(writes, k, i)].val)]

NoOverlay == [k \in Keys |-> Absent]

\* slip: a queued delete is not seen by the reader.
LookupIgnoresDelete(k) ==
    IF overlay[k] \notin {Absent, Deleted} THEN overlay[k] ELSE data[k]

\* __getitem__: Absent stands for KeyError.
Lookup(k) == IF overlay[k] # Absent THEN Stored(overlay[k]) ELSE data[k]

\* Keys hidden by a queued delete, and keys that are durable.
Hidden  == {k \in Keys : overlay[k] = Deleted}
Durable == {k \in Keys : data[k] # Absent}

\* slip: a key the queue invented is listed though a later delete hides it.
MergedKeepsHidden == Without(order, Hidden) \o Without(written, Durable)

\* _merged: durable keys first, then the keys the queue invented.
Merged == Without(order, Hidden) \o Without(written, Durable \cup Hidden)

\* __iter__, and __len__ counts the same list.
Iteration == IF written = <<>> THEN order ELSE Merged

-----------------------------------------------------------------------------
Init ==
    /\ data = NoOverlay /\ order = <<>>
    /\ journal = <<>> /\ overlay = NoOverlay /\ written = <<>>
    /\ buffered = FALSE /\ torn = FALSE

\* A change made durable at once, or queued and laid over the data.
Record(w) ==
    /\ IF buffered
       THEN /\ Len(journal) < MaxJournal
            /\ journal' = Append(journal, w)
            /\ overlay' = [overlay EXCEPT ![w.key] = w.val]
            /\ written' = IF w.key \in ToSet(written) THEN written ELSE Append(written, w.key)
            /\ UNCHANGED <<data, order>>
       ELSE /\ data' = [data EXCEPT ![w.key] = Stored(w.val)]
            /\ order' = Placed(order, w)
            /\ UNCHANGED <<journal, overlay, written>>
    /\ UNCHANGED <<buffered, torn>>

\* __setitem__
SetItem(k, v) == Record([key |-> k, val |-> v])

\* __delitem__: a delete of what is not there raises, buffered or not.
DelItem(k) == Lookup(k) # Absent /\ Record([key |-> k, val |-> Deleted])

Flush ==
    /\ data' = Replay(data, journal) /\ order' = OrderAfter(order, journal)
    /\ journal' = <<>> /\ overlay' = NoOverlay /\ written' = <<>>

Sync == Flush /\ UNCHANGED <<buffered, torn>>

\* slip: a reconfigured disk drops what it was holding.
ConfigureDropsQueue(b, t) ==
    /\ t => b
    /\ journal' = <<>> /\ overlay' = NoOverlay /\ written' = <<>>
    /\ UNCHANGED <<data, order>>
    /\ buffered' = b /\ torn' = t

\* set_disk, which refuses torn without buffered, and _configure.
Configure(b, t) ==
    /\ t => b
    /\ Flush
    /\ buffered' = b /\ torn' = t

\* _crash: a seeded prefix of the journal lands, an empty one unless torn.
Crash(kept) ==
    /\ kept \in 0 .. Len(journal) /\ (torn \/ kept = 0)
    /\ LET landed == SubSeq(journal, 1, kept)
       IN data' = Replay(data, landed) /\ order' = OrderAfter(order, landed)
    /\ journal' = <<>> /\ overlay' = NoOverlay /\ written' = <<>>
    /\ UNCHANGED <<buffered, torn>>

Next ==
    \/ \E k \in Keys, v \in Values : SetItem(k, v)
    \/ \E k \in Keys : DelItem(k)
    \/ Sync
    \/ \E b, t \in BOOLEAN : Configure(b, t)
    \/ \E kept \in 0 .. Len(journal) : Crash(kept)

Spec == Init /\ [][Next]_vars

-----------------------------------------------------------------------------
ContentTypes ==
    /\ data \in Contents
    /\ journal \in Seq(Writes)
    /\ overlay \in [Keys -> Values \cup {Deleted, Absent}]
    /\ buffered \in BOOLEAN /\ torn \in BOOLEAN
    /\ ~buffered => journal = <<>> /\ overlay = NoOverlay

\* The two records of the queue agree: what a host reads through the overlay
\* is what it would read after a sync of the journal.
ReadsOwnWrites == \A k \in Keys : Lookup(k) = Replay(data, journal)[k]

\* Iterating a disk, merged or not, lists every readable key exactly once.
IterationListsTheView ==
    /\ ToSet(Iteration) = {k \in Keys : Lookup(k) # Absent}
    /\ IsInjective(Iteration)

\* The line of versions the journal stands for; the disk keeps its promise.
Versions == [n \in 1 .. Len(journal) + 1 |-> Replay(data, SubSeq(journal, 1, n - 1))]
Promise == INSTANCE CrashSafeDisk WITH versions <- Versions
ImplementsCrashSafeDisk == Promise!Spec
=============================================================================
