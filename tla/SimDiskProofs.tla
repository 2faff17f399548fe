--------------------------- MODULE SimDiskProofs ---------------------------
(***************************************************************************)
(* For any keys and values, the simulated disk implements CrashSafeDisk,   *)
(* its overlay shows what its journal would leave, and iterating it lists  *)
(* the keys that can be read.                                              *)
(*                                                                         *)
(* Everything rests on what replaying a journal does to one key: the last  *)
(* write of the key wins (LatestExists, LatestOnly), so appending a write  *)
(* changes the outcome at its own key only (ReplayAppend).  The inductive  *)
(* invariant says that the overlay holds, for each key, the journal's last *)
(* write of it.  The order of the keys is listed beside it (OrderInv).     *)
(***************************************************************************)
EXTENDS SimDisk, SequenceTheorems, WellFoundedInduction, TLAPS

OverlayInv ==
    /\ \A k \in Keys : Touches(journal, k) = {} => overlay[k] = Absent
    /\ \A k \in Keys : \A i \in Touches(journal, k) :
          IsLatest(journal, k, i) => overlay[k] = journal[i].val

DiskInv == ContentTypes /\ OverlayInv

-----------------------------------------------------------------------------
\* A nonempty set of naturals has a least member.
LEMMA LeastExists ==
    ASSUME NEW S \in SUBSET Nat, S # {}
    PROVE  \E p \in S : \A q \in S : p <= q
<1>1. PICK p \in S : \A q \in S : <<q, p>> \notin OpToRel(<, Nat)
  BY NatLessThanWellFounded, WFMin
<1>2. ASSUME NEW q \in S, q < p PROVE FALSE
  <2>1. <<q, p>> \in Nat \X Nat /\ <<q, p>>[1] < <<q, p>>[2]
    BY <1>2
  <2>2. <<q, p>> \in OpToRel(<, Nat)
    BY <2>1, Zenon DEF OpToRel
  <2> QED BY <1>1, <2>2
<1>3. \A q \in S : p <= q
  BY <1>2
<1> QED BY <1>3

\* A key that was written has a last write.
LEMMA LatestExists ==
    ASSUME NEW ws \in Seq(Writes), NEW k, Touches(ws, k) # {}
    PROVE  \E i \in Touches(ws, k) : IsLatest(ws, k, i)
<1> DEFINE Back == {Len(ws) - i : i \in Touches(ws, k)}
<1>1. Touches(ws, k) \subseteq 1 .. Len(ws) /\ Len(ws) \in Nat
  BY DEF Touches
<1>2. Back \in SUBSET Nat /\ Back # {}
  BY <1>1
<1>3. PICK m \in Back : \A b \in Back : m <= b
  BY <1>2, LeastExists
<1>4. PICK i \in Touches(ws, k) : m = Len(ws) - i
  BY <1>3
<1>5. \A j \in Touches(ws, k) : Len(ws) - i <= Len(ws) - j
  BY <1>3, <1>4
<1>6. \A j \in Touches(ws, k) : j <= i
  BY <1>1, <1>5
<1> QED BY <1>6 DEF IsLatest

\* And only one: CHOOSE names it.
LEMMA LatestOnly ==
    ASSUME NEW ws \in Seq(Writes), NEW k, NEW i \in Touches(ws, k), IsLatest(ws, k, i)
    PROVE  (CHOOSE j \in Touches(ws, k) : IsLatest(ws, k, j)) = i
<1>1. Touches(ws, k) \subseteq 1 .. Len(ws)
  BY DEF Touches
<1> QED BY <1>1 DEF IsLatest

\* What replaying writes leaves at one key.
LEMMA ReplayAt ==
    ASSUME NEW d, NEW ws \in Seq(Writes), NEW k \in Keys
    PROVE  /\ Touches(ws, k) = {} => Replay(d, ws)[k] = d[k]
           /\ \A i \in Touches(ws, k) :
                 IsLatest(ws, k, i) => Replay(d, ws)[k] = Stored(ws[i].val)
<1>1. Touches(ws, k) = {} => Replay(d, ws)[k] = d[k]
  BY DEF Replay
<1>2. ASSUME NEW i \in Touches(ws, k), IsLatest(ws, k, i)
      PROVE  Replay(d, ws)[k] = Stored(ws[i].val)
  BY <1>2, LatestOnly DEF Replay
<1> QED BY <1>1, <1>2

LEMMA ReplayType ==
    ASSUME NEW d \in Contents, NEW ws \in Seq(Writes)
    PROVE  Replay(d, ws) \in Contents
<1> SUFFICES ASSUME NEW k \in Keys
             PROVE  Replay(d, ws)[k] \in Values \cup {Absent}
  BY DEF Replay, Contents
<1>1. CASE Touches(ws, k) = {}
  BY <1>1, ReplayAt DEF Contents
<1>2. CASE Touches(ws, k) # {}
  <2>1. PICK i \in Touches(ws, k) : IsLatest(ws, k, i)
    BY <1>2, LatestExists
  <2>2. Replay(d, ws)[k] = Stored(ws[i].val) /\ ws[i] \in Writes
    BY <2>1, ReplayAt DEF Touches
  <2> QED BY <2>2 DEF Stored, Writes
<1> QED BY <1>1, <1>2

\* Replaying nothing changes nothing.
LEMMA ReplayNothing ==
    ASSUME NEW d \in Contents
    PROVE  Replay(d, <<>>) = d
<1>1. \A k \in Keys : Touches(<<>>, k) = {}
  BY DEF Touches
<1> QED BY <1>1 DEF Replay, Contents

\* How one more write changes which write of a key is the last.
LEMMA TouchesAppend ==
    ASSUME NEW ws \in Seq(Writes), NEW w \in Writes, NEW k
    PROVE  /\ k # w.key => /\ Touches(Append(ws, w), k) = Touches(ws, k)
                           /\ \A i \in Touches(ws, k) : Append(ws, w)[i] = ws[i]
           /\ k = w.key => /\ Len(ws) + 1 \in Touches(Append(ws, w), k)
                           /\ IsLatest(Append(ws, w), k, Len(ws) + 1)
                           /\ Append(ws, w)[Len(ws) + 1] = w
<1>1. /\ DOMAIN Append(ws, w) = 1 .. Len(ws) + 1 /\ DOMAIN ws = 1 .. Len(ws)
      /\ Len(ws) \in Nat
      /\ \A i \in 1 .. Len(ws) : Append(ws, w)[i] = ws[i]
      /\ Append(ws, w)[Len(ws) + 1] = w
  OBVIOUS
<1> QED BY <1>1 DEF Touches, IsLatest

LEMMA ReplayAppend ==
    ASSUME NEW d \in Contents, NEW ws \in Seq(Writes), NEW w \in Writes
    PROVE  Replay(d, Append(ws, w)) = [Replay(d, ws) EXCEPT ![w.key] = Stored(w.val)]
<1> DEFINE aw == Append(ws, w)
<1>0. aw \in Seq(Writes) /\ w.key \in Keys
  BY DEF Writes
<1>a. ASSUME NEW k
      PROVE  /\ k # w.key => /\ Touches(aw, k) = Touches(ws, k)
                             /\ \A i \in Touches(ws, k) : aw[i] = ws[i]
             /\ k = w.key => /\ Len(ws) + 1 \in Touches(aw, k)
                             /\ IsLatest(aw, k, Len(ws) + 1)
                             /\ aw[Len(ws) + 1] = w
  BY TouchesAppend, Zenon
<1> HIDE DEF aw
<1>1. ASSUME NEW k \in Keys, k # w.key
      PROVE  Replay(d, aw)[k] = Replay(d, ws)[k]
  <2>0. Touches(aw, k) = Touches(ws, k) /\ \A i \in Touches(ws, k) : aw[i] = ws[i]
    BY <1>1, <1>a
  <2>1. CASE Touches(ws, k) = {}
    BY <1>0, <2>0, <2>1, ReplayAt
  <2>2. CASE Touches(ws, k) # {}
    <3>1. PICK i \in Touches(ws, k) : IsLatest(ws, k, i)
      BY <2>2, LatestExists
    <3>2. i \in Touches(aw, k) /\ IsLatest(aw, k, i) /\ aw[i] = ws[i]
      BY <2>0, <3>1 DEF IsLatest
    <3>3. Replay(d, aw)[k] = Stored(aw[i].val)
      BY <1>0, <3>2, ReplayAt
    <3>4. Replay(d, ws)[k] = Stored(ws[i].val)
      BY <3>1, ReplayAt
    <3> QED BY <3>2, <3>3, <3>4
  <2> QED BY <2>1, <2>2
<1>2. Replay(d, aw)[w.key] = Stored(w.val)
  <2>1. /\ Len(ws) + 1 \in Touches(aw, w.key) /\ IsLatest(aw, w.key, Len(ws) + 1)
        /\ aw[Len(ws) + 1] = w
    BY <1>a
  <2>2. Replay(d, aw)[w.key] = Stored(aw[Len(ws) + 1].val)
    BY <1>0, <2>1, ReplayAt
  <2> QED BY <2>1, <2>2
<1>3. Replay(d, aw) \in Contents /\ Replay(d, ws) \in Contents
  BY <1>0, ReplayType
<1>4. Replay(d, aw) = [Replay(d, ws) EXCEPT ![w.key] = Stored(w.val)]
  BY <1>0, <1>1, <1>2, <1>3 DEF Contents
<1> QED BY <1>4 DEF aw

-----------------------------------------------------------------------------
LEMMA DiskInit == Init => DiskInv
<1> SUFFICES ASSUME Init PROVE DiskInv
  OBVIOUS
<1>1. ContentTypes
  <2>1. data \in Contents /\ overlay \in [Keys -> Values \cup {Deleted, Absent}]
    BY DEF Init, NoOverlay, Contents
  <2>2. journal \in Seq(Writes)
    BY DEF Init
  <2>3. buffered \in BOOLEAN /\ torn \in BOOLEAN
    BY DEF Init
  <2> QED BY <2>1, <2>2, <2>3 DEF ContentTypes, Init
<1>2. \A k \in Keys : Touches(journal, k) = {} /\ overlay[k] = Absent
  BY DEF Init, NoOverlay, Touches
<1> QED BY <1>1, <1>2 DEF DiskInv, OverlayInv

\* An emptied queue has an empty overlay.
LEMMA EmptyQueue ==
    ASSUME journal' = <<>>, overlay' = NoOverlay
    PROVE  OverlayInv'
<1>1. \A k \in Keys : Touches(journal', k) = {} /\ overlay'[k] = Absent
  BY DEF NoOverlay, Touches
<1> QED BY <1>1 DEF OverlayInv

LEMMA RecordKeeps ==
    ASSUME DiskInv, NEW w \in Writes, Record(w)
    PROVE  DiskInv'
<1> USE DEF DiskInv
<1>0. w.key \in Keys /\ w.val \in Values \cup {Deleted}
  BY DEF Writes
<1>1. CASE buffered
  <2>1. ContentTypes'
    BY <1>0, <1>1 DEF Record, ContentTypes
  <2>2. /\ journal' = Append(journal, w) /\ journal \in Seq(Writes)
        /\ overlay'[w.key] = w.val
        /\ \A k \in Keys : k # w.key => overlay'[k] = overlay[k]
    BY <1>0, <1>1 DEF Record, ContentTypes
  <2>3. ASSUME NEW k \in Keys
        PROVE  /\ Touches(journal', k) = {} => overlay'[k] = Absent
               /\ \A i \in Touches(journal', k) :
                     IsLatest(journal', k, i) => overlay'[k] = journal'[i].val
    <3>1. CASE k # w.key
      <4>0. /\ Touches(Append(journal, w), k) = Touches(journal, k)
            /\ \A i \in Touches(journal, k) : Append(journal, w)[i] = journal[i]
        <5>1. journal \in Seq(Writes)
          BY <2>2
        <5>2. /\ k # w.key => /\ Touches(Append(journal, w), k) = Touches(journal, k)
                              /\ \A i \in Touches(journal, k) :
                                    Append(journal, w)[i] = journal[i]
              /\ k = w.key => /\ Len(journal) + 1 \in Touches(Append(journal, w), k)
                              /\ IsLatest(Append(journal, w), k, Len(journal) + 1)
                              /\ Append(journal, w)[Len(journal) + 1] = w
          BY <5>1, TouchesAppend, Zenon
        <5> QED BY <3>1, <5>2, Zenon
      <4>1. /\ Touches(journal', k) = Touches(journal, k)
            /\ \A i \in Touches(journal, k) : journal'[i] = journal[i]
        BY <2>2, <4>0, Zenon
      <4>2. \A i \in Touches(journal, k) : IsLatest(journal', k, i) => IsLatest(journal, k, i)
        BY <4>1 DEF IsLatest
      <4> QED BY <2>2, <3>1, <4>1, <4>2 DEF OverlayInv
    <3>2. CASE k = w.key
      <4>1. ASSUME NEW i \in Touches(journal', k), IsLatest(journal', k, i)
            PROVE  i = Len(journal) + 1
        <5>1. /\ Len(journal) + 1 \in Touches(journal', k)
              /\ IsLatest(journal', k, Len(journal) + 1)
          BY <2>2, <3>2, TouchesAppend
        <5>2. i \in Int /\ Len(journal) + 1 \in Int
          BY <2>2, <4>1 DEF Touches
        <5> QED BY <4>1, <5>1, <5>2 DEF IsLatest
      <4> QED BY <2>2, <3>2, <4>1, TouchesAppend
    <3> QED BY <3>1, <3>2
  <2> QED BY <2>1, <2>3 DEF OverlayInv
<1>2. CASE ~buffered
  <2>1. data' \in Contents
    BY <1>0, <1>2 DEF Record, ContentTypes, Contents, Stored
  <2>2. UNCHANGED <<journal, overlay, buffered, torn>>
    BY <1>2 DEF Record
  <2> QED BY <2>1, <2>2 DEF ContentTypes, OverlayInv
<1> QED BY <1>1, <1>2 DEF ContentTypes

\* Sync, Configure and Crash: a prefix lands and the queue is emptied.
LEMMA LandKeeps ==
    ASSUME DiskInv, NEW ws \in Seq(Writes), data' = Replay(data, ws),
           journal' = <<>>, overlay' = NoOverlay,
           buffered' \in BOOLEAN, torn' \in BOOLEAN
    PROVE  DiskInv'
<1>1. data' \in Contents
  BY ReplayType DEF DiskInv, ContentTypes
<1>2. ContentTypes'
  BY <1>1 DEF ContentTypes, NoOverlay
<1> QED BY <1>2, EmptyQueue DEF DiskInv

LEMMA PrefixType ==
    ASSUME ContentTypes, NEW n \in 0 .. Len(journal)
    PROVE  SubSeq(journal, 1, n) \in Seq(Writes)
BY DEF ContentTypes

LEMMA DiskStep == DiskInv /\ [Next]_vars => DiskInv'
<1> SUFFICES ASSUME DiskInv, [Next]_vars PROVE DiskInv'
  OBVIOUS
<1>0. /\ journal \in Seq(Writes) /\ buffered \in BOOLEAN /\ torn \in BOOLEAN
  BY DEF DiskInv, ContentTypes
<1>1. ASSUME NEW k \in Keys, NEW v \in Values, SetItem(k, v) PROVE DiskInv'
  BY <1>1, RecordKeeps DEF SetItem, Writes
<1>2. ASSUME NEW k \in Keys, DelItem(k) PROVE DiskInv'
  BY <1>2, RecordKeeps DEF DelItem, Writes
<1>3. CASE Sync
  BY <1>0, <1>3, LandKeeps DEF Sync, Flush
<1>4. ASSUME NEW b \in BOOLEAN, NEW t \in BOOLEAN, Configure(b, t) PROVE DiskInv'
  BY <1>0, <1>4, LandKeeps DEF Configure, Flush
<1>5. ASSUME NEW kept \in 0 .. Len(journal), Crash(kept) PROVE DiskInv'
  BY <1>0, <1>5, LandKeeps, PrefixType DEF Crash, DiskInv
<1>6. CASE UNCHANGED vars
  BY <1>6 DEF vars, DiskInv, ContentTypes, OverlayInv, Touches, IsLatest
<1> QED BY <1>1, <1>2, <1>3, <1>4, <1>5, <1>6 DEF Next

\* The overlay invariant says what a read returns.
LEMMA OverlayShowsJournal == DiskInv => ReadsOwnWrites
<1> SUFFICES ASSUME DiskInv, NEW k \in Keys PROVE Lookup(k) = Replay(data, journal)[k]
  BY DEF ReadsOwnWrites
<1>0. journal \in Seq(Writes)
  BY DEF DiskInv, ContentTypes
<1>1. CASE Touches(journal, k) = {}
  BY <1>0, <1>1, ReplayAt DEF DiskInv, OverlayInv, Lookup
<1>2. CASE Touches(journal, k) # {}
  <2>1. PICK i \in Touches(journal, k) : IsLatest(journal, k, i)
    BY <1>0, <1>2, LatestExists
  <2>2. overlay[k] = journal[i].val /\ journal[i].val # Absent
    <3>1. overlay[k] = journal[i].val /\ i \in DOMAIN journal
      BY <2>1 DEF DiskInv, OverlayInv, Touches
    <3>2. journal[i] \in Writes
      BY <1>0, <3>1
    <3> QED BY <3>1, <3>2, DiskAssumption DEF Writes
  <2> QED BY <1>0, <2>1, <2>2, ReplayAt DEF Lookup
<1> QED BY <1>1, <1>2

\* The inductive invariant of the disk.
THEOREM DiskInvariant == Spec => []DiskInv
BY DiskInit, DiskStep, PTL DEF Spec

\* A host reads its own writes: what __getitem__ finds through the overlay is
\* what a sync of the journal would leave, whatever was written and crashed.
THEOREM OwnWritesRead == Spec => []ReadsOwnWrites
BY DiskInvariant, OverlayShowsJournal, PTL

-----------------------------------------------------------------------------
\* The refinement.

LEMMA VersionsShape ==
    ASSUME ContentTypes
    PROVE  /\ Versions \in Seq(Contents) /\ Len(Versions) = Len(journal) + 1
           /\ Versions[Len(journal) + 1] = Replay(data, journal)
<1>0. journal \in Seq(Writes) /\ Len(journal) \in Nat /\ data \in Contents
  BY DEF ContentTypes
<1>1. ASSUME NEW n \in 1 .. Len(journal) + 1
      PROVE  Replay(data, SubSeq(journal, 1, n - 1)) \in Contents
  <2>1. SubSeq(journal, 1, n - 1) \in Seq(Writes)
    BY <1>0, PrefixType
  <2> QED BY <1>0, <2>1, ReplayType
<1>2. SubSeq(journal, 1, (Len(journal) + 1) - 1) = journal
  BY <1>0
<1>3. Versions \in [1 .. Len(journal) + 1 -> Contents]
  BY <1>1 DEF Versions
<1>4. Versions \in Seq(Contents) /\ Len(Versions) = Len(journal) + 1
  BY <1>0, <1>3
<1>5. Versions[Len(journal) + 1] = Replay(data, SubSeq(journal, 1, (Len(journal) + 1) - 1))
  BY <1>0 DEF Versions
<1> QED BY <1>2, <1>4, <1>5

\* With an empty journal there is one version, the durable one.
LEMMA OneVersion ==
    ASSUME NEW d \in Contents
    PROVE  [n \in 1 .. Len(<<>>) + 1 |-> Replay(d, SubSeq(<<>>, 1, n - 1))] = <<d>>
<1>1. SubSeq(<<>>, 1, 1 - 1) = <<>>
  OBVIOUS
<1>2. Replay(d, SubSeq(<<>>, 1, 1 - 1)) = d
  BY <1>1, ReplayNothing
<1>3. \A n \in 1 .. 1 : n = 1
  OBVIOUS
<1>4. [n \in 1 .. 1 |-> Replay(d, SubSeq(<<>>, 1, n - 1))] = [n \in 1 .. 1 |-> d]
  BY <1>2, <1>3
<1> QED BY <1>4

LEMMA RecordRefines ==
    ASSUME DiskInv, NEW w \in Writes, Record(w),
           w.val = Deleted => Lookup(w.key) # Absent
    PROVE  Promise!Change(w.key, Stored(w.val))
<1>0. /\ journal \in Seq(Writes) /\ Len(journal) \in Nat /\ data \in Contents
      /\ w.key \in Keys /\ w.val \in Values \cup {Deleted}
  BY DEF DiskInv, ContentTypes, Writes
<1>1. Versions \in Seq(Contents) /\ Promise!Newest = Replay(data, journal)
  BY VersionsShape DEF DiskInv, Promise!Newest
<1>2. Stored(w.val) = Absent => Promise!Newest[w.key] # Absent
  BY <1>0, <1>1, OverlayShowsJournal, DiskAssumption DEF ReadsOwnWrites, Stored
<1>3. CASE buffered
  <2>1. journal' = Append(journal, w) /\ data' = data
    BY <1>3 DEF Record
  <2>2. journal' \in Seq(Writes) /\ Len(journal') = Len(journal) + 1
    BY <1>0, <2>1
  <2>3. ASSUME NEW n \in 1 .. Len(journal) + 1
        PROVE  SubSeq(journal', 1, n - 1) = SubSeq(journal, 1, n - 1)
    BY <1>0, <2>1
  <2>4. SubSeq(journal', 1, (Len(journal) + 2) - 1) = Append(journal, w)
    BY <1>0, <2>1, <2>2
  <2>5. Replay(data, Append(journal, w))
          = [Replay(data, journal) EXCEPT ![w.key] = Stored(w.val)]
    BY <1>0, ReplayAppend
  <2>6. Versions' = Append(Versions, [Promise!Newest EXCEPT ![w.key] = Stored(w.val)])
    <3> DEFINE new == [Promise!Newest EXCEPT ![w.key] = Stored(w.val)]
    <3>1. Versions' = [n \in 1 .. Len(journal) + 2 |-> Replay(data, SubSeq(journal', 1, n - 1))]
      BY <1>0, <2>1, <2>2 DEF Versions
    <3>2. ASSUME NEW n \in 1 .. Len(journal) + 1
          PROVE  Versions'[n] = Versions[n]
      <4>1. Versions'[n] = Replay(data, SubSeq(journal', 1, n - 1))
        BY <1>0, <3>1
      <4>2. Versions[n] = Replay(data, SubSeq(journal, 1, n - 1))
        BY <1>0 DEF Versions
      <4> QED BY <4>1, <4>2, <2>3
    <3>3. Versions'[Len(journal) + 2] = new
      <4>1. Versions'[Len(journal) + 2] = Replay(data, SubSeq(journal', 1, (Len(journal) + 2) - 1))
        BY <1>0, <3>1
      <4> QED BY <1>1, <2>4, <2>5, <4>1
    <3>4. Len(Versions) = Len(journal) + 1
      BY VersionsShape DEF DiskInv
    <3>5. Append(Versions, new) = [n \in 1 .. Len(journal) + 2 |->
                                     IF n = Len(journal) + 2 THEN new ELSE Versions[n]]
      BY <1>0, <1>1, <3>4
    <3>6. \A n \in 1 .. Len(journal) + 2 :
             Versions'[n] = IF n = Len(journal) + 2 THEN new ELSE Versions[n]
      BY <1>0, <3>2, <3>3
    <3> HIDE DEF new
    <3>7. Versions' = [n \in 1 .. Len(journal) + 2 |->
                         IF n = Len(journal) + 2 THEN new ELSE Versions[n]]
      BY <3>1, <3>6
    <3> QED BY <3>5, <3>7 DEF new
  <2> QED BY <1>2, <1>3, <2>6 DEF Promise!Change, Record
<1>4. CASE ~buffered
  <2>1. journal = <<>> /\ journal' = <<>> /\ data' = [data EXCEPT ![w.key] = Stored(w.val)]
    BY <1>4 DEF Record, DiskInv, ContentTypes
  <2>2. data' \in Contents /\ Replay(data, journal) = data
    BY <1>0, <2>1, ReplayNothing DEF Contents, Stored
  <2>3. Versions' = <<data'>>
    BY <2>1, <2>2, OneVersion DEF Versions
  <2> QED BY <1>1, <1>2, <1>4, <2>1, <2>2, <2>3 DEF Promise!Change, Record
<1> QED BY <1>3, <1>4

\* A landing prefix is one of the versions.
LEMMA LandRefines ==
    ASSUME DiskInv, NEW n \in 0 .. Len(journal),
           data' = Replay(data, SubSeq(journal, 1, n)), journal' = <<>>
    PROVE  Versions' = <<Versions[n + 1]>> /\ n + 1 \in 1 .. Len(Versions)
<1>0. journal \in Seq(Writes) /\ Len(journal) \in Nat /\ data \in Contents
  BY DEF DiskInv, ContentTypes
<1>1. data' \in Contents
  BY <1>0, PrefixType, ReplayType DEF DiskInv
<1>2. Versions' = <<data'>>
  BY <1>1, OneVersion DEF Versions
<1>3. n + 1 \in 1 .. Len(journal) + 1 /\ (n + 1) - 1 = n
  BY <1>0
<1>4. Versions[n + 1] = data'
  BY <1>3 DEF Versions
<1> QED BY <1>2, <1>3, <1>4, VersionsShape DEF DiskInv

LEMMA StepRefines ==
    DiskInv /\ [Next]_vars => [Promise!Next]_<<Versions, buffered, torn>>
<1> SUFFICES ASSUME DiskInv, [Next]_vars
             PROVE  [Promise!Next]_<<Versions, buffered, torn>>
  OBVIOUS
<1>0. journal \in Seq(Writes) /\ Len(journal) \in Nat /\ torn \in BOOLEAN
      /\ SubSeq(journal, 1, Len(journal)) = journal
  BY DEF DiskInv, ContentTypes
<1>1. ASSUME NEW k \in Keys, NEW v \in Values, SetItem(k, v) PROVE Promise!Next
  <2>1. Promise!Change(k, Stored(v))
    BY <1>1, RecordRefines, DiskAssumption DEF SetItem, Writes
  <2> QED BY <2>1, DiskAssumption DEF Promise!Next, Stored
<1>2. ASSUME NEW k \in Keys, DelItem(k) PROVE Promise!Next
  <2>1. Promise!Change(k, Stored(Deleted))
    BY <1>2, RecordRefines DEF DelItem, Writes
  <2> QED BY <2>1 DEF Promise!Next, Stored
<1>3. CASE Sync \/ \E b, t \in BOOLEAN : Configure(b, t)
  <2>a. Flush
    BY <1>3 DEF Sync, Configure
  <2>0. Len(journal) \in 0 .. Len(journal) /\ journal' = <<>>
        /\ data' = Replay(data, SubSeq(journal, 1, Len(journal)))
    <3>1. data' = Replay(data, SubSeq(journal, 1, Len(journal)))
      BY <1>0, <2>a, Zenon DEF Flush
    <3>2. Len(journal) \in 0 .. Len(journal)
      BY <1>0
    <3> QED BY <2>a, <3>1, <3>2 DEF Flush
  <2>1. Versions' = <<Versions[Len(journal) + 1]>>
    BY <2>0, LandRefines
  <2>2. Versions' = <<Promise!Newest>>
    BY <2>1, VersionsShape DEF Promise!Newest, DiskInv
  <2>3. CASE Sync
    BY <2>2, <2>3 DEF Sync, Promise!Next, Promise!Sync
  <2>4. ASSUME NEW b \in BOOLEAN, NEW t \in BOOLEAN, Configure(b, t) PROVE Promise!Next
    BY <2>2, <2>4 DEF Configure, Promise!Next, Promise!Configure
  <2> QED BY <1>3, <2>3, <2>4
<1>4. ASSUME NEW kept \in 0 .. Len(journal), Crash(kept) PROVE Promise!Next
  <2>1. Versions' = <<Versions[kept + 1]>> /\ kept + 1 \in 1 .. Len(Versions)
    BY <1>4, LandRefines DEF Crash
  <2>2. kept + 1 = 1 \/ torn
    BY <1>4 DEF Crash
  <2> QED BY <1>4, <2>1, <2>2 DEF Crash, Promise!Next, Promise!Crash
<1>5. CASE UNCHANGED vars
  BY <1>5 DEF vars, Versions, Replay, Touches, IsLatest
<1> QED BY <1>1, <1>2, <1>3, <1>4, <1>5 DEF Next

\* The journal, the overlay and the two kinds of crash implement a disk whose
\* crash keeps the durable version or, torn, some version since: what
\* survives is always a prefix of what was written.
THEOREM DiskRefines == Spec => ImplementsCrashSafeDisk
<1>1. Init => Promise!Init
  <2> SUFFICES ASSUME Init PROVE Promise!Init
    OBVIOUS
  <2>1. data \in Contents
    BY DEF Init, NoOverlay, Contents
  <2> QED BY <2>1, OneVersion DEF Init, Promise!Init, Versions, NoOverlay
<1> QED BY <1>1, StepRefines, DiskInvariant, PTL
       DEF Spec, ImplementsCrashSafeDisk, Promise!Spec

-----------------------------------------------------------------------------
(***************************************************************************)
(* Listings: the keys of a dict, each once, in their order.                *)
(***************************************************************************)
Lists(s, K) == s \in Seq(Keys) /\ IsInjective(s) /\ ToSet(s) = K

\* Membership, by position.
LEMMA ListIs ==
    ASSUME NEW s \in Seq(Keys)
    PROVE  /\ Len(s) \in Nat /\ DOMAIN s = 1 .. Len(s)
           /\ \A x : x \in ToSet(s) <=> \E i \in 1 .. Len(s) : x = s[i]
           /\ \A i \in 1 .. Len(s) : s[i] \in Keys
           /\ IsInjective(s) <=> \A i, j \in 1 .. Len(s) : s[i] = s[j] => i = j
<1>1. Len(s) \in Nat /\ DOMAIN s = 1 .. Len(s) /\ s \in [1 .. Len(s) -> Keys]
  BY LenProperties
<1>2. \A x : x \in ToSet(s) <=> \E i \in 1 .. Len(s) : x = s[i]
  BY <1>1, Zenon DEF ToSet
<1>3. \A i \in 1 .. Len(s) : s[i] \in Keys
  BY <1>1
<1>4. IsInjective(s) <=> \A i, j \in 1 .. Len(s) : s[i] = s[j] => i = j
  BY <1>1, Zenon DEF IsInjective
<1> QED BY <1>1, <1>2, <1>3, <1>4

LEMMA NothingListed == Lists(<<>>, {})
<1>1. <<>> \in Seq(Keys) /\ Len(<<>>) = 0
  OBVIOUS
<1>2. IsInjective(<<>>)
  BY DEF IsInjective
<1>3. ToSet(<<>>) = {}
  BY DEF ToSet
<1> QED BY <1>1, <1>2, <1>3 DEF Lists

\* A new key, listed last.
LEMMA ListedLast ==
    ASSUME NEW s, NEW K, Lists(s, K), NEW k \in Keys, k \notin K
    PROVE  Lists(Append(s, k), K \cup {k})
<1>1. s \in Seq(Keys) /\ IsInjective(s) /\ ToSet(s) = K
  BY DEF Lists
<1>2. PICK n \in Nat : n = Len(s)
  BY <1>1, ListIs
<1>3. PICK t : t = Append(s, k)
  OBVIOUS
<1>4. /\ t \in Seq(Keys) /\ Len(t) = n + 1 /\ t[n + 1] = k
      /\ \A i \in 1 .. n : t[i] = s[i]
  BY <1>1, <1>2, <1>3
<1>5. /\ \A x : x \in K <=> \E i \in 1 .. n : x = s[i]
      /\ \A i, j \in 1 .. n : s[i] = s[j] => i = j
  BY <1>1, <1>2, ListIs
<1>6. ASSUME NEW x PROVE x \in ToSet(t) <=> x \in K \cup {k}
  <2>1. x \in ToSet(t) <=> \E i \in 1 .. n + 1 : x = t[i]
    <3>1. x \in ToSet(t) <=> \E i \in 1 .. Len(t) : x = t[i]
      BY <1>4, ListIs
    <3> QED BY <1>4, <3>1
  <2>2. \A i : i \in 1 .. n + 1 <=> i \in 1 .. n \/ i = n + 1
    BY <1>2
  <2> QED BY <1>4, <1>5, <2>1, <2>2
<1>7. ASSUME NEW i \in 1 .. n + 1, NEW j \in 1 .. n + 1, t[i] = t[j] PROVE i = j
  <2>1. \A m \in 1 .. n : s[m] # k
    BY <1>5
  <2>2. \A m \in 1 .. n + 1 : m \in 1 .. n \/ m = n + 1
    BY <1>2
  <2>3. CASE i \in 1 .. n /\ j \in 1 .. n
    BY <1>4, <1>5, <1>7, <2>3
  <2>4. CASE i = n + 1 \/ j = n + 1
    BY <1>4, <1>7, <2>1, <2>2, <2>4
  <2> QED BY <2>2, <2>3, <2>4
<1>8. IsInjective(t)
  BY <1>4, <1>7, ListIs
<1>9. ToSet(t) = K \cup {k}
  BY <1>6
<1> QED BY <1>3, <1>4, <1>8, <1>9 DEF Lists

\* Two listings of different keys, one after the other.
LEMMA ListedAfter ==
    ASSUME NEW s, NEW K, Lists(s, K), NEW t, NEW L, Lists(t, L), K \cap L = {}
    PROVE  Lists(s \o t, K \cup L)
<1>1. s \in Seq(Keys) /\ IsInjective(s) /\ ToSet(s) = K
  BY DEF Lists
<1>2. t \in Seq(Keys) /\ IsInjective(t) /\ ToSet(t) = L
  BY DEF Lists
<1>3. PICK m \in Nat, n \in Nat : m = Len(s) /\ n = Len(t)
  BY <1>1, <1>2, ListIs
<1>4. PICK u : u = s \o t
  OBVIOUS
<1>5. u \in Seq(Keys) /\ Len(u) = m + n
  BY <1>1, <1>2, <1>3, <1>4, ConcatProperties
<1>6. \A i \in 1 .. m + n : u[i] = IF i <= m THEN s[i] ELSE t[i - m]
  <2>1. \A i \in 1 .. Len(s) + Len(t) : (s \o t)[i] = IF i <= Len(s) THEN s[i] ELSE t[i - Len(s)]
    BY <1>1, <1>2, ConcatProperties
  <2> QED BY <1>3, <1>4, <2>1
<1>7. /\ \A x : x \in K <=> \E i \in 1 .. m : x = s[i]
      /\ \A i, j \in 1 .. m : s[i] = s[j] => i = j
  BY <1>1, <1>3, ListIs
<1>8. /\ \A x : x \in L <=> \E i \in 1 .. n : x = t[i]
      /\ \A i, j \in 1 .. n : t[i] = t[j] => i = j
  BY <1>2, <1>3, ListIs
<1>9. ASSUME NEW i \in 1 .. m + n
      PROVE  \/ i \in 1 .. m /\ u[i] = s[i] /\ u[i] \in K
             \/ i - m \in 1 .. n /\ u[i] = t[i - m] /\ u[i] \in L
  <2>1. CASE i <= m
    <3>1. i \in 1 .. m
      BY <1>3, <2>1
    <3> QED BY <1>6, <1>7, <2>1, <3>1
  <2>2. CASE ~(i <= m)
    <3>1. i - m \in 1 .. n
      BY <1>3, <2>2
    <3> QED BY <1>6, <1>8, <2>2, <3>1
  <2> QED BY <2>1, <2>2
<1>10. ASSUME NEW x PROVE x \in ToSet(u) <=> x \in K \cup L
  <2>1. x \in ToSet(u) <=> \E i \in 1 .. m + n : x = u[i]
    <3>1. x \in ToSet(u) <=> \E i \in 1 .. Len(u) : x = u[i]
      BY <1>5, ListIs
    <3> QED BY <1>5, <3>1
  <2>2. ASSUME x \in K PROVE \E i \in 1 .. m + n : x = u[i]
    <3>1. PICK i \in 1 .. m : x = s[i]
      BY <1>7, <2>2
    <3>2. i \in 1 .. m + n /\ i <= m
      BY <1>3
    <3> QED BY <1>6, <3>1, <3>2
  <2>3. ASSUME x \in L PROVE \E i \in 1 .. m + n : x = u[i]
    <3>1. PICK j \in 1 .. n : x = t[j]
      BY <1>8, <2>3
    <3>2. m + j \in 1 .. m + n /\ ~(m + j <= m) /\ (m + j) - m = j
      BY <1>3
    <3>3. u[m + j] = t[j]
      BY <1>6, <3>2
    <3> QED BY <3>1, <3>2, <3>3
  <2> QED BY <1>9, <2>1, <2>2, <2>3
<1>11. ASSUME NEW i \in 1 .. m + n, NEW j \in 1 .. m + n, u[i] = u[j] PROVE i = j
  <2>1. CASE u[i] \in K
    <3>1. u[i] \notin L /\ u[j] \notin L
      BY <1>11, <2>1
    <3>2. i \in 1 .. m /\ u[i] = s[i] /\ j \in 1 .. m /\ u[j] = s[j]
      BY <1>9, <3>1
    <3> QED BY <1>7, <1>11, <3>2
  <2>2. CASE u[i] \notin K
    <3>1. i - m \in 1 .. n /\ u[i] = t[i - m] /\ j - m \in 1 .. n /\ u[j] = t[j - m]
      BY <1>9, <1>11, <2>2
    <3>2. i - m = j - m
      BY <1>8, <1>11, <3>1
    <3> QED BY <1>3, <3>2
  <2> QED BY <2>1, <2>2
<1>12. IsInjective(u)
  BY <1>5, <1>11, ListIs
<1>13. ToSet(u) = K \cup L
  BY <1>10
<1> QED BY <1>4, <1>5, <1>12, <1>13 DEF Lists

\* A value after each of N steps.
Walk(f, N, X, base, step) ==
    f \in [0 .. N -> X] /\ f[0] = base /\ \A n \in 1 .. N : f[n] = step[n][f[n - 1]]

\* So a function defined by recursion over 0 .. N exists.
LEMMA Stepwise ==
    ASSUME NEW N \in Nat, NEW X, NEW base \in X, NEW step \in [1 .. N -> [X -> X]]
    PROVE  \E f : Walk(f, N, X, base, step)
<1> DEFINE Upto(f, m) == Walk(f, m, X, base, step)
           Short == {m \in 0 .. N : \A f : ~Upto(f, m)}
<1>1. SUFFICES Short = {}
  <2>1. N \in 0 .. N
    OBVIOUS
  <2> QED BY <2>1
<1>2. SUFFICES ASSUME Short # {} PROVE FALSE
  OBVIOUS
<1>3. PICK p \in Short : \A q \in Short : p <= q
  <2>1. Short \in SUBSET Nat
    OBVIOUS
  <2> HIDE DEF Short
  <2> QED BY <1>2, <2>1, LeastExists
<1>4. p \in 0 .. N /\ \A f : ~Upto(f, p)
  BY <1>3
<1>5. CASE p = 0
  <2>1. PICK f : f = [n \in 0 .. 0 |-> base]
    OBVIOUS
  <2>2. Upto(f, 0)
    BY <2>1 DEF Walk
  <2> QED BY <1>4, <1>5, <2>2
<1>6. CASE p > 0
  <2>1. p - 1 \in 0 .. N /\ ~(p <= p - 1) /\ p \in 1 .. N
    BY <1>4, <1>6
  <2>2. PICK f : Upto(f, p - 1)
    <3>1. p - 1 \notin Short
      BY <1>3, <2>1
    <3> HIDE DEF Upto
    <3> QED BY <2>1, <3>1
  <2>3. f[p - 1] \in X /\ step[p] \in [X -> X]
    BY <2>1, <2>2 DEF Walk
  <2>4. PICK g : g = [n \in 0 .. p |-> IF n = p THEN step[p][f[p - 1]] ELSE f[n]]
    OBVIOUS
  <2>5. \A n \in 0 .. p - 1 : g[n] = f[n] /\ f[n] \in X
    BY <1>4, <2>1, <2>2, <2>4 DEF Walk
  <2>6. g[p] = step[p][f[p - 1]] /\ step[p][f[p - 1]] \in X
    BY <1>4, <2>3, <2>4
  <2>7. g \in [0 .. p -> X]
    <3>1. \A n \in 0 .. p : n = p \/ n \in 0 .. p - 1
      BY <1>4
    <3>2. \A n \in 0 .. p : g[n] \in X
      BY <2>5, <2>6, <3>1
    <3> QED BY <2>4, <3>2
  <2>8. g[0] = base
    BY <2>1, <2>2, <2>5 DEF Walk
  <2>9. ASSUME NEW n \in 1 .. p PROVE g[n] = step[n][g[n - 1]]
    <3>1. CASE n = p
      BY <1>4, <2>1, <2>5, <2>6, <3>1
    <3>2. CASE n # p
      <4>1. n \in 0 .. p - 1 /\ n - 1 \in 0 .. p - 1 /\ n \in 1 .. p - 1
        BY <1>4, <3>2
      <4>2. f[n] = step[n][f[n - 1]]
        BY <2>2, <4>1 DEF Walk
      <4> QED BY <2>5, <4>1, <4>2
    <3> QED BY <3>1, <3>2
  <2>10. Upto(g, p)
    BY <2>7, <2>8, <2>9 DEF Walk
  <2> QED BY <1>4, <2>10
<1> QED BY <1>4, <1>5, <1>6

\* Without, one key at a time.
LEMMA WithoutIs ==
    ASSUME NEW s \in Seq(Keys), NEW hidden
    PROVE  \E f : /\ f[0] = <<>> /\ Without(s, hidden) = f[Len(s)]
                  /\ \A n \in 1 .. Len(s) :
                        f[n] = IF s[n] \in hidden THEN f[n - 1] ELSE Append(f[n - 1], s[n])
<1> DEFINE Step(r, n) == IF s[n] \in hidden THEN r ELSE Append(r, s[n])
           Defines(f) == f = [n \in 0 .. Len(s) |-> IF n = 0 THEN <<>> ELSE Step(f[n - 1], n)]
<1>1. Len(s) \in Nat /\ \A n \in 1 .. Len(s) : s[n] \in Keys
  BY ListIs
<1>2. PICK step : step = [n \in 1 .. Len(s) |-> [r \in Seq(Keys) |-> Step(r, n)]]
  OBVIOUS
<1>3. step \in [1 .. Len(s) -> [Seq(Keys) -> Seq(Keys)]]
  <2>1. ASSUME NEW n \in 1 .. Len(s), NEW r \in Seq(Keys) PROVE Step(r, n) \in Seq(Keys)
    <3>1. s[n] \in Keys
      BY <1>1
    <3>2. Append(r, s[n]) \in Seq(Keys)
      BY <3>1
    <3> QED BY <3>2
  <2> HIDE DEF Step
  <2> QED BY <1>2, <2>1
<1>4. <<>> \in Seq(Keys)
  OBVIOUS
<1>5. PICK g : Walk(g, Len(s), Seq(Keys), <<>>, step)
  <2>1. Len(s) \in Nat
    BY <1>1
  <2> QED BY <1>3, <1>4, <2>1, Stepwise
<1>6. Defines(g)
  <2>1. ASSUME NEW n \in 0 .. Len(s) PROVE g[n] = IF n = 0 THEN <<>> ELSE Step(g[n - 1], n)
    <3>1. CASE n = 0
      BY <1>1, <1>5, <3>1 DEF Walk
    <3>2. CASE n # 0
      <4>1. n \in 1 .. Len(s) /\ n - 1 \in 0 .. Len(s)
        BY <1>1, <3>2
      <4>2. g[n - 1] \in Seq(Keys)
        BY <1>5, <4>1 DEF Walk
      <4>3. step[n][g[n - 1]] = Step(g[n - 1], n)
        BY <1>2, <4>1, <4>2
      <4>4. g[n] = step[n][g[n - 1]]
        BY <1>5, <4>1 DEF Walk
      <4> HIDE DEF Step
      <4> QED BY <3>2, <4>3, <4>4
    <3> QED BY <3>1, <3>2
  <2> HIDE DEF Step
  <2> QED BY <1>5, <2>1 DEF Walk
<1>7. PICK f : f = CHOOSE h : Defines(h)
  OBVIOUS
<1>8. Defines(f)
  <2> HIDE DEF Defines
  <2> QED BY <1>6, <1>7
<1>9. Without(s, hidden) = f[Len(s)]
  BY <1>7 DEF Without
<1>10. f[0] = <<>>
  BY <1>1, <1>8
<1>11. ASSUME NEW n \in 1 .. Len(s) PROVE f[n] = Step(f[n - 1], n)
  <2>1. n \in 0 .. Len(s) /\ n # 0
    BY <1>1
  <2> HIDE DEF Step
  <2> QED BY <1>8, <2>1
<1> QED BY <1>9, <1>10, <1>11

LEMMA WithoutLists ==
    ASSUME NEW s, NEW K, Lists(s, K), NEW hidden
    PROVE  Lists(Without(s, hidden), K \ hidden)
<1>1. s \in Seq(Keys) /\ IsInjective(s) /\ ToSet(s) = K
  BY DEF Lists
<1>2. /\ Len(s) \in Nat /\ \A n \in 1 .. Len(s) : s[n] \in Keys
      /\ \A x : x \in K <=> \E i \in 1 .. Len(s) : x = s[i]
      /\ \A i, j \in 1 .. Len(s) : s[i] = s[j] => i = j
  BY <1>1, ListIs
<1>3. PICK f : /\ f[0] = <<>> /\ Without(s, hidden) = f[Len(s)]
               /\ \A n \in 1 .. Len(s) :
                     f[n] = IF s[n] \in hidden THEN f[n - 1] ELSE Append(f[n - 1], s[n])
  BY <1>1, WithoutIs
<1> DEFINE Upto(n) == {s[i] : i \in 1 .. n} \ hidden
           Fails == {n \in 0 .. Len(s) : ~Lists(f[n], Upto(n))}
<1>4. Fails = {}
  <2>1. SUFFICES ASSUME Fails # {} PROVE FALSE
    OBVIOUS
  <2>2. PICK p \in Fails : \A q \in Fails : p <= q
    <3>1. Fails \in SUBSET Nat
      BY <1>2
    <3> HIDE DEF Fails
    <3> QED BY <2>1, <3>1, LeastExists
  <2>3. p \in 0 .. Len(s) /\ ~Lists(f[p], Upto(p))
    BY <2>2
  <2>4. CASE p = 0
    <3>1. Upto(p) = {}
      BY <2>4
    <3> QED BY <1>3, <2>3, <2>4, <3>1, NothingListed
  <2>5. CASE p > 0
    <3>1. p - 1 \in 0 .. Len(s) /\ ~(p <= p - 1) /\ p \in 1 .. Len(s)
      BY <1>2, <2>3, <2>5
    <3>2. Lists(f[p - 1], Upto(p - 1))
      BY <2>2, <3>1
    <3>3. \A i : i \in 1 .. p <=> i \in 1 .. p - 1 \/ i = p
      BY <1>2, <3>1
    <3>4. CASE s[p] \in hidden
      <4>1. Upto(p) = Upto(p - 1)
        BY <3>3, <3>4
      <4>2. f[p] = f[p - 1]
        BY <1>3, <3>1, <3>4
      <4> QED BY <2>3, <3>2, <4>1, <4>2
    <3>5. CASE s[p] \notin hidden
      <4>1. Upto(p) = Upto(p - 1) \cup {s[p]}
        BY <3>3, <3>5
      <4>2. s[p] \notin Upto(p - 1)
        <5>1. \A i \in 1 .. p - 1 : i \in 1 .. Len(s) /\ i # p
          BY <1>2, <3>1
        <5> QED BY <1>2, <3>1, <5>1
      <4>3. f[p] = Append(f[p - 1], s[p]) /\ s[p] \in Keys
        BY <1>2, <1>3, <3>1, <3>5
      <4> HIDE DEF Upto
      <4> QED BY <2>3, <3>2, <4>1, <4>2, <4>3, ListedLast
    <3> QED BY <3>4, <3>5
  <2> QED BY <1>2, <2>3, <2>4, <2>5
<1>5. Lists(f[Len(s)], Upto(Len(s)))
  <2>1. Len(s) \in 0 .. Len(s)
    BY <1>2
  <2> HIDE DEF Upto
  <2> QED BY <1>4, <2>1
<1>6. Upto(Len(s)) = K \ hidden
  BY <1>2
<1> QED BY <1>3, <1>5, <1>6

\* The keys a dict has.
Present(d) == {k \in Keys : d[k] # Absent}

LEMMA PlacedLists ==
    ASSUME NEW s, NEW K, Lists(s, K), NEW w \in Writes
    PROVE  Lists(Placed(s, w), IF w.val = Deleted THEN K \ {w.key} ELSE K \cup {w.key})
<1>1. w.key \in Keys /\ s \in Seq(Keys) /\ ToSet(s) = K
  BY DEF Writes, Lists
<1>2. CASE w.val = Deleted
  BY <1>2, WithoutLists DEF Placed
<1>3. CASE w.val # Deleted /\ w.key \in K
  <2>1. Placed(s, w) = s /\ K \cup {w.key} = K
    BY <1>1, <1>3 DEF Placed
  <2> QED BY <1>3, <2>1
<1>4. CASE w.val # Deleted /\ w.key \notin K
  <2>1. Placed(s, w) = Append(s, w.key)
    BY <1>1, <1>4 DEF Placed
  <2> QED BY <1>1, <1>4, <2>1, ListedLast
<1> QED BY <1>2, <1>3, <1>4

\* The order follows the contents through one write.
LEMMA PlacedPresent ==
    ASSUME NEW d \in Contents, NEW s, Lists(s, Present(d)), NEW w \in Writes
    PROVE  Lists(Placed(s, w), Present([d EXCEPT ![w.key] = Stored(w.val)]))
<1>1. w.key \in Keys /\ w.val \in Values \cup {Deleted}
  BY DEF Writes
<1>2. PICK e : e = [d EXCEPT ![w.key] = Stored(w.val)]
  OBVIOUS
<1>3. e[w.key] = Stored(w.val) /\ \A k \in Keys : k # w.key => e[k] = d[k]
  BY <1>1, <1>2 DEF Contents
<1>4. Present(e) = IF w.val = Deleted THEN Present(d) \ {w.key} ELSE Present(d) \cup {w.key}
  <2>1. CASE w.val = Deleted
    BY <1>1, <1>3, <2>1 DEF Present, Stored
  <2>2. CASE w.val # Deleted
    <3>1. Stored(w.val) # Absent
      BY <1>1, <2>2, DiskAssumption DEF Stored
    <3> QED BY <1>1, <1>3, <2>2, <3>1 DEF Present
  <2> QED BY <2>1, <2>2
<1>5. PICK K : K = Present(d)
  OBVIOUS
<1>6. Lists(Placed(s, w), IF w.val = Deleted THEN K \ {w.key} ELSE K \cup {w.key})
  BY <1>5, PlacedLists
<1>7. Lists(Placed(s, w), Present(e))
  BY <1>4, <1>5, <1>6
<1> QED BY <1>2, <1>7

Listings == {s \in Seq(Keys) : IsInjective(s)}

\* OrderAfter, one write at a time.
LEMMA OrderAfterIs ==
    ASSUME NEW s \in Listings, NEW ws \in Seq(Writes)
    PROVE  \E f : /\ f[0] = s /\ OrderAfter(s, ws) = f[Len(ws)]
                  /\ \A n \in 1 .. Len(ws) : f[n] = Placed(f[n - 1], ws[n])
<1> DEFINE Defines(f) ==
             f = [n \in 0 .. Len(ws) |-> IF n = 0 THEN s ELSE Placed(f[n - 1], ws[n])]
<1>1. Len(ws) \in Nat /\ \A n \in 1 .. Len(ws) : ws[n] \in Writes
  BY LenProperties
<1>2. PICK step : step = [n \in 1 .. Len(ws) |-> [r \in Listings |-> Placed(r, ws[n])]]
  OBVIOUS
<1>3. step \in [1 .. Len(ws) -> [Listings -> Listings]]
  <2>1. ASSUME NEW n \in 1 .. Len(ws), NEW r \in Listings PROVE Placed(r, ws[n]) \in Listings
    <3>1. ws[n] \in Writes
      BY <1>1
    <3>2. PICK K : Lists(r, K)
      BY DEF Lists, Listings
    <3>3. \E L : Lists(Placed(r, ws[n]), L)
      BY <3>1, <3>2, PlacedLists
    <3> QED BY <3>3 DEF Lists, Listings
  <2> QED BY <1>2, <2>1
<1>4. PICK g : Walk(g, Len(ws), Listings, s, step)
  BY <1>1, <1>3, Stepwise
<1>5. Defines(g)
  <2>1. ASSUME NEW n \in 0 .. Len(ws) PROVE g[n] = IF n = 0 THEN s ELSE Placed(g[n - 1], ws[n])
    <3>1. CASE n = 0
      BY <1>4, <3>1 DEF Walk
    <3>2. CASE n # 0
      <4>1. n \in 1 .. Len(ws) /\ n - 1 \in 0 .. Len(ws)
        BY <1>1, <3>2
      <4>2. g[n - 1] \in Listings
        BY <1>4, <4>1 DEF Walk
      <4>3. step[n][g[n - 1]] = Placed(g[n - 1], ws[n])
        BY <1>2, <4>1, <4>2
      <4>4. g[n] = step[n][g[n - 1]]
        BY <1>4, <4>1 DEF Walk
      <4> QED BY <3>2, <4>3, <4>4
    <3> QED BY <3>1, <3>2
  <2> QED BY <1>4, <2>1 DEF Walk
<1>6. PICK f : f = CHOOSE h : Defines(h)
  OBVIOUS
<1>7. Defines(f)
  <2> HIDE DEF Defines
  <2> QED BY <1>5, <1>6
<1>8. OrderAfter(s, ws) = f[Len(ws)]
  BY <1>6 DEF OrderAfter
<1>9. f[0] = s
  BY <1>1, <1>7
<1>10. ASSUME NEW n \in 1 .. Len(ws) PROVE f[n] = Placed(f[n - 1], ws[n])
  <2>1. n \in 0 .. Len(ws) /\ n # 0
    BY <1>1
  <2> QED BY <1>7, <2>1
<1> QED BY <1>8, <1>9, <1>10

\* So the order lists what a replay leaves.
LEMMA ReplayListed ==
    ASSUME NEW d \in Contents, NEW s, Lists(s, Present(d)), NEW ws \in Seq(Writes)
    PROVE  Lists(OrderAfter(s, ws), Present(Replay(d, ws)))
<1>1. s \in Listings
  BY DEF Lists, Listings
<1>2. PICK f : /\ f[0] = s /\ OrderAfter(s, ws) = f[Len(ws)]
               /\ \A n \in 1 .. Len(ws) : f[n] = Placed(f[n - 1], ws[n])
  BY <1>1, OrderAfterIs
<1>3. Len(ws) \in Nat /\ \A n \in 1 .. Len(ws) : ws[n] \in Writes
  BY LenProperties
<1> DEFINE After(n) == Replay(d, SubSeq(ws, 1, n))
           Fails == {n \in 0 .. Len(ws) : ~Lists(f[n], Present(After(n)))}
<1>4. Fails = {}
  <2>1. SUFFICES ASSUME Fails # {} PROVE FALSE
    OBVIOUS
  <2>2. PICK p \in Fails : \A q \in Fails : p <= q
    <3>1. Fails \in SUBSET Nat
      BY <1>3
    <3> HIDE DEF Fails
    <3> QED BY <2>1, <3>1, LeastExists
  <2>3. p \in 0 .. Len(ws) /\ ~Lists(f[p], Present(After(p)))
    BY <2>2
  <2>4. CASE p = 0
    <3>1. SubSeq(ws, 1, 0) = <<>>
      OBVIOUS
    <3>2. After(p) = d
      BY <2>4, <3>1, ReplayNothing
    <3> HIDE DEF After
    <3> QED BY <1>2, <2>3, <2>4, <3>2
  <2>5. CASE p > 0
    <3>1. p - 1 \in 0 .. Len(ws) /\ ~(p <= p - 1) /\ p \in 1 .. Len(ws)
      BY <1>3, <2>3, <2>5
    <3>2. Lists(f[p - 1], Present(After(p - 1)))
      BY <2>2, <3>1
    <3>3. PICK us : us = SubSeq(ws, 1, p - 1)
      OBVIOUS
    <3>4. us \in Seq(Writes)
      BY <1>3, <3>1, <3>3
    <3>5. SubSeq(ws, 1, p) = Append(us, ws[p])
      BY <1>3, <3>1, <3>3
    <3>6. ws[p] \in Writes
      BY <1>3, <3>1
    <3>7. After(p) = [Replay(d, us) EXCEPT ![ws[p].key] = Stored(ws[p].val)]
      <4>1. PICK w \in Writes : w = ws[p]
        BY <3>6
      <4>2. Replay(d, Append(us, w)) = [Replay(d, us) EXCEPT ![w.key] = Stored(w.val)]
        BY <3>4, ReplayAppend
      <4> QED BY <3>5, <4>1, <4>2, Zenon
    <3>8. Replay(d, us) \in Contents
      BY <3>4, ReplayType
    <3>9. Lists(f[p - 1], Present(Replay(d, us)))
      BY <3>2, <3>3
    <3>10. f[p] = Placed(f[p - 1], ws[p])
      BY <1>2, <3>1
    <3>11. Lists(Placed(f[p - 1], ws[p]),
                 Present([Replay(d, us) EXCEPT ![ws[p].key] = Stored(ws[p].val)]))
      BY <3>6, <3>8, <3>9, PlacedPresent
    <3> HIDE DEF After
    <3> QED BY <2>3, <3>7, <3>10, <3>11
  <2> QED BY <1>3, <2>3, <2>4, <2>5
<1>5. Lists(f[Len(ws)], Present(After(Len(ws))))
  <2>1. Len(ws) \in 0 .. Len(ws)
    BY <1>3
  <2> HIDE DEF After
  <2> QED BY <1>4, <2>1
<1>6. SubSeq(ws, 1, Len(ws)) = ws
  OBVIOUS
<1> QED BY <1>2, <1>5, <1>6

-----------------------------------------------------------------------------
\* The keys beside the data and beside the overlay are theirs.
OrderInv == Lists(order, Present(data)) /\ Lists(written, Present(overlay))

LEMMA NoOverlayListed == Lists(<<>>, Present(NoOverlay))
<1>1. Present(NoOverlay) = {}
  BY DEF Present, NoOverlay
<1> QED BY <1>1, NothingListed

LEMMA RecordOrders ==
    ASSUME DiskInv, OrderInv, NEW w \in Writes, Record(w)
    PROVE  OrderInv'
<1>1. /\ w.key \in Keys /\ w.val \in Values \cup {Deleted} /\ data \in Contents
      /\ overlay \in [Keys -> Values \cup {Deleted, Absent}]
  BY DEF Writes, DiskInv, ContentTypes
<1>2. CASE buffered
  <2>1. /\ overlay' = [overlay EXCEPT ![w.key] = w.val]
        /\ written' = IF w.key \in ToSet(written) THEN written ELSE Append(written, w.key)
        /\ data' = data /\ order' = order
    BY <1>2 DEF Record
  <2>2. Present(overlay)' = Present(overlay) \cup {w.key}
    <3>1. w.val # Absent
      BY <1>1, DiskAssumption
    <3> QED BY <1>1, <2>1, <3>1 DEF Present
  <2>3. ToSet(written) = Present(overlay)
    BY DEF OrderInv, Lists
  <2>4. Lists(written', Present(overlay) \cup {w.key})
    <3>1. CASE w.key \in Present(overlay)
      <4>1. written' = written /\ Present(overlay) \cup {w.key} = Present(overlay)
        BY <2>1, <2>3, <3>1
      <4> QED BY <4>1 DEF OrderInv
    <3>2. CASE w.key \notin Present(overlay)
      <4>1. written' = Append(written, w.key)
        BY <2>1, <2>3, <3>2
      <4> QED BY <1>1, <3>2, <4>1, ListedLast DEF OrderInv
    <3> QED BY <3>1, <3>2
  <2>5. Present(data)' = Present(data)
    BY <2>1 DEF Present
  <2> QED BY <2>1, <2>2, <2>4, <2>5 DEF OrderInv, Lists
<1>3. CASE ~buffered
  <2>1. /\ data' = [data EXCEPT ![w.key] = Stored(w.val)] /\ order' = Placed(order, w)
        /\ overlay' = overlay /\ written' = written
    BY <1>3 DEF Record
  <2>2. Lists(Placed(order, w), Present([data EXCEPT ![w.key] = Stored(w.val)]))
    BY <1>1, PlacedPresent DEF OrderInv
  <2>3. /\ Present(data)' = Present([data EXCEPT ![w.key] = Stored(w.val)])
        /\ Present(overlay)' = Present(overlay)
    BY <2>1 DEF Present
  <2> QED BY <2>1, <2>2, <2>3 DEF OrderInv, Lists
<1> QED BY <1>2, <1>3

LEMMA LandOrders ==
    ASSUME DiskInv, OrderInv, NEW ws \in Seq(Writes), data' = Replay(data, ws),
           order' = OrderAfter(order, ws), written' = <<>>, overlay' = NoOverlay
    PROVE  OrderInv'
<1>1. Lists(OrderAfter(order, ws), Present(Replay(data, ws)))
  BY ReplayListed DEF DiskInv, ContentTypes, OrderInv
<1>2. Present(data)' = Present(Replay(data, ws)) /\ Present(overlay)' = Present(NoOverlay)
  BY DEF Present
<1> QED BY <1>1, <1>2, NoOverlayListed DEF OrderInv, Lists

LEMMA OrderStarts == Init => OrderInv
<1> SUFFICES ASSUME Init PROVE OrderInv
  OBVIOUS
<1> QED BY NoOverlayListed DEF Init, OrderInv

LEMMA OrderStep == DiskInv /\ OrderInv /\ [Next]_vars => OrderInv'
<1> SUFFICES ASSUME DiskInv, OrderInv, [Next]_vars PROVE OrderInv'
  OBVIOUS
<1>0. journal \in Seq(Writes)
  BY DEF DiskInv, ContentTypes
<1>1. ASSUME NEW k \in Keys, NEW v \in Values, SetItem(k, v) PROVE OrderInv'
  BY <1>1, RecordOrders DEF SetItem, Writes
<1>2. ASSUME NEW k \in Keys, DelItem(k) PROVE OrderInv'
  BY <1>2, RecordOrders DEF DelItem, Writes
<1>3. CASE Sync
  BY <1>0, <1>3, LandOrders DEF Sync, Flush
<1>4. ASSUME NEW b \in BOOLEAN, NEW t \in BOOLEAN, Configure(b, t) PROVE OrderInv'
  BY <1>0, <1>4, LandOrders DEF Configure, Flush
<1>5. ASSUME NEW kept \in 0 .. Len(journal), Crash(kept) PROVE OrderInv'
  BY <1>0, <1>5, LandOrders, PrefixType DEF Crash, DiskInv
<1>6. CASE UNCHANGED vars
  BY <1>6 DEF vars, OrderInv, Lists, Present, IsInjective, ToSet
<1> QED BY <1>1, <1>2, <1>3, <1>4, <1>5, <1>6 DEF Next

\* What the two orders list together.
LEMMA OrdersShowTheView == DiskInv /\ OrderInv => IterationListsTheView
<1> SUFFICES ASSUME DiskInv, OrderInv PROVE IterationListsTheView
  OBVIOUS
<1>1. Lists(order, Present(data)) /\ Lists(written, Present(overlay))
  BY DEF OrderInv
<1> DEFINE View == {k \in Keys : Lookup(k) # Absent}
<1>2. Lists(Iteration, View)
  <2>1. CASE written = <<>>
    <3>1. Present(overlay) = {}
      BY <1>1, <2>1 DEF Lists, ToSet
    <3>2. View = Present(data)
      BY <3>1 DEF Present, Lookup
    <3> HIDE DEF View
    <3> QED BY <1>1, <2>1, <3>2 DEF Iteration
  <2>2. CASE written # <<>>
    <3>1. Lists(Without(order, Hidden), Present(data) \ Hidden)
      BY <1>1, WithoutLists
    <3>2. Lists(Without(written, Durable \cup Hidden), Present(overlay) \ (Durable \cup Hidden))
      BY <1>1, WithoutLists
    <3>3. (Present(data) \ Hidden) \cap (Present(overlay) \ (Durable \cup Hidden)) = {}
      BY DEF Present, Durable
    <3>4. Lists(Merged, (Present(data) \ Hidden) \cup (Present(overlay) \ (Durable \cup Hidden)))
      BY <3>1, <3>2, <3>3, ListedAfter DEF Merged
    <3>5. View = (Present(data) \ Hidden) \cup (Present(overlay) \ (Durable \cup Hidden))
      <4>1. \A k \in Keys : Lookup(k) = IF overlay[k] = Absent THEN data[k]
                                        ELSE IF overlay[k] = Deleted THEN Absent ELSE overlay[k]
        BY DEF Lookup, Stored
      <4> QED BY <4>1, DiskAssumption DEF Present, Durable, Hidden
    <3> HIDE DEF View
    <3> QED BY <2>2, <3>4, <3>5 DEF Iteration
  <2> QED BY <2>1, <2>2
<1> QED BY <1>2 DEF Lists, IterationListsTheView

\* Iterating a disk lists each readable key once, whatever waits in the
\* overlay: __iter__ and __len__ agree with __getitem__ for any keys, through
\* deletes, overwrites, syncs and crashes.
THEOREM ListsTheView == Spec => []IterationListsTheView
<1>1. Init => DiskInv /\ OrderInv
  BY DiskInit, OrderStarts
<1>2. DiskInv /\ OrderInv /\ [Next]_vars => (DiskInv /\ OrderInv)'
  BY DiskStep, OrderStep
<1> QED BY <1>1, <1>2, OrdersShowTheView, PTL DEF Spec

=============================================================================
