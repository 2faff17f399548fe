-------------------------- MODULE StreamFlowProofs --------------------------
(***************************************************************************)
(* For any chunks and watermarks, a protocol is handed what was written in *)
(* the order written, nobody is paused for nothing, and the sender's       *)
(* buffer is what is outstanding.                                          *)
(*                                                                         *)
(* What was handed up, what waits in the backlog, the eof that waits       *)
(* behind it and what is in flight are one line, in the order of writing   *)
(* (Line).  A packet may join the front of that line only if nothing waits *)
(* before it, and nothing waits while reading is not paused and no call is *)
(* on the stack (Stack): every way out of resume_reading's loop sees to    *)
(* that.                                                                   *)
(*                                                                         *)
(* So the chunks on their way are those not handed up yet and those that   *)
(* data_received still has, each in one call (OnTheirWay, Handlers), and   *)
(* the buffer is compared with their bytes (Owed): writing one adds it to  *)
(* both (BytesAppended), the return of data_received takes it from both    *)
(* (BytesWithout), and handing it up leaves it where it is.                *)
(***************************************************************************)
EXTENDS StreamFlow, SequenceTheorems, WellFoundedInduction, TLAPS

Calls == [kind : {"landed", "drain"}, at : {"loop", "handing", "woke"}, chunk : Nat]

FlowTypes ==
    /\ armed \in BOOLEAN /\ defaults \in Marks /\ limits \in Marks \cup {Unset}
    /\ size \in Seq(Nat) /\ eofSent \in BOOLEAN
    /\ sender \in {"open", "closing", "closed"}
    /\ buffer \in Nat /\ paused \in BOOLEAN /\ flight \in Seq(Nat)
    /\ receiver \in {"open", "closed"} /\ readPaused \in BOOLEAN
    /\ backlog \in Seq(Nat) /\ eofPending \in BOOLEAN
    /\ calls \in Seq(Calls) /\ got \in Seq(Nat) /\ raised \in BOOLEAN

\* Only chunks that were written are on their way.
Written ==
    /\ \A i \in 1 .. Len(flight) : flight[i] <= Len(size)
    /\ \A i \in 1 .. Len(backlog) : backlog[i] \in 1 .. Len(size)
    /\ \A i \in 1 .. Len(calls) :
          calls[i].at = "handing" => calls[i].chunk \in 1 .. Len(size)

\* Bytes are charged to a sender that has flow control and is not gone.
Charged == buffer > 0 => armed /\ sender # "closed"

\* Nothing waits to be read unless reading is paused or a call will look.
Stack ==
    ~raised /\ receiver = "open" =>
       /\ ~readPaused /\ (backlog # <<>> \/ eofPending) => calls # <<>>
       /\ \A i \in 1 .. Len(calls) :
             calls[i].kind = "landed" => backlog = <<>> /\ ~eofPending

\* What is sent at each place of the line, how far the line goes, and where
\* what is in flight begins.
Sent(i) == IF i = Len(size) + 1 THEN Eof ELSE i
Total == IF eofSent THEN Len(size) + 1 ELSE Len(size)
Arrived == Len(got) + Len(backlog) + (IF eofPending THEN 1 ELSE 0)

HandedUp == Len(got) <= Total /\ \A i \in 1 .. Len(got) : got[i] = Sent(i)

OnItsWay ==
    /\ \A i \in 1 .. Len(backlog) : backlog[i] = Sent(Len(got) + i)
    /\ eofPending => Arrived = Len(size) + 1
    /\ \A i \in 1 .. Len(flight) : flight[i] = Sent(Arrived + i)
    /\ Arrived + Len(flight) = Total

Line ==
    /\ ~raised => HandedUp
    /\ ~raised /\ receiver = "open" => OnItsWay

\* The calls in data_received are for different chunks, all handed up.
Handlers ==
    \A i \in 1 .. Len(calls) : calls[i].at = "handing" =>
       /\ calls[i].chunk <= Len(got)
       /\ \A j \in 1 .. Len(calls) :
             calls[j].at = "handing" /\ calls[j].chunk = calls[i].chunk => i = j

\* The chunks the sender still owes for: those in data_received, and those not
\* handed up.
OnTheirWay == Handing \cup (Len(got) + 1 .. Len(size))

\* The buffer never holds more, and all of it if every chunk was charged.
Owed ==
    /\ late \in BOOLEAN
    /\ ~late /\ ~armed => size = <<>>
    /\ ~raised /\ receiver = "open" => Handlers
    /\ ~raised /\ receiver = "open" /\ sender # "closed" =>
          /\ buffer <= Bytes(size, OnTheirWay)
          /\ ~late => buffer = Bytes(size, OnTheirWay)

FlowInv == FlowTypes /\ Written /\ Charged /\ PausedForAReason /\ Stack /\ Line /\ Owed

-----------------------------------------------------------------------------
\* Sequences and the call stack

LEMMA Appended ==
    ASSUME NEW S, NEW s \in Seq(S), NEW x \in S
    PROVE  /\ Append(s, x) \in Seq(S) /\ Append(s, x) # <<>>
           /\ Len(s) \in Nat /\ Len(Append(s, x)) = Len(s) + 1
           /\ Append(s, x)[Len(s) + 1] = x
           /\ \A i \in 1 .. Len(s) : Append(s, x)[i] = s[i]
BY AppendProperties, LenProperties

LEMMA HeadTail ==
    ASSUME NEW S, NEW s \in Seq(S), s # <<>>
    PROVE  /\ Head(s) \in S /\ Head(s) = s[1] /\ Tail(s) \in Seq(S)
           /\ Len(s) \in Nat \ {0} /\ Len(Tail(s)) = Len(s) - 1
           /\ \A i \in 1 .. Len(s) - 1 : Tail(s)[i] = s[i + 1]
<1>1. Len(s) \in Nat \ {0}
  BY EmptySeq
<1>2. 1 \in 1 .. Len(s) /\ Head(s) = s[1]
  BY <1>1, HeadTailProperties
<1>3. s[1] \in S
  BY <1>2, ElementOfSeq
<1>4. /\ Tail(s) \in Seq(S) /\ Len(Tail(s)) = Len(s) - 1
      /\ \A i \in 1 .. Len(Tail(s)) : Tail(s)[i] = s[i + 1]
  BY HeadTailProperties
<1> QED BY <1>1, <1>2, <1>3, <1>4

LEMMA Popping ==
    ASSUME calls \in Seq(Calls), calls # <<>>
    PROVE  /\ Len(calls) \in Nat \ {0} /\ Top = calls[Len(calls)] /\ Top \in Calls
           /\ Popped \in Seq(Calls) /\ Len(Popped) = Len(calls) - 1
           /\ \A i \in 1 .. Len(Popped) : i \in 1 .. Len(calls) /\ Popped[i] = calls[i]
<1>1. Len(calls) \in Nat \ {0}
  BY EmptySeq
<1>2. PICK m : m = Len(calls) - 1
  OBVIOUS
<1>3. m \in Nat /\ m \in Int /\ 1 \in Int /\ m - 1 + 1 = m
  BY <1>1, <1>2
<1>4. \A i \in 1 .. m : i \in 1 .. Len(calls)
  BY <1>1, <1>2
<1>5. \A i \in 1 .. m : calls[i] \in Calls
  BY <1>4, ElementOfSeq
<1>6. /\ SubSeq(calls, 1, m) \in Seq(Calls)
      /\ Len(SubSeq(calls, 1, m)) = IF 1 <= m THEN m - 1 + 1 ELSE 0
      /\ \A i \in 1 .. m - 1 + 1 : SubSeq(calls, 1, m)[i] = calls[1 + i - 1]
  BY <1>3, <1>5, SubSeqProperties
<1>7. Len(calls) \in 1 .. Len(calls)
  BY <1>1
<1>8. Top = calls[Len(calls)] /\ Top \in Calls
  BY <1>7, ElementOfSeq DEF Top
<1>9. Popped = SubSeq(calls, 1, m)
  BY <1>2 DEF Popped
<1>10. Len(Popped) = m
  BY <1>3, <1>6, <1>9
<1>11. \A i \in 1 .. m : Popped[i] = calls[i]
  <2>1. SUFFICES ASSUME NEW i \in 1 .. m PROVE Popped[i] = calls[i]
    OBVIOUS
  <2>2. i \in 1 .. m - 1 + 1 /\ 1 + i - 1 = i
    BY <1>3
  <2> QED BY <2>2, <1>6, <1>9
<1> QED BY <1>1, <1>2, <1>4, <1>6, <1>8, <1>9, <1>10, <1>11

LEMMA ReplacingIs ==
    ASSUME calls \in Seq(Calls), calls # <<>>, NEW c \in Calls
    PROVE  /\ Replaced(c) \in Seq(Calls) /\ Replaced(c) # <<>>
           /\ Len(Replaced(c)) = Len(calls) /\ Len(calls) \in Nat \ {0}
           /\ Replaced(c)[Len(calls)] = c
           /\ \A i \in 1 .. Len(calls) : i # Len(calls) => Replaced(c)[i] = calls[i]
<1>1. /\ Len(calls) \in Nat \ {0} /\ Popped \in Seq(Calls)
      /\ Len(Popped) = Len(calls) - 1
      /\ \A i \in 1 .. Len(Popped) : Popped[i] = calls[i]
  BY Popping
<1>2. /\ Append(Popped, c) \in Seq(Calls) /\ Append(Popped, c) # <<>>
      /\ Len(Append(Popped, c)) = Len(Popped) + 1
      /\ Append(Popped, c)[Len(Popped) + 1] = c
      /\ \A i \in 1 .. Len(Popped) : Append(Popped, c)[i] = Popped[i]
  BY <1>1, Appended
<1>3. Len(Popped) + 1 = Len(calls)
  BY <1>1
<1>4. \A i \in 1 .. Len(calls) : i # Len(calls) => i \in 1 .. Len(Popped)
  BY <1>1
<1> QED BY <1>1, <1>2, <1>3, <1>4 DEF Replaced

\* Every call on the stack was there before or is c.
Moves(c) ==
    /\ c \in Calls /\ calls' \in Seq(Calls)
    /\ \A i \in 1 .. Len(calls') :
          calls'[i] = c \/ \E j \in 1 .. Len(calls) : calls'[i] = calls[j]

Looping == Call("drain", "loop", Eof)

LEMMA StackMoves ==
    ASSUME calls \in Seq(Calls)
    PROVE  /\ Looping \in Calls
           /\ UNCHANGED calls => Moves(Looping)
           /\ calls # <<>> /\ calls' = Popped => Moves(Looping)
           /\ \A c \in Calls : calls # <<>> /\ calls' = Replaced(c) => Moves(c)
           /\ \A c \in Calls : calls' = Append(calls, c) => Moves(c)
<1>1. Looping \in Calls
  BY DEF Looping, Call, Calls, Eof
<1>2. UNCHANGED calls => Moves(Looping)
  BY <1>1 DEF Moves
<1>3. calls # <<>> /\ calls' = Popped => Moves(Looping)
  BY <1>1, Popping DEF Moves
<1>4. ASSUME NEW c \in Calls, calls # <<>>, calls' = Replaced(c) PROVE Moves(c)
  BY <1>4, ReplacingIs DEF Moves
<1>5. ASSUME NEW c \in Calls, calls' = Append(calls, c) PROVE Moves(c)
  <2>1. /\ calls' \in Seq(Calls) /\ Len(calls') = Len(calls) + 1 /\ Len(calls) \in Nat
        /\ calls'[Len(calls) + 1] = c /\ \A i \in 1 .. Len(calls) : calls'[i] = calls[i]
    BY <1>5, Appended
  <2>2. \A i \in 1 .. Len(calls') : i = Len(calls) + 1 \/ i \in 1 .. Len(calls)
    BY <2>1
  <2> QED BY <2>1, <2>2 DEF Moves
<1> QED BY <1>1, <1>2, <1>3, <1>4, <1>5

-----------------------------------------------------------------------------
\* The write buffer

\* The sender owes something only while it can be released, and is paused only
\* while it owes.
Owes == Charged /\ PausedForAReason

LEMMA MarksAre ==
    ASSUME FlowAssumption, FlowTypes
    PROVE  Low \in Nat /\ High \in Nat /\ \A m \in Marks : m[2] \in Nat
<1>1. Limits \in Marks
  BY DEF FlowTypes, Limits
<1>2. \A m \in Marks : m[1] \in Nat /\ m[2] \in Nat
  <2>1. SUFFICES ASSUME NEW m \in Marks PROVE m[1] \in Nat /\ m[2] \in Nat
    OBVIOUS
  <2>2. m \in Nat \X Nat
    BY DEF FlowAssumption
  <2> QED BY <2>2
<1> QED BY <1>1, <1>2 DEF Low, High

LEMMA ChargeKeeps ==
    ASSUME FlowAssumption, FlowTypes, Owes, NEW n \in Nat, Charge(n), sender = "open",
           UNCHANGED <<armed, sender>>
    PROVE  buffer' \in Nat /\ paused' \in BOOLEAN /\ Owes'
<1>1. /\ buffer \in Nat /\ paused \in BOOLEAN /\ armed \in BOOLEAN /\ High \in Nat
      /\ paused => armed /\ buffer > 0
      /\ buffer > 0 => armed
  BY MarksAre DEF FlowTypes, Owes, Charged, PausedForAReason
<1>2. CASE ~armed
  BY <1>1, <1>2, Zenon DEF Charge, Owes, Charged, PausedForAReason
<1>3. CASE armed
  <2>1. buffer' = buffer + n /\ paused' = (paused \/ buffer + n > High)
    BY <1>3 DEF Charge, MaybePause
  <2>2. buffer' \in Nat /\ (paused \/ buffer + n > High => buffer' > 0)
    BY <1>1, <2>1
  <2>3. paused' \in BOOLEAN /\ (paused' => paused \/ buffer + n > High)
    BY <2>1, Zenon
  <2> QED BY <1>3, <2>2, <2>3, Zenon DEF Owes, Charged, PausedForAReason
<1> QED BY <1>2, <1>3

LEMMA ConsumedKeeps ==
    ASSUME FlowAssumption, FlowTypes, Owes, NEW chunk \in 1 .. Len(size), Consumed(chunk),
           UNCHANGED <<armed, sender>>
    PROVE  buffer' \in Nat /\ paused' \in BOOLEAN /\ Owes'
<1>1. /\ buffer \in Nat /\ paused \in BOOLEAN /\ Low \in Nat /\ size[chunk] \in Nat
  <2>1. buffer \in Nat /\ paused \in BOOLEAN /\ size \in Seq(Nat)
    BY DEF FlowTypes
  <2> QED BY <2>1, MarksAre, ElementOfSeq
<1>2. CASE ~(armed /\ sender # "closed")
  BY <1>1, <1>2, Zenon DEF Consumed, Owes, Charged, PausedForAReason
<1>3. CASE armed /\ sender # "closed"
  <2>1. buffer' = Drained(size[chunk]) /\ paused' = (paused /\ buffer' > Low)
    BY <1>3 DEF Consumed
  <2>2. buffer' \in Nat /\ (buffer' > Low => buffer' > 0)
    BY <1>1, <2>1 DEF Drained
  <2>3. paused' \in BOOLEAN /\ (paused' => buffer' > Low)
    BY <2>1, Zenon
  <2> QED BY <1>3, <2>2, <2>3, Zenon DEF Owes, Charged, PausedForAReason
<1> QED BY <1>2, <1>3

\* The calls that change a watermark, the switch or the sender's end.
LEMMA SettingKeeps ==
    ASSUME FlowAssumption, FlowTypes, Owes,
           SenderGone \/ SwitchOff \/ \E m \in Marks : SetLimits(m) \/ SwitchOn(m)
    PROVE  buffer' \in Nat /\ paused' \in BOOLEAN /\ Owes'
<1>1. /\ buffer \in Nat /\ paused \in BOOLEAN
      /\ paused => armed /\ buffer > 0 /\ sender # "closed"
      /\ buffer > 0 => armed /\ sender # "closed"
  BY DEF FlowTypes, Owes, Charged, PausedForAReason
<1>2. CASE SenderGone \/ SwitchOff
  <2>1. buffer' = 0 /\ paused' = FALSE
    BY <1>2 DEF SenderGone, SwitchOff
  <2>2. buffer' \in Nat /\ ~(buffer' > 0)
    BY <2>1
  <2>3. paused' \in BOOLEAN /\ ~paused'
    BY <2>1, Zenon
  <2> QED BY <2>2, <2>3, Zenon DEF Owes, Charged, PausedForAReason
<1>3. ASSUME NEW m \in Marks, SetLimits(m)
      PROVE  buffer' \in Nat /\ paused' \in BOOLEAN /\ Owes'
  <2>1. /\ UNCHANGED <<buffer, armed, sender>> /\ paused' = (paused \/ buffer > m[2])
    BY <1>3 DEF SetLimits, sendVars
  <2>2. m[2] \in Nat /\ (buffer > m[2] => buffer > 0)
    BY <1>1, MarksAre
  <2>3. paused' \in BOOLEAN /\ (paused' => paused \/ buffer > m[2])
    BY <2>1, Zenon
  <2> QED BY <1>1, <2>1, <2>2, <2>3, Zenon DEF Owes, Charged, PausedForAReason
<1>4. ASSUME NEW m \in Marks, SwitchOn(m)
      PROVE  buffer' \in Nat /\ paused' \in BOOLEAN /\ Owes'
  <2>1. UNCHANGED <<buffer, paused, sender>> /\ armed' = TRUE
    BY <1>4 DEF SwitchOn, sendVars
  <2> QED BY <1>1, <2>1, Zenon DEF Owes, Charged, PausedForAReason
<1> QED BY <1>2, <1>3, <1>4

-----------------------------------------------------------------------------
\* Types, and which chunks are on their way

LEMMA SendingKeepsTypes ==
    ASSUME FlowAssumption, FlowTypes, Owes, Written, Sending
    PROVE  FlowTypes' /\ Owes' /\ Written'
<1>1. \A n \in Sizes : n \in Nat
  BY DEF FlowAssumption
<1>2. ASSUME NEW n \in Sizes, Write(n) PROVE FlowTypes' /\ Owes' /\ Written'
  <2>1. /\ size' = Append(size, n) /\ flight' = Append(flight, Len(size) + 1)
        /\ Charge(n) /\ sender = "open"
        /\ UNCHANGED <<armed, defaults, limits, eofSent, sender, receiver, readPaused,
                       backlog, eofPending, got, calls, raised>>
    BY <1>2 DEF Write, switchVars, sendVars, readVars
  <2>2. buffer' \in Nat /\ paused' \in BOOLEAN /\ Owes'
    BY <1>1, <2>1, ChargeKeeps
  <2>3. /\ size' \in Seq(Nat) /\ Len(size') = Len(size) + 1 /\ Len(size) \in Nat
    BY <1>1, <2>1, Appended DEF FlowTypes
  <2>4. /\ flight' \in Seq(Nat) /\ Len(flight') = Len(flight) + 1 /\ Len(flight) \in Nat
        /\ flight'[Len(flight) + 1] = Len(size) + 1
        /\ \A i \in 1 .. Len(flight) : flight'[i] = flight[i]
    <3>1. flight \in Seq(Nat) /\ Len(size) + 1 \in Nat
      BY <2>3 DEF FlowTypes
    <3> QED BY <2>1, <3>1, Appended
  <2>5. FlowTypes'
    BY <2>1, <2>2, <2>3, <2>4 DEF FlowTypes
  <2>6. \A i \in 1 .. Len(flight') : flight'[i] <= Len(size')
    <3>1. SUFFICES ASSUME NEW i \in 1 .. Len(flight') PROVE flight'[i] <= Len(size')
      OBVIOUS
    <3>2. CASE i = Len(flight) + 1
      BY <3>2, <2>3, <2>4
    <3>3. CASE i \in 1 .. Len(flight)
      <4>1. flight[i] \in Nat /\ flight[i] <= Len(size)
        BY <3>3, ElementOfSeq DEF FlowTypes, Written
      <4> QED BY <4>1, <3>3, <2>3, <2>4
    <3> QED BY <3>2, <3>3, <2>4
  <2>7. 1 .. Len(size) \subseteq 1 .. Len(size')
    BY <2>3
  <2> QED BY <2>1, <2>2, <2>5, <2>6, <2>7 DEF Written
<1>3. ASSUME NEW closing \in BOOLEAN, SendEof(closing)
      PROVE  FlowTypes' /\ Owes' /\ Written'
  <2>1. /\ eofSent' = TRUE /\ flight' = IF eofSent THEN flight ELSE Append(flight, Eof)
        /\ sender = "open" /\ sender' \in {"closing", sender}
        /\ UNCHANGED <<armed, defaults, limits, size, buffer, paused, receiver,
                       readPaused, backlog, eofPending, got, calls, raised>>
    BY <1>3 DEF SendEof, switchVars, sendVars, readVars
  <2>2. /\ flight' \in Seq(Nat) /\ \A i \in 1 .. Len(flight') : flight'[i] <= Len(size)
    <3>1. CASE eofSent
      BY <2>1, <3>1 DEF FlowTypes, Written
    <3>2. CASE ~eofSent
      <4>0. flight \in Seq(Nat) /\ Eof \in Nat /\ Len(size) \in Nat /\ Eof = 0
        BY LenProperties DEF FlowTypes, Eof
      <4>1. /\ flight' \in Seq(Nat) /\ Len(flight') = Len(flight) + 1
            /\ Len(flight) \in Nat /\ flight'[Len(flight) + 1] = Eof
            /\ \A i \in 1 .. Len(flight) : flight'[i] = flight[i]
        BY <2>1, <3>2, <4>0, Appended
      <4>2. \A i \in 1 .. Len(flight') : i = Len(flight) + 1 \/ i \in 1 .. Len(flight)
        BY <4>1
      <4>3. \A i \in 1 .. Len(flight) : flight[i] <= Len(size)
        BY DEF Written
      <4>4. flight'[Len(flight) + 1] <= Len(size)
        BY <4>0, <4>1
      <4>5. \A i \in 1 .. Len(flight) : flight'[i] <= Len(size)
        BY <4>1, <4>3
      <4> QED BY <4>1, <4>2, <4>4, <4>5
    <3> QED BY <3>1, <3>2
  <2>3. FlowTypes'
    BY <2>1, <2>2 DEF FlowTypes
  <2>4. Owes'
    BY <2>1 DEF Owes, Charged, PausedForAReason
  <2> QED BY <2>1, <2>2, <2>3, <2>4 DEF Written
<1>4. ASSUME SenderGone \/ SwitchOff \/ \E m \in Marks : SetLimits(m) \/ SwitchOn(m)
      PROVE  FlowTypes' /\ Owes' /\ Written'
  <2>1. buffer' \in Nat /\ paused' \in BOOLEAN /\ Owes'
    BY <1>4, SettingKeeps
  <2>2. /\ UNCHANGED <<size, eofSent, flight, receiver, readPaused, backlog, eofPending,
                       got, calls, raised>>
        /\ armed' \in BOOLEAN /\ defaults' \in Marks /\ limits' \in Marks \cup {Unset}
        /\ sender' \in {"open", "closing", "closed"}
    BY <1>4 DEF SenderGone, SwitchOff, SetLimits, SwitchOn, switchVars, sendVars, readVars,
               FlowTypes
  <2>3. FlowTypes'
    BY <2>1, <2>2 DEF FlowTypes
  <2> QED BY <2>1, <2>2, <2>3 DEF Written
<1> QED BY <1>2, <1>3, <1>4 DEF Sending

\* The call a step puts on the stack, if it does: it hands up a chunk that was
\* written, and straight from the wire only if no other call is there.
NewCall(c) ==
    /\ Moves(c)
    /\ c.at = "handing" => c.chunk \in 1 .. Len(size)
    /\ c.kind = "landed" =>
          /\ calls = <<>> /\ ~readPaused
          /\ UNCHANGED <<backlog, eofPending>>

\* A chunk at the head of what is in flight, or of the backlog, was written.
LEMMA HeadsWritten ==
    ASSUME FlowTypes, Written
    PROVE  /\ flight # <<>> /\ Head(flight) # Eof => Head(flight) \in 1 .. Len(size)
           /\ backlog # <<>> => Head(backlog) \in 1 .. Len(size)
<1>1. flight \in Seq(Nat) /\ backlog \in Seq(Nat) /\ Len(size) \in Nat
  BY LenProperties DEF FlowTypes
<1>2. ASSUME flight # <<>>, Head(flight) # Eof PROVE Head(flight) \in 1 .. Len(size)
  <2>1. Head(flight) \in Nat /\ Head(flight) = flight[1] /\ Len(flight) \in Nat \ {0}
    BY <1>1, <1>2, HeadTail
  <2>2. 1 \in 1 .. Len(flight)
    BY <2>1
  <2>3. flight[1] <= Len(size)
    BY <2>2 DEF Written
  <2> QED BY <1>1, <1>2, <2>1, <2>3 DEF Eof
<1>3. ASSUME backlog # <<>> PROVE Head(backlog) \in 1 .. Len(size)
  <2>1. Head(backlog) = backlog[1] /\ Len(backlog) \in Nat \ {0}
    BY <1>1, <1>3, HeadTail
  <2>2. 1 \in 1 .. Len(backlog)
    BY <2>1
  <2> QED BY <2>1, <2>2 DEF Written
<1> QED BY <1>2, <1>3

LEMMA CallsMove ==
    ASSUME FlowTypes, Written, Receiving
    PROVE  \E c \in Calls : NewCall(c)
<1>1. calls \in Seq(Calls) /\ Len(size) \in Nat
  BY LenProperties DEF FlowTypes
<1>2. /\ Looping \in Calls
      /\ UNCHANGED calls => Moves(Looping)
      /\ calls # <<>> /\ calls' = Popped => Moves(Looping)
      /\ \A c \in Calls : calls # <<>> /\ calls' = Replaced(c) => Moves(c)
      /\ \A c \in Calls : calls' = Append(calls, c) => Moves(c)
  BY <1>1, StackMoves
<1>3. Moves(Looping) => NewCall(Looping)
  BY DEF NewCall, Looping, Call
<1>4. CASE UNCHANGED calls \/ (calls # <<>> /\ calls' = Popped)
  BY <1>2, <1>3, <1>4
<1>5. CASE DataArrives /\ calls' # calls
  <2>1. /\ calls = <<>> /\ ~readPaused /\ UNCHANGED <<backlog, eofPending>>
        /\ calls' = <<Call("landed", "handing", Head(flight))>>
        /\ flight # <<>> /\ Head(flight) # Eof
    BY <1>5 DEF DataArrives
  <2>2. PICK h : h = Head(flight)
    OBVIOUS
  <2>3. h \in 1 .. Len(size)
    BY <2>1, <2>2, HeadsWritten
  <2>4. PICK c : c = Call("landed", "handing", h)
    OBVIOUS
  <2>5. c \in Calls /\ c.at = "handing" /\ c.kind = "landed" /\ c.chunk = h
    BY <1>1, <2>3, <2>4 DEF Call, Calls
  <2>6. calls' = <<c>>
    BY <2>1, <2>2, <2>4
  <2>7. Moves(c)
    BY <2>5, <2>6 DEF Moves
  <2> QED BY <2>1, <2>3, <2>5, <2>7 DEF NewCall
<1>6. CASE Return /\ calls' # Popped
  <2>1. PICK w \in {"woke", "loop"} : calls # <<>> /\ calls' = Replaced(Call("drain", w, Eof))
    BY <1>6, Zenon DEF Return
  <2>2. PICK c : c = Call("drain", w, Eof)
    OBVIOUS
  <2>3. c \in Calls /\ c.at # "handing" /\ c.kind # "landed"
    BY <2>2 DEF Call, Calls, Eof
  <2> QED BY <1>2, <2>1, <2>2, <2>3 DEF NewCall
<1>7. CASE WriterReturns
  <2>1. calls # <<>> /\ calls' = Replaced(Looping)
    BY <1>7 DEF WriterReturns, Looping
  <2> QED BY <1>2, <1>3, <2>1
<1>8. CASE ResumeReading
  <2>1. calls' = Append(calls, Looping)
    BY <1>8 DEF ResumeReading, Looping
  <2> QED BY <1>2, <1>3, <2>1
<1>9. CASE DrainOne
  <2>1. /\ calls # <<>> /\ backlog # <<>>
        /\ calls' = Replaced(Call("drain", "handing", Head(backlog)))
    BY <1>9 DEF DrainOne, InLoop
  <2>2. PICK h : h = Head(backlog)
    OBVIOUS
  <2>3. h \in 1 .. Len(size)
    BY <2>1, <2>2, HeadsWritten
  <2>4. PICK c : c = Call("drain", "handing", h)
    OBVIOUS
  <2>5. c \in Calls /\ c.chunk = h /\ c.kind # "landed"
    BY <1>1, <2>3, <2>4 DEF Call, Calls
  <2> QED BY <1>2, <2>1, <2>2, <2>3, <2>4, <2>5 DEF NewCall
<1>10. Receiving => \/ UNCHANGED calls \/ (calls # <<>> /\ calls' = Popped)
                    \/ (DataArrives /\ calls' # calls) \/ (Return /\ calls' # Popped)
                    \/ WriterReturns \/ ResumeReading \/ DrainOne
  <2>1. EofArrives \/ PauseReading \/ ReceiverGone => UNCHANGED calls
    BY DEF EofArrives, PauseReading, ReceiverGone
  <2>2. DrainEnds \/ Raise => calls # <<>> /\ calls' = Popped
    BY DEF DrainEnds, InLoop, Raise
  <2>3. Return => calls # <<>>
    BY DEF Return
  <2> QED BY <2>1, <2>2, <2>3 DEF Receiving, Arriving, Draining, Returning
<1> QED BY <1>4, <1>5, <1>6, <1>7, <1>8, <1>9, <1>10

\* Nobody is charged but by Write, and credited but by Return.
LEMMA ReceivingKeepsOwes ==
    ASSUME FlowAssumption, FlowTypes, Owes, Written, Receiving
    PROVE  buffer' \in Nat /\ paused' \in BOOLEAN /\ Owes'
<1>1. CASE Return
  <2>1. /\ calls # <<>> /\ Top.at = "handing" /\ Consumed(Top.chunk)
        /\ UNCHANGED <<armed, sender>>
    BY <1>1 DEF Return, switchVars, sendVars
  <2>2. Len(calls) \in Nat \ {0} /\ Top = calls[Len(calls)]
    BY <2>1, Popping DEF FlowTypes
  <2>3. Len(calls) \in 1 .. Len(calls)
    BY <2>2
  <2>4. Top.chunk \in 1 .. Len(size)
    BY <2>1, <2>2, <2>3 DEF Written
  <2> QED BY <2>1, <2>4, ConsumedKeeps
<1>2. CASE ~Return
  <2>1. UNCHANGED <<buffer, paused, armed, sender>>
    BY <1>2 DEF Receiving, Arriving, Draining, Returning, DataArrives, EofArrives, DrainOne,
            DrainEnds, WriterReturns, Raise, PauseReading, ResumeReading, ReceiverGone,
            switchVars, sendVars
  <2> QED BY <2>1 DEF FlowTypes, Owes, Charged, PausedForAReason
<1> QED BY <1>1, <1>2

\* What the receiving end does to the packets: it takes the first in flight, or
\* it does not, and what it adds to the backlog and hands up was written.
LEMMA ReceivingMoves ==
    ASSUME FlowTypes, Written, Receiving
    PROVE  /\ \/ UNCHANGED flight
              \/ flight # <<>> /\ flight' = Tail(flight)
           /\ \/ UNCHANGED backlog
              \/ backlog # <<>> /\ backlog' = Tail(backlog)
              \/ \E h \in 1 .. Len(size) : backlog' = Append(backlog, h)
           /\ \/ UNCHANGED got
              \/ \E h \in Nat : got' = Append(got, h)
           /\ UNCHANGED <<armed, defaults, limits, size, eofSent, sender>>
           /\ receiver' \in {"closed", receiver} /\ readPaused' \in BOOLEAN
           /\ eofPending' \in BOOLEAN /\ raised' \in {TRUE, raised}
<1>1. /\ readPaused \in BOOLEAN /\ eofPending \in BOOLEAN /\ Len(size) \in Nat
      /\ Eof \in Nat /\ \A h \in 1 .. Len(size) : h \in Nat
  BY LenProperties DEF FlowTypes, Eof
<1>2. CASE DataArrives
  <2>1. /\ flight # <<>> /\ Head(flight) # Eof /\ flight' = Tail(flight)
        /\ backlog' = backlog \/ backlog' = Append(backlog, Head(flight))
        /\ got' = got \/ got' = Append(got, Head(flight))
        /\ UNCHANGED <<armed, defaults, limits, size, eofSent, sender, receiver,
                       readPaused, eofPending, raised>>
    BY <1>2 DEF DataArrives, switchVars, sendVars
  <2>2. Head(flight) \in 1 .. Len(size)
    BY <2>1, HeadsWritten
  <2> QED BY <1>1, <2>1, <2>2
<1>3. CASE EofArrives
  <2>1. /\ flight # <<>> /\ flight' = Tail(flight) /\ UNCHANGED backlog
        /\ got' = got \/ got' = Append(got, Eof)
        /\ UNCHANGED <<armed, defaults, limits, size, eofSent, sender, receiver,
                       readPaused, raised>>
    BY <1>3 DEF EofArrives, switchVars, sendVars
  <2>2. eofPending' \in BOOLEAN
    BY <1>3, Zenon DEF EofArrives
  <2> QED BY <1>1, <2>1, <2>2
<1>4. CASE DrainOne
  <2>1. /\ backlog # <<>> /\ backlog' = Tail(backlog) /\ UNCHANGED flight
        /\ got' = Append(got, Head(backlog))
        /\ UNCHANGED <<armed, defaults, limits, size, eofSent, sender, receiver,
                       readPaused, eofPending, raised>>
    BY <1>4 DEF DrainOne, switchVars, sendVars
  <2>2. Head(backlog) \in 1 .. Len(size)
    BY <2>1, HeadsWritten
  <2> QED BY <1>1, <2>1, <2>2
<1>5. CASE DrainEnds
  <2>1. /\ UNCHANGED <<flight, backlog, armed, defaults, limits, size, eofSent, sender,
                       receiver, readPaused, raised>>
        /\ got' = got \/ got' = Append(got, Eof)
    BY <1>5 DEF DrainEnds, switchVars, sendVars
  <2>2. eofPending' \in BOOLEAN
    BY <1>5, Zenon DEF DrainEnds
  <2> QED BY <1>1, <2>1, <2>2
<1>6. CASE Returning \/ PauseReading \/ ResumeReading \/ ReceiverGone
  BY <1>1, <1>6 DEF Returning, Return, WriterReturns, Raise, PauseReading, ResumeReading,
     ReceiverGone, switchVars, sendVars, readVars
<1> QED BY <1>2, <1>3, <1>4, <1>5, <1>6 DEF Receiving, Arriving, Draining

LEMMA ReceivingKeepsTypes ==
    ASSUME FlowAssumption, FlowTypes, Owes, Written, Receiving
    PROVE  FlowTypes' /\ Owes' /\ Written'
<1>1. buffer' \in Nat /\ paused' \in BOOLEAN /\ Owes'
  BY ReceivingKeepsOwes
<1>2. /\ flight \in Seq(Nat) /\ backlog \in Seq(Nat) /\ got \in Seq(Nat)
      /\ Len(size) \in Nat
  BY LenProperties DEF FlowTypes
<1>3. PICK c \in Calls : NewCall(c)
  BY CallsMove
<1>4. UNCHANGED <<armed, defaults, limits, size, eofSent, sender>>
  BY ReceivingMoves
<1>5. flight' \in Seq(Nat) /\ \A i \in 1 .. Len(flight') : flight'[i] <= Len(size)
  <2>1. CASE UNCHANGED flight
    BY <1>2, <2>1 DEF Written
  <2>2. CASE flight # <<>> /\ flight' = Tail(flight)
    <3>1. /\ flight' \in Seq(Nat) /\ Len(flight) \in Nat \ {0}
          /\ Len(flight') = Len(flight) - 1
          /\ \A i \in 1 .. Len(flight) - 1 : flight'[i] = flight[i + 1]
      BY <1>2, <2>2, HeadTail
    <3>2. \A i \in 1 .. Len(flight') : i \in 1 .. Len(flight) - 1 /\ i + 1 \in 1 .. Len(flight)
      BY <3>1
    <3> QED BY <3>1, <3>2 DEF Written
  <2> QED BY <2>1, <2>2, ReceivingMoves
<1>6. backlog' \in Seq(Nat) /\ \A i \in 1 .. Len(backlog') : backlog'[i] \in 1 .. Len(size)
  <2>1. CASE UNCHANGED backlog
    BY <1>2, <2>1 DEF Written
  <2>2. CASE backlog # <<>> /\ backlog' = Tail(backlog)
    <3>1. /\ backlog' \in Seq(Nat) /\ Len(backlog) \in Nat \ {0}
          /\ Len(backlog') = Len(backlog) - 1
          /\ \A i \in 1 .. Len(backlog) - 1 : backlog'[i] = backlog[i + 1]
      BY <1>2, <2>2, HeadTail
    <3>2. \A i \in 1 .. Len(backlog') :
             i \in 1 .. Len(backlog) - 1 /\ i + 1 \in 1 .. Len(backlog)
      BY <3>1
    <3> QED BY <3>1, <3>2 DEF Written
  <2>3. ASSUME NEW h \in 1 .. Len(size), backlog' = Append(backlog, h)
        PROVE  /\ backlog' \in Seq(Nat)
               /\ \A i \in 1 .. Len(backlog') : backlog'[i] \in 1 .. Len(size)
    <3>1. /\ backlog' \in Seq(Nat) /\ Len(backlog') = Len(backlog) + 1
          /\ Len(backlog) \in Nat /\ backlog'[Len(backlog) + 1] = h
          /\ \A i \in 1 .. Len(backlog) : backlog'[i] = backlog[i]
      BY <1>2, <2>3, Appended
    <3>2. \A i \in 1 .. Len(backlog') : i = Len(backlog) + 1 \/ i \in 1 .. Len(backlog)
      BY <3>1
    <3> QED BY <3>1, <3>2 DEF Written
  <2> QED BY <2>1, <2>2, <2>3, ReceivingMoves
<1>7. got' \in Seq(Nat)
  <2>1. got' = got \/ \E h \in Nat : got' = Append(got, h)
    BY ReceivingMoves
  <2>2. \A h \in Nat : Append(got, h) \in Seq(Nat)
    BY <1>2, Appended
  <2> QED BY <1>2, <2>1, <2>2
<1>8. /\ calls' \in Seq(Calls)
      /\ \A i \in 1 .. Len(calls') :
            calls'[i].at = "handing" => calls'[i].chunk \in 1 .. Len(size)
  BY <1>3 DEF NewCall, Moves, Written
<1>9. /\ receiver' \in {"open", "closed"} /\ readPaused' \in BOOLEAN
      /\ eofPending' \in BOOLEAN /\ raised' \in BOOLEAN
  BY ReceivingMoves DEF FlowTypes
<1>10. FlowTypes'
  BY <1>1, <1>4, <1>5, <1>6, <1>7, <1>8, <1>9 DEF FlowTypes
<1> QED BY <1>1, <1>4, <1>5, <1>6, <1>8, <1>10 DEF Written

-----------------------------------------------------------------------------
\* Nothing is left behind in the backlog

\* The chunks and the eof that wait join them only between calls, and only
\* while reading is paused.
LEMMA WaitingGrows ==
    ASSUME FlowTypes, Next, ~(calls = <<>> /\ readPaused)
    PROVE  (backlog = <<>> => backlog' = <<>>) /\ (~eofPending => ~eofPending')
<1>1. readPaused \in BOOLEAN /\ eofPending \in BOOLEAN
  BY DEF FlowTypes
<1>2. CASE Sending
  <2>1. UNCHANGED <<backlog, eofPending>>
    BY <1>2 DEF Sending, Write, SendEof, SenderGone, SwitchOff, SetLimits, SwitchOn, readVars
  <2> QED BY <2>1
<1>3. CASE DataArrives
  <2>1. calls = <<>> /\ UNCHANGED eofPending /\ (~readPaused => UNCHANGED backlog)
    BY <1>3 DEF DataArrives
  <2> QED BY <2>1
<1>4. CASE EofArrives
  <2>1. calls = <<>> /\ UNCHANGED backlog
    BY <1>4 DEF EofArrives
  <2>2. ~readPaused => eofPending' = eofPending
    BY <1>1, <1>4, Zenon DEF EofArrives
  <2> QED BY <2>1, <2>2
<1>5. CASE DrainOne
  <2>1. backlog # <<>> /\ UNCHANGED eofPending
    BY <1>5 DEF DrainOne
  <2> QED BY <2>1
<1>6. CASE DrainEnds
  <2>1. UNCHANGED backlog
    BY <1>6 DEF DrainEnds
  <2>2. eofPending' => eofPending
    BY <1>1, <1>6, Zenon DEF DrainEnds
  <2> QED BY <2>1, <2>2
<1>7. CASE Returning \/ PauseReading \/ ResumeReading \/ ReceiverGone
  <2>1. UNCHANGED <<backlog, eofPending>>
    BY <1>7 DEF Returning, Return, WriterReturns, Raise, PauseReading, ResumeReading,
       ReceiverGone, readVars
  <2> QED BY <2>1
<1> QED BY <1>2, <1>3, <1>4, <1>5, <1>6, <1>7 DEF Next, Receiving, Arriving, Draining

\* A step that leaves no call on the stack, and reading not paused, has left
\* nothing to be read.
LEMMA LastCallEnds ==
    ASSUME FlowTypes, Stack, Next, calls' = <<>>, ~readPaused', receiver' = "open", ~raised'
    PROVE  backlog' = <<>> /\ ~eofPending'
<1>1. /\ readPaused \in BOOLEAN /\ eofPending \in BOOLEAN /\ raised \in BOOLEAN
      /\ calls \in Seq(Calls)
  BY DEF FlowTypes
<1>2. receiver = "open" /\ ~raised /\ ~readPaused
  <2>1. CASE Sending
    <3>1. UNCHANGED <<receiver, readPaused, raised>>
      BY <2>1 DEF Sending, Write, SendEof, SenderGone, SwitchOff, SetLimits, SwitchOn, readVars
    <3> QED BY <3>1, Zenon
  <2>2. CASE ResumeReading
    <3>1. calls' # <<>>
      <4>1. Looping \in Calls /\ calls' = Append(calls, Looping)
        BY <1>1, <2>2, StackMoves DEF ResumeReading, Looping
      <4> QED BY <1>1, <4>1, Appended
    <3> QED BY <3>1
  <2>3. CASE Receiving /\ ~ResumeReading
    <3>1. CASE PauseReading \/ ReceiverGone \/ Raise
      BY <3>1, Zenon DEF PauseReading, ReceiverGone, Raise
    <3>2. CASE ~(PauseReading \/ ReceiverGone \/ Raise)
      <4>1. UNCHANGED <<receiver, readPaused, raised>>
        BY <2>3, <3>2 DEF Receiving, Arriving, Draining, Returning, DataArrives, EofArrives,
           DrainOne, DrainEnds, Return, WriterReturns, readVars
      <4> QED BY <4>1, Zenon
    <3> QED BY <3>1, <3>2
  <2> QED BY <2>1, <2>2, <2>3 DEF Next
<1>3. CASE calls = <<>>
  BY <1>2, <1>3, WaitingGrows DEF Stack
<1>4. CASE DrainEnds
  <2>1. ~(backlog # <<>> /\ Reading) /\ UNCHANGED backlog /\ Reading
    BY <1>2, <1>4, Zenon DEF DrainEnds, Reading
  <2>2. ~eofPending'
    BY <1>4, <2>1, Zenon DEF DrainEnds
  <2> QED BY <2>1, <2>2
<1>5. CASE calls # <<>> /\ Return
  <2>1. Top.kind = "landed"
    <3>1. SUFFICES ASSUME Top.kind # "landed" PROVE FALSE
      OBVIOUS
    <3>2. PICK w \in {"woke", "loop"} : calls' = Replaced(Call("drain", w, Eof))
      BY <1>5, <3>1, Zenon DEF Return
    <3>3. Call("drain", w, Eof) \in Calls
      BY DEF Call, Calls, Eof
    <3> QED BY <1>1, <1>5, <3>2, <3>3, ReplacingIs
  <2>2. Top = calls[Len(calls)] /\ Len(calls) \in 1 .. Len(calls)
    BY <1>1, <1>5, Popping
  <2>3. backlog = <<>> /\ ~eofPending
    BY <1>2, <2>1, <2>2 DEF Stack
  <2> QED BY <1>5, <2>3, WaitingGrows
<1>6. CASE calls # <<>> /\ ~DrainEnds /\ ~Return
  <2>1. CASE WriterReturns \/ DrainOne
    <3>1. PICK h \in Nat, k \in {"handing", "loop"} : calls' = Replaced(Call("drain", k, h))
      <4>1. WriterReturns => calls' = Replaced(Call("drain", "loop", Eof)) /\ Eof \in Nat
        BY DEF WriterReturns, Eof
      <4>2. DrainOne => calls' = Replaced(Call("drain", "handing", Head(backlog)))
                        /\ Head(backlog) \in Nat
        BY HeadTail DEF DrainOne, FlowTypes
      <4> QED BY <2>1, <4>1, <4>2
    <3>2. Call("drain", k, h) \in Calls
      BY DEF Call, Calls
    <3> QED BY <1>1, <1>6, <3>1, <3>2, ReplacingIs
  <2>2. CASE ResumeReading
    <3>1. Looping \in Calls /\ calls' = Append(calls, Looping)
      BY <1>1, <2>2, StackMoves DEF ResumeReading, Looping
    <3> QED BY <1>1, <3>1, Appended
  <2>3. CASE ~(WriterReturns \/ DrainOne \/ ResumeReading)
    <3>1. Raise => raised'
      BY Zenon DEF Raise
    <3>2. calls = <<>> \/ calls' = calls \/ Raise
      BY <1>6, <2>3 DEF Next, Sending, Receiving, Arriving, Draining, Returning, Write,
         SendEof, SenderGone, SwitchOff, SetLimits, SwitchOn, DataArrives, EofArrives,
         PauseReading, ReceiverGone
    <3> QED BY <1>6, <3>1, <3>2
  <2> QED BY <2>1, <2>2, <2>3
<1> QED BY <1>3, <1>4, <1>5, <1>6

LEMMA StackKept ==
    ASSUME FlowTypes, Written, Stack, Next
    PROVE  Stack'
<1>1. SUFFICES ASSUME ~raised', receiver' = "open" PROVE Stack'
  BY DEF Stack
<1>2. ~readPaused' /\ (backlog' # <<>> \/ eofPending') => calls' # <<>>
  BY <1>1, LastCallEnds
<1>3. ~raised /\ receiver = "open"
  <2>1. receiver' \in {"closed", receiver} /\ raised' \in {TRUE, raised}
    <3>1. Sending => UNCHANGED <<receiver, raised>>
      BY DEF Sending, Write, SendEof, SenderGone, SwitchOff, SetLimits, SwitchOn, readVars
    <3> QED BY <3>1, ReceivingMoves DEF Next
  <2>2. receiver = "open"
    BY <1>1, <2>1
  <2>3. raised \in BOOLEAN
    BY DEF FlowTypes
  <2>4. raised' = raised
    BY <1>1, <2>1
  <2> QED BY <1>1, <2>2, <2>4
<1>4. ASSUME NEW i \in 1 .. Len(calls'), calls'[i].kind = "landed"
      PROVE  backlog' = <<>> /\ ~eofPending'
  <2>1. ASSUME NEW j \in 1 .. Len(calls), calls'[i] = calls[j]
        PROVE  backlog' = <<>> /\ ~eofPending'
    <3>1. backlog = <<>> /\ ~eofPending
      BY <1>3, <1>4, <2>1 DEF Stack
    <3>2. calls # <<>>
      BY EmptySeq
    <3> QED BY <3>1, <3>2, WaitingGrows
  <2>2. CASE Receiving
    <3>1. PICK c \in Calls : NewCall(c)
      BY <2>2, CallsMove
    <3>2. CASE calls'[i] = c
      <4>1. calls = <<>> /\ ~readPaused
        BY <1>4, <3>1, <3>2 DEF NewCall
      <4>2. backlog = <<>> /\ ~eofPending
        BY <1>3, <4>1 DEF Stack
      <4> QED BY <4>1, <4>2, WaitingGrows
    <3> QED BY <2>1, <3>1, <3>2 DEF NewCall, Moves
  <2>3. CASE Sending
    <3>1. UNCHANGED calls
      BY <2>3 DEF Sending, Write, SendEof, SenderGone, SwitchOff, SetLimits, SwitchOn
    <3> QED BY <2>1, <3>1
  <2> QED BY <2>2, <2>3 DEF Next
<1> QED BY <1>2, <1>4 DEF Stack

-----------------------------------------------------------------------------
\* The line from the writer to the reader

\* How long the parts of the line are.
LineLengths == /\ Len(got) \in Nat /\ Len(backlog) \in Nat /\ Len(flight) \in Nat
               /\ Len(size) \in Nat /\ Arrived \in Nat /\ Total \in Nat
               /\ Len(got) + Len(backlog) <= Arrived

LEMMA LengthsAre ==
    ASSUME FlowTypes
    PROVE  LineLengths
<1>1. /\ Len(got) \in Nat /\ Len(backlog) \in Nat /\ Len(flight) \in Nat /\ Len(size) \in Nat
  BY LenProperties DEF FlowTypes
<1> QED BY <1>1 DEF LineLengths, Arrived, Total

\* Steps that move nothing along the line.
LEMMA LineStands ==
    ASSUME Line, UNCHANGED <<got, backlog, eofPending, flight, size, eofSent>>,
           ~raised' => ~raised,
           receiver' = "open" => receiver = "open"
    PROVE  Line'
BY DEF Line, HandedUp, OnItsWay, Arrived, Total, Sent

LEMMA WritingKeepsLine ==
    ASSUME FlowTypes, Line, NEW n \in Nat, ~eofSent,
           size' = Append(size, n), flight' = Append(flight, Len(size) + 1),
           UNCHANGED <<got, backlog, eofPending, eofSent, receiver, raised>>
    PROVE  Line'
<1>1. LineLengths
  BY LengthsAre
<1>2. size \in Seq(Nat) /\ flight \in Seq(Nat) /\ Len(size) + 1 \in Nat
  BY <1>1 DEF FlowTypes, LineLengths
<1>3. /\ Len(size') = Len(size) + 1 /\ Len(flight') = Len(flight) + 1
      /\ flight'[Len(flight) + 1] = Len(size) + 1
      /\ \A i \in 1 .. Len(flight) : flight'[i] = flight[i]
  BY <1>2, Appended
<1>4. Total = Len(size) /\ Total' = Len(size) + 1 /\ Arrived' = Arrived
  BY <1>3 DEF Total, Arrived
<1>5. \A i \in 1 .. Len(size) : Sent(i)' = i /\ Sent(i) = i
  BY <1>1, <1>3 DEF LineLengths, Sent
<1>6. ASSUME ~raised PROVE HandedUp'
  <2>1. Len(got) <= Len(size) /\ \A i \in 1 .. Len(got) : got[i] = Sent(i)
    BY <1>4, <1>6 DEF Line, HandedUp
  <2>2. \A i \in 1 .. Len(got) : i \in 1 .. Len(size)
    BY <1>1, <2>1 DEF LineLengths
  <2>3. Len(got) <= Total'
    BY <1>1, <1>4, <2>1 DEF LineLengths
  <2> QED BY <1>5, <2>1, <2>2, <2>3 DEF HandedUp
<1>7. ASSUME ~raised, receiver = "open" PROVE OnItsWay'
  <2>1. /\ \A i \in 1 .. Len(backlog) : backlog[i] = Sent(Len(got) + i)
        /\ eofPending => Arrived = Len(size) + 1
        /\ \A i \in 1 .. Len(flight) : flight[i] = Sent(Arrived + i)
        /\ Arrived + Len(flight) = Len(size)
    BY <1>4, <1>7 DEF Line, OnItsWay
  <2>2. ~eofPending
    BY <1>1, <2>1 DEF LineLengths
  <2>3. \A i \in 1 .. Len(backlog) : Len(got) + i \in 1 .. Len(size)
    BY <1>1, <2>1 DEF LineLengths
  <2>4. \A i \in 1 .. Len(flight) : Arrived + i \in 1 .. Len(size)
    BY <1>1, <2>1 DEF LineLengths
  <2>5. ASSUME NEW i \in 1 .. Len(flight') PROVE flight'[i] = Sent(Arrived + i)'
    <3>1. CASE i = Len(flight) + 1
      <4>0. Arrived + Len(flight) = Len(size)
        BY <2>1
      <4>1. Arrived + i = Len(size) + 1
        BY <1>1, <3>1, <4>0 DEF LineLengths
      <4>2. flight'[i] = Len(size) + 1
        BY <1>3, <3>1
      <4>3. Arrived + i # Len(size') + 1
        BY <1>1, <1>3, <4>1 DEF LineLengths
      <4> QED BY <1>4, <4>1, <4>2, <4>3 DEF Sent
    <3>2. CASE i \in 1 .. Len(flight)
      <4>1. PICK k : k = Arrived + i
        OBVIOUS
      <4>2. k \in 1 .. Len(size) /\ flight'[i] = k
        BY <1>3, <1>5, <2>1, <2>4, <3>2, <4>1
      <4> QED BY <1>1, <1>3, <1>4, <4>1, <4>2 DEF Sent, LineLengths
    <3> QED BY <3>1, <3>2, <1>1, <1>3 DEF LineLengths
  <2>6. ASSUME NEW i \in 1 .. Len(backlog') PROVE backlog'[i] = Sent(Len(got) + i)'
    <3>1. PICK k : k = Len(got) + i
      OBVIOUS
    <3>2. k \in 1 .. Len(size) /\ backlog'[i] = k
      BY <1>5, <2>1, <2>3, <3>1
    <3> QED BY <1>1, <1>3, <3>1, <3>2 DEF Sent, LineLengths
  <2>7. Arrived' + Len(flight') = Total'
    BY <1>1, <1>3, <1>4, <2>1 DEF LineLengths
  <2> QED BY <2>2, <2>5, <2>6, <2>7 DEF OnItsWay
<1> QED BY <1>6, <1>7 DEF Line

LEMMA EofKeepsLine ==
    ASSUME FlowTypes, Line, ~eofSent, eofSent' = TRUE, flight' = Append(flight, Eof),
           UNCHANGED <<size, got, backlog, eofPending, receiver, raised>>
    PROVE  Line'
<1>1. LineLengths
  BY LengthsAre
<1>2. flight \in Seq(Nat) /\ Eof \in Nat
  BY DEF FlowTypes, Eof
<1>3. /\ Len(flight') = Len(flight) + 1 /\ flight'[Len(flight) + 1] = Eof
      /\ \A i \in 1 .. Len(flight) : flight'[i] = flight[i]
  BY <1>2, Appended
<1>4. Total = Len(size) /\ Total' = Len(size) + 1 /\ Arrived' = Arrived
  BY DEF Total, Arrived
<1>5. ASSUME ~raised PROVE HandedUp'
  <2>1. Len(got) <= Len(size) + 1
    BY <1>1, <1>4, <1>5 DEF Line, HandedUp, LineLengths
  <2> QED BY <1>4, <1>5, <2>1 DEF Line, HandedUp, Sent
<1>6. ASSUME ~raised, receiver = "open" PROVE OnItsWay'
  <2>1. /\ \A i \in 1 .. Len(flight) : flight[i] = Sent(Arrived + i)
        /\ Arrived + Len(flight) = Len(size)
    BY <1>4, <1>6 DEF Line, OnItsWay
  <2>2. ASSUME NEW i \in 1 .. Len(flight') PROVE flight'[i] = Sent(Arrived + i)
    <3>1. CASE i = Len(flight) + 1
      <4>1. Arrived + i = Len(size) + 1
        BY <1>1, <2>1, <3>1 DEF LineLengths
      <4> QED BY <1>3, <3>1, <4>1 DEF Sent
    <3>2. CASE i \in 1 .. Len(flight)
      BY <1>3, <2>1, <3>2
    <3> QED BY <3>1, <3>2, <1>1, <1>3 DEF LineLengths
  <2>3. Arrived' + Len(flight') = Total'
    BY <1>1, <1>3, <1>4, <2>1 DEF LineLengths
  <2> QED BY <1>4, <1>6, <2>2, <2>3 DEF Line, OnItsWay, Sent
<1> QED BY <1>5, <1>6 DEF Line

\* The first packet in flight, while the receiving end is open: it is the next
\* of the line, and no eof waits before it.
LEMMA NextInFlight ==
    ASSUME FlowTypes, OnItsWay, flight # <<>>
    PROVE  /\ ~eofPending /\ Arrived = Len(got) + Len(backlog)
           /\ Head(flight) = Sent(Arrived + 1) /\ Arrived < Total
           /\ Head(flight) = Eof => Arrived = Len(size)
<1>1. LineLengths
  BY LengthsAre
<1>2. Len(flight) \in Nat \ {0} /\ Head(flight) = flight[1]
  BY HeadTail DEF FlowTypes
<1>3. Arrived + Len(flight) = Total /\ (eofPending => Arrived = Len(size) + 1)
  BY DEF OnItsWay
<1>4. Arrived < Total
  BY <1>1, <1>2, <1>3 DEF LineLengths
<1>5. ~eofPending
  <2>1. Total <= Len(size) + 1
    BY <1>1 DEF LineLengths, Total
  <2> QED BY <1>1, <1>3, <1>4, <2>1 DEF LineLengths
<1>6. Arrived = Len(got) + Len(backlog)
  BY <1>1, <1>5 DEF Arrived, LineLengths
<1>7. Head(flight) = Sent(Arrived + 1)
  <2>1. 1 \in 1 .. Len(flight)
    BY <1>2
  <2> QED BY <1>2, <2>1 DEF OnItsWay
<1>8. ASSUME Head(flight) = Eof PROVE Arrived = Len(size)
  BY <1>1, <1>7, <1>8 DEF Sent, Eof, LineLengths
<1> QED BY <1>4, <1>5, <1>6, <1>7, <1>8

\* What one count gains and another loses leaves their sum.
LEMMA OneMovesOn ==
    ASSUME NEW here \in Nat, NEW there \in Nat, NEW hereNow, NEW thereNow,
           hereNow = here + 1, thereNow = there - 1
    PROVE  hereNow + thereNow = here + there
  OBVIOUS

\* It joins what has arrived: handed up if nothing waits, or behind what does.
LEMMA ArrivalKeepsLine ==
    ASSUME FlowTypes, Line, ~raised, receiver = "open",
           flight # <<>>, flight' = Tail(flight),
           UNCHANGED <<size, eofSent, receiver, raised>>,
           \/ /\ backlog = <<>> /\ got' = Append(got, Head(flight))
              /\ UNCHANGED <<backlog, eofPending>>
           \/ backlog' = Append(backlog, Head(flight)) /\ UNCHANGED <<got, eofPending>>
           \/ Head(flight) = Eof /\ eofPending' = TRUE /\ UNCHANGED <<got, backlog>>
    PROVE  Line'
<1>1. LineLengths
  BY LengthsAre
<1>2. OnItsWay /\ HandedUp
  BY DEF Line
<1>3. /\ ~eofPending /\ Arrived = Len(got) + Len(backlog)
      /\ Head(flight) = Sent(Arrived + 1) /\ Arrived < Total
      /\ Head(flight) = Eof => Arrived = Len(size)
  BY <1>2, NextInFlight
<1>4. /\ Head(flight) \in Nat /\ Len(flight) \in Nat \ {0}
      /\ Len(flight') = Len(flight) - 1
      /\ \A i \in 1 .. Len(flight) - 1 : flight'[i] = flight[i + 1]
  BY HeadTail DEF FlowTypes
<1>5. Total' = Total /\ \A i : Sent(i)' = Sent(i)
  BY DEF Total, Sent
<1>6. /\ Arrived' = Arrived + 1
      /\ Len(got') <= Total /\ \A i \in 1 .. Len(got') : got'[i] = Sent(i)
      /\ \A i \in 1 .. Len(backlog') : backlog'[i] = Sent(Len(got') + i)
      /\ eofPending' => Arrived' = Len(size) + 1
  <2>1. /\ Len(got) <= Total /\ \A i \in 1 .. Len(got) : got[i] = Sent(i)
        /\ \A i \in 1 .. Len(backlog) : backlog[i] = Sent(Len(got) + i)
    BY <1>2 DEF HandedUp, OnItsWay
  <2>2. CASE /\ backlog = <<>> /\ got' = Append(got, Head(flight))
             /\ UNCHANGED <<backlog, eofPending>>
    <3>1. /\ Len(got') = Len(got) + 1 /\ got'[Len(got) + 1] = Head(flight)
          /\ \A i \in 1 .. Len(got) : got'[i] = got[i]
      BY <1>4, <2>2, Appended DEF FlowTypes
    <3>2. Len(backlog) = 0 /\ Len(backlog') = 0 /\ Arrived = Len(got)
      BY <1>1, <1>3, <2>2, EmptySeq DEF LineLengths
    <3>3. Arrived' = Arrived + 1
      BY <1>1, <1>3, <2>2, <3>1, <3>2 DEF Arrived, LineLengths
    <3>4. \A i \in 1 .. Len(got') : i = Len(got) + 1 \/ i \in 1 .. Len(got)
      BY <1>1, <3>1 DEF LineLengths
    <3>5. \A i \in 1 .. Len(got') : got'[i] = Sent(i)
      BY <1>3, <2>1, <3>1, <3>2, <3>4
    <3>6. Len(got') <= Total
      BY <1>1, <1>3, <3>1, <3>2 DEF LineLengths
    <3> QED BY <1>3, <2>2, <3>2, <3>3, <3>5, <3>6
  <2>3. CASE backlog' = Append(backlog, Head(flight)) /\ UNCHANGED <<got, eofPending>>
    <3>1. /\ Len(backlog') = Len(backlog) + 1 /\ backlog'[Len(backlog) + 1] = Head(flight)
          /\ \A i \in 1 .. Len(backlog) : backlog'[i] = backlog[i]
      BY <1>4, <2>3, Appended DEF FlowTypes
    <3>2. Arrived' = Arrived + 1
      BY <1>1, <1>3, <2>3, <3>1 DEF Arrived, LineLengths
    <3>3. \A i \in 1 .. Len(backlog') : i = Len(backlog) + 1 \/ i \in 1 .. Len(backlog)
      BY <1>1, <3>1 DEF LineLengths
    <3>4. Arrived + 1 = Len(got) + (Len(backlog) + 1)
      BY <1>1, <1>3 DEF LineLengths
    <3>5. backlog'[Len(backlog) + 1] = Sent(Len(got) + (Len(backlog) + 1))
      BY <1>3, <3>1, <3>4
    <3>6. \A i \in 1 .. Len(backlog') : backlog'[i] = Sent(Len(got') + i)
      BY <2>1, <2>3, <3>1, <3>3, <3>5
    <3> QED BY <1>3, <2>1, <2>3, <3>2, <3>6
  <2>4. CASE Head(flight) = Eof /\ eofPending' = TRUE /\ UNCHANGED <<got, backlog>>
    <3>1. Arrived' = Arrived + 1 /\ Arrived = Len(size)
      BY <1>1, <1>3, <2>4 DEF Arrived, LineLengths
    <3> QED BY <2>1, <2>4, <3>1
  <2> QED BY <2>2, <2>3, <2>4
<1>7. HandedUp'
  BY <1>5, <1>6 DEF HandedUp
<1>8. OnItsWay'
  <2>1. Arrived' + Len(flight') = Total'
    <3>1. Arrived + Len(flight) = Total /\ Total' = Total /\ Arrived' = Arrived + 1
      BY <1>2, <1>5, <1>6 DEF OnItsWay
    <3>2. Len(flight) \in Nat /\ Len(flight') = Len(flight) - 1
      BY <1>4
    <3>3. Arrived \in Nat
      BY <1>1 DEF LineLengths
    <3>4. Arrived' + Len(flight') = Arrived + Len(flight)
      BY <3>1, <3>2, <3>3, OneMovesOn
    <3> QED BY <3>1, <3>4
  <2>2. ASSUME NEW i \in 1 .. Len(flight') PROVE flight'[i] = Sent(Arrived' + i)
    <3>1. /\ i \in 1 .. Len(flight) - 1 /\ i + 1 \in 1 .. Len(flight)
          /\ Arrived' + i = Arrived + (i + 1)
      BY <1>1, <1>4, <1>6 DEF LineLengths
    <3>2. flight[i + 1] = Sent(Arrived + (i + 1))
      BY <1>2, <3>1 DEF OnItsWay
    <3> QED BY <1>4, <3>1, <3>2
  <2> QED BY <1>5, <1>6, <2>1, <2>2 DEF OnItsWay, Sent
<1> QED BY <1>7, <1>8 DEF Line

\* One turn of resume_reading's loop hands up the first of the backlog.
LEMMA DrainOneKeepsLine ==
    ASSUME FlowTypes, Line, DrainOne
    PROVE  Line'
<1>1. /\ backlog # <<>> /\ got' = Append(got, Head(backlog)) /\ backlog' = Tail(backlog)
      /\ receiver = "open"
      /\ UNCHANGED <<size, eofSent, flight, receiver, eofPending, raised>>
  BY DEF DrainOne, Reading, sendVars
<1>2. SUFFICES ASSUME ~raised PROVE HandedUp' /\ OnItsWay'
  BY <1>1 DEF Line
<1>3. LineLengths
  BY LengthsAre
<1>4. HandedUp /\ OnItsWay
  BY <1>1, <1>2 DEF Line
<1>5. /\ Head(backlog) \in Nat /\ Head(backlog) = backlog[1] /\ Len(backlog) \in Nat \ {0}
      /\ Len(backlog') = Len(backlog) - 1
      /\ \A i \in 1 .. Len(backlog) - 1 : backlog'[i] = backlog[i + 1]
  BY <1>1, HeadTail DEF FlowTypes
<1>6. /\ Len(got') = Len(got) + 1 /\ got'[Len(got) + 1] = Head(backlog)
      /\ \A i \in 1 .. Len(got) : got'[i] = got[i]
  BY <1>1, <1>5, Appended DEF FlowTypes
<1>7. Len(got) \in Nat /\ Len(backlog) \in Nat /\ Total \in Nat
  BY <1>3 DEF LineLengths
<1>8. Arrived' = Arrived
  <2>1. Len(got') = Len(got) + 1 /\ Len(backlog') = Len(backlog) - 1
    BY <1>5, <1>6
  <2> QED BY <1>1, <1>7, <2>1 DEF Arrived
<1>9. Total' = Total /\ \A i : Sent(i)' = Sent(i)
  BY <1>1 DEF Total, Sent
<1>10. HandedUp'
  <2>1. Len(got') <= Total
    <3>1. Len(got) + Len(backlog) <= Arrived /\ Arrived \in Nat /\ Len(flight) \in Nat
      BY <1>3 DEF LineLengths
    <3>2. Arrived + Len(flight) = Total
      BY <1>4 DEF OnItsWay
    <3>3. Len(got') = Len(got) + 1 /\ Len(backlog) # 0
      BY <1>5, <1>6
    <3> QED BY <1>7, <3>1, <3>2, <3>3
  <2>2. got'[Len(got) + 1] = Sent(Len(got) + 1)
    <3>1. 1 \in 1 .. Len(backlog)
      BY <1>5
    <3> QED BY <1>4, <1>5, <1>6, <3>1 DEF OnItsWay
  <2>3. \A i \in 1 .. Len(got') : i = Len(got) + 1 \/ i \in 1 .. Len(got)
    BY <1>6, <1>7
  <2>4. \A i \in 1 .. Len(got) : got'[i] = Sent(i)
    BY <1>4, <1>6 DEF HandedUp
  <2> QED BY <1>9, <2>1, <2>2, <2>3, <2>4 DEF HandedUp
<1>11. OnItsWay'
  <2>1. ASSUME NEW i \in 1 .. Len(backlog') PROVE backlog'[i] = Sent(Len(got') + i)
    <3>1. i \in 1 .. Len(backlog) - 1 /\ i + 1 \in 1 .. Len(backlog)
      BY <1>5
    <3>2. Len(got') + i = Len(got) + (i + 1)
      <4>1. Len(got') = Len(got) + 1
        BY <1>6
      <4> QED BY <1>7, <4>1
    <3>3. backlog[i + 1] = Sent(Len(got) + (i + 1))
      BY <1>4, <3>1 DEF OnItsWay
    <3> QED BY <1>5, <3>1, <3>2, <3>3
  <2> QED BY <1>1, <1>4, <1>8, <1>9, <2>1 DEF OnItsWay
<1> QED BY <1>10, <1>11

\* And its end the eof that waited, when nothing waits before it.
LEMMA DrainEndsKeepsLine ==
    ASSUME FlowTypes, Line, DrainEnds
    PROVE  Line'
<1>1. /\ ~(backlog # <<>> /\ Reading)
      /\ UNCHANGED <<size, eofSent, flight, receiver, backlog, raised>>
      /\ readPaused \in BOOLEAN /\ eofPending \in BOOLEAN
  BY DEF DrainEnds, sendVars, FlowTypes
<1>2. CASE eofPending /\ Reading
  <2>1. /\ got' = Append(got, Eof) /\ backlog = <<>> /\ receiver = "open"
    BY <1>1, <1>2, Zenon DEF DrainEnds, Reading
  <2>2. ~eofPending'
    BY <1>2, Zenon DEF DrainEnds
  <2>3. SUFFICES ASSUME ~raised PROVE HandedUp' /\ OnItsWay'
    BY <1>1 DEF Line
  <2>4. LineLengths
    BY LengthsAre
  <2>5. HandedUp /\ OnItsWay
    BY <2>1, <2>3 DEF Line
  <2>6. Len(backlog) = 0 /\ Len(got) \in Nat /\ Len(size) \in Nat
    BY <2>1, <2>4, EmptySeq DEF LineLengths
  <2>7. Arrived = Len(size) + 1 /\ Arrived = Len(got) + 1
    BY <1>2, <2>5, <2>6 DEF OnItsWay, Arrived
  <2>8. Len(got) = Len(size)
    BY <2>6, <2>7
  <2>9. /\ Len(got') = Len(got) + 1 /\ got'[Len(got) + 1] = Eof
        /\ \A i \in 1 .. Len(got) : got'[i] = got[i]
    <3>1. got \in Seq(Nat) /\ Eof \in Nat
      BY DEF FlowTypes, Eof
    <3> QED BY <2>1, <3>1, Appended
  <2>10. Arrived' = Arrived
    <3>1. Len(got') = Len(got) + 1
      BY <2>9
    <3> QED BY <1>1, <2>2, <2>6, <2>7, <3>1 DEF Arrived
  <2>11. Total' = Total /\ \A i : Sent(i)' = Sent(i)
    BY <1>1 DEF Total, Sent
  <2>12. HandedUp'
    <3>1. got'[Len(got) + 1] = Sent(Len(got) + 1)
      BY <2>8, <2>9 DEF Sent
    <3>2. \A i \in 1 .. Len(got') : i = Len(got) + 1 \/ i \in 1 .. Len(got)
      BY <2>6, <2>9
    <3>3. \A i \in 1 .. Len(got) : got'[i] = Sent(i)
      BY <2>5, <2>9 DEF HandedUp
    <3>4. Len(got') <= Total
      <4>1. Arrived + Len(flight) = Total /\ Arrived = Len(got) + 1 /\ Len(got') = Len(got) + 1
        BY <2>5, <2>7, <2>9 DEF OnItsWay
      <4>2. Len(flight) \in Nat /\ Total \in Nat
        BY <2>4 DEF LineLengths
      <4> QED BY <2>6, <4>1, <4>2
    <3> QED BY <2>11, <3>1, <3>2, <3>3, <3>4 DEF HandedUp
  <2>13. OnItsWay'
    BY <1>1, <2>2, <2>5, <2>6, <2>10, <2>11 DEF OnItsWay
  <2> QED BY <2>12, <2>13
<1>3. CASE ~(eofPending /\ Reading)
  <2>1. UNCHANGED got
    BY <1>3 DEF DrainEnds
  <2>2. eofPending' = eofPending
    BY <1>1, <1>3, Zenon DEF DrainEnds
  <2>3. UNCHANGED <<got, backlog, eofPending, flight, size, eofSent>>
    BY <1>1, <2>1, <2>2
  <2> QED BY <1>1, <2>3, LineStands
<1> QED BY <1>2, <1>3

\* What lands is dropped, or joins the line where ArrivalKeepsLine says: it is
\* handed up only when nothing waits (Stack).
LEMMA LandingKeepsLine ==
    ASSUME FlowTypes, Stack, Line, Arriving
    PROVE  Line'
<1>1. /\ calls = <<>> /\ flight # <<>> /\ flight' = Tail(flight)
      /\ UNCHANGED <<size, eofSent, receiver, raised>>
  BY DEF Arriving, DataArrives, EofArrives, sendVars
<1>2. /\ readPaused \in BOOLEAN /\ eofPending \in BOOLEAN
      /\ receiver \in {"open", "closed"}
  BY DEF FlowTypes
<1>3. CASE receiver = "closed"
  <2>1. UNCHANGED got
    BY <1>3 DEF Arriving, DataArrives, EofArrives
  <2> QED BY <1>1, <1>3, <2>1 DEF Line, HandedUp, Total, Sent
<1>4. CASE receiver = "open" /\ ~raised
  <2>1. ~readPaused => backlog = <<>> /\ ~eofPending
    BY <1>1, <1>2, <1>4 DEF Stack
  <2>2. \/ /\ backlog = <<>> /\ got' = Append(got, Head(flight))
           /\ UNCHANGED <<backlog, eofPending>>
        \/ backlog' = Append(backlog, Head(flight)) /\ UNCHANGED <<got, eofPending>>
        \/ Head(flight) = Eof /\ eofPending' = TRUE /\ UNCHANGED <<got, backlog>>
    <3>1. CASE DataArrives
      BY <1>2, <1>4, <2>1, <3>1 DEF DataArrives
    <3>2. CASE EofArrives /\ readPaused
      <4>1. Head(flight) = Eof /\ UNCHANGED <<got, backlog>>
        BY <3>2 DEF EofArrives
      <4>2. eofPending' = TRUE
        <5>1. eofPending' = (eofPending \/ (receiver = "open" /\ readPaused))
          BY <3>2 DEF EofArrives
        <5>2. (eofPending \/ (receiver = "open" /\ readPaused)) = TRUE
          BY <1>4, <3>2
        <5> QED BY <5>1, <5>2
      <4> QED BY <4>1, <4>2
    <3>3. CASE EofArrives /\ ~readPaused
      <4>1. backlog = <<>> /\ UNCHANGED backlog /\ got' = Append(got, Head(flight))
        BY <1>4, <2>1, <3>3 DEF EofArrives
      <4>2. eofPending' = eofPending
        <5>1. eofPending' = (eofPending \/ (receiver = "open" /\ readPaused))
          BY <3>3 DEF EofArrives
        <5> QED BY <1>2, <3>3, <5>1, Zenon
      <4> QED BY <4>1, <4>2
    <3> QED BY <1>2, <3>1, <3>2, <3>3 DEF Arriving
  <2> QED BY <1>1, <1>4, <2>2, ArrivalKeepsLine
<1>5. CASE raised
  BY <1>1, <1>5 DEF Line
<1> QED BY <1>2, <1>3, <1>4, <1>5

LEMMA NextKeepsLine ==
    ASSUME FlowAssumption, FlowTypes, Stack, Line, Next
    PROVE  Line'
<1>1. ASSUME NEW n \in Sizes, Write(n) PROVE Line'
  <2>1. n \in Nat
    BY DEF FlowAssumption
  <2>2. /\ ~eofSent /\ size' = Append(size, n) /\ flight' = Append(flight, Len(size) + 1)
        /\ UNCHANGED <<got, backlog, eofPending, eofSent, receiver, raised>>
    BY <1>1 DEF Write, readVars
  <2> QED BY <2>1, <2>2, WritingKeepsLine
<1>2. ASSUME NEW closing \in BOOLEAN, SendEof(closing) PROVE Line'
  <2>1. /\ eofSent' = TRUE /\ flight' = IF eofSent THEN flight ELSE Append(flight, Eof)
        /\ UNCHANGED <<size, got, backlog, eofPending, receiver, raised>>
        /\ eofSent \in BOOLEAN
    BY <1>2 DEF SendEof, readVars, FlowTypes
  <2>2. CASE eofSent
    <3>1. UNCHANGED <<got, backlog, eofPending, flight, size, eofSent>>
      BY <2>1, <2>2
    <3> QED BY <2>1, <3>1, LineStands
  <2>3. CASE ~eofSent
    BY <2>1, <2>3, EofKeepsLine
  <2> QED BY <2>1, <2>2, <2>3
<1>3. CASE SenderGone \/ SwitchOff \/ \E m \in Marks : SetLimits(m) \/ SwitchOn(m)
  <2>1. UNCHANGED <<got, backlog, eofPending, flight, size, eofSent, receiver, raised>>
    BY <1>3 DEF SenderGone, SwitchOff, SetLimits, SwitchOn, sendVars, readVars
  <2> QED BY <2>1, LineStands
<1>4. CASE Arriving
  BY <1>4, LandingKeepsLine
<1>5. CASE DrainOne
  BY <1>5, DrainOneKeepsLine
<1>6. CASE DrainEnds
  BY <1>6, DrainEndsKeepsLine
<1>7. CASE Return \/ WriterReturns \/ PauseReading \/ ResumeReading
  <2>1. UNCHANGED <<got, backlog, eofPending, flight, size, eofSent, receiver, raised>>
    BY <1>7 DEF Return, WriterReturns, PauseReading, ResumeReading, sendVars, readVars
  <2> QED BY <2>1, LineStands
<1>8. CASE Raise
  <2>1. raised'
    BY <1>8, Zenon DEF Raise
  <2> QED BY <2>1 DEF Line
<1>9. CASE ReceiverGone
  <2>1. /\ UNCHANGED <<got, backlog, eofPending, flight, size, eofSent, raised>>
        /\ receiver' # "open"
    BY <1>9 DEF ReceiverGone, sendVars
  <2> QED BY <2>1, LineStands
<1> QED BY <1>1, <1>2, <1>3, <1>4, <1>5, <1>6, <1>7, <1>8, <1>9
     DEF Next, Sending, Receiving, Draining, Returning

-----------------------------------------------------------------------------
\* The bytes of a set of chunks

\* A set of naturals that holds 0, and every number up to N whose predecessor
\* it holds, holds them all: its least gap has no predecessor.
LEMMA Counted ==
    ASSUME NEW N \in Nat, NEW S, 0 \in S,
           \A m \in 1 .. N : m - 1 \in S => m \in S
    PROVE  0 .. N \subseteq S
<1> DEFINE Gaps == {m \in 0 .. N : m \notin S}
<1>1. SUFFICES ASSUME Gaps # {} PROVE FALSE
  OBVIOUS
<1>2. PICK p \in Gaps : \A q \in Gaps : <<q, p>> \notin OpToRel(<, Nat)
  <2>1. Gaps \in SUBSET Nat
    OBVIOUS
  <2> HIDE DEF Gaps
  <2> QED BY <1>1, <2>1, NatLessThanWellFounded, WFMin
<1>3. p \in 1 .. N /\ p \notin S /\ p - 1 \in 0 .. N
  <2>1. p \in 0 .. N /\ p \notin S
    OBVIOUS
  <2>2. p # 0
    BY <2>1
  <2> QED BY <2>1, <2>2
<1>4. p - 1 \in Gaps
  BY <1>3
<1>5. <<p - 1, p>> \in OpToRel(<, Nat)
  <2>1. <<p - 1, p>> \in Nat \X Nat /\ <<p - 1, p>>[1] < <<p - 1, p>>[2]
    BY <1>3
  <2> QED BY <2>1, Zenon DEF OpToRel
<1> QED BY <1>2, <1>4, <1>5

\* What chunk n adds to the sum, and the sum over the first m of them.
Share(sizes, chunks, n) == IF n \in chunks THEN sizes[n] ELSE 0

Sums(f, sizes, chunks, m) ==
    /\ f \in [0 .. m -> Nat] /\ f[0] = 0
    /\ \A n \in 1 .. m : f[n] = f[n - 1] + Share(sizes, chunks, n)

LEMMA Shared ==
    ASSUME NEW sizes \in Seq(Nat), NEW chunks
    PROVE  /\ Len(sizes) \in Nat
           /\ \A n \in 1 .. Len(sizes) : Share(sizes, chunks, n) \in Nat
<1>1. Len(sizes) \in Nat /\ \A n \in 1 .. Len(sizes) : sizes[n] \in Nat
  BY LenProperties, ElementOfSeq
<1> QED BY <1>1 DEF Share

LEMMA SumsExist ==
    ASSUME NEW sizes \in Seq(Nat), NEW chunks
    PROVE  \E f : Sums(f, sizes, chunks, Len(sizes))
<1> DEFINE Summed == {m \in 0 .. Len(sizes) : \E f : Sums(f, sizes, chunks, m)}
<1>1. Len(sizes) \in Nat
  BY Shared
<1>2. 0 \in Summed
  <2>1. PICK f : f = [n \in 0 .. 0 |-> 0]
    OBVIOUS
  <2>2. Sums(f, sizes, chunks, 0)
    BY <2>1 DEF Sums
  <2> QED BY <1>1, <2>2
<1>3. ASSUME NEW m \in 1 .. Len(sizes), m - 1 \in Summed PROVE m \in Summed
  <2>1. PICK f : Sums(f, sizes, chunks, m - 1)
    BY <1>3
  <2>2. PICK g : g = [n \in 0 .. m |-> IF n = m THEN f[m - 1] + Share(sizes, chunks, m) ELSE f[n]]
    OBVIOUS
  <2>3. m - 1 \in 0 .. m - 1 /\ m \in Nat /\ m \in 0 .. Len(sizes) /\ 0 \in 0 .. m - 1
    BY <1>1
  <2>4. \A n \in 0 .. m - 1 : g[n] = f[n] /\ f[n] \in Nat
    BY <2>1, <2>2, <2>3 DEF Sums
  <2>5. g[m] = g[m - 1] + Share(sizes, chunks, m) /\ g[m] \in Nat
    BY <2>2, <2>3, <2>4, Shared
  <2>6. g \in [0 .. m -> Nat]
    <3>1. \A n \in 0 .. m : n = m \/ n \in 0 .. m - 1
      BY <2>3
    <3>2. \A n \in 0 .. m : g[n] \in Nat
      BY <2>4, <2>5, <3>1
    <3> QED BY <2>2, <3>2
  <2>7. ASSUME NEW n \in 1 .. m PROVE g[n] = g[n - 1] + Share(sizes, chunks, n)
    <3>1. CASE n = m
      BY <2>5, <3>1
    <3>2. CASE n # m
      <4>1. n \in 0 .. m - 1 /\ n - 1 \in 0 .. m - 1 /\ n \in 1 .. m - 1
        BY <2>3, <3>2
      <4>2. f[n] = f[n - 1] + Share(sizes, chunks, n)
        BY <2>1, <4>1 DEF Sums
      <4> QED BY <2>4, <4>1, <4>2
    <3> QED BY <3>1, <3>2
  <2>8. g[0] = 0
    BY <2>1, <2>3, <2>4 DEF Sums
  <2>9. Sums(g, sizes, chunks, m)
    BY <2>6, <2>7, <2>8 DEF Sums
  <2> QED BY <2>3, <2>9
<1>4. Len(sizes) \in Summed
  <2>1. Len(sizes) \in 0 .. Len(sizes)
    BY <1>1
  <2> HIDE DEF Summed
  <2> QED BY <1>1, <1>2, <1>3, <2>1, Counted
<1> QED BY <1>4

\* Bytes is that sum over them all.
LEMMA BytesAre ==
    ASSUME NEW sizes \in Seq(Nat), NEW chunks
    PROVE  \E f : Sums(f, sizes, chunks, Len(sizes)) /\ Bytes(sizes, chunks) = f[Len(sizes)]
<1> DEFINE Defines(f) == f = [n \in 0 .. Len(sizes) |->
                            IF n = 0 THEN 0 ELSE f[n - 1] + Share(sizes, chunks, n)]
<1>1. Len(sizes) \in Nat /\ 0 \in 0 .. Len(sizes)
  BY Shared
<1>2. PICK g : Sums(g, sizes, chunks, Len(sizes))
  BY SumsExist
<1>3. Defines(g)
  <2>1. \A n \in 0 .. Len(sizes) : n = 0 \/ n \in 1 .. Len(sizes)
    BY <1>1
  <2> QED BY <1>2, <2>1 DEF Sums
<1>4. PICK f : f = CHOOSE h : Defines(h)
  OBVIOUS
<1>5. Defines(f)
  <2> HIDE DEF Defines
  <2> QED BY <1>3, <1>4
<1>6. Bytes(sizes, chunks) = f[Len(sizes)]
  BY <1>4 DEF Bytes, Share
<1>7. f[0] = 0 /\ \A n \in 1 .. Len(sizes) : f[n] = f[n - 1] + Share(sizes, chunks, n)
  <2>1. \A n \in 1 .. Len(sizes) : n \in 0 .. Len(sizes) /\ n # 0
    BY <1>1
  <2> QED BY <1>1, <1>5, <2>1
<1>8. \A n \in 0 .. Len(sizes) : f[n] \in Nat
  <2> DEFINE Natural == {n \in 0 .. Len(sizes) : f[n] \in Nat}
  <2>1. 0 \in Natural
    BY <1>1, <1>7
  <2>2. ASSUME NEW m \in 1 .. Len(sizes), m - 1 \in Natural PROVE m \in Natural
    BY <1>1, <1>7, <2>2, Shared
  <2>3. 0 .. Len(sizes) \subseteq Natural
    <3> HIDE DEF Natural
    <3> QED BY <1>1, <2>1, <2>2, Counted
  <2> QED BY <2>3
<1>9. Sums(f, sizes, chunks, Len(sizes))
  <2>1. f \in [0 .. Len(sizes) -> Nat]
    BY <1>5, <1>8
  <2> QED BY <1>7, <2>1 DEF Sums
<1> QED BY <1>6, <1>9

\* A chunk that is written adds its bytes.
LEMMA BytesAppended ==
    ASSUME NEW sizes \in Seq(Nat), NEW n \in Nat, NEW chunks
    PROVE  Bytes(Append(sizes, n), chunks \cup {Len(sizes) + 1})
              = Bytes(sizes, chunks \ {Len(sizes) + 1}) + n
<1>1. PICK longer, more, fewer : /\ longer = Append(sizes, n)
                                 /\ more = chunks \cup {Len(sizes) + 1}
                                 /\ fewer = chunks \ {Len(sizes) + 1}
  OBVIOUS
<1>2. /\ longer \in Seq(Nat) /\ Len(sizes) \in Nat /\ Len(longer) = Len(sizes) + 1
      /\ longer[Len(sizes) + 1] = n
      /\ \A m \in 1 .. Len(sizes) : longer[m] = sizes[m]
  BY <1>1, Appended
<1>3. PICK f : Sums(f, sizes, fewer, Len(sizes)) /\ Bytes(sizes, fewer) = f[Len(sizes)]
  BY BytesAre
<1>4. PICK g : Sums(g, longer, more, Len(longer)) /\ Bytes(longer, more) = g[Len(longer)]
  BY <1>2, BytesAre
<1> DEFINE Same == {m \in 0 .. Len(sizes) : g[m] = f[m]}
<1>5. 0 \in Same
  BY <1>2, <1>3, <1>4 DEF Sums
<1>6. ASSUME NEW m \in 1 .. Len(sizes), m - 1 \in Same PROVE m \in Same
  <2>1. m \in 1 .. Len(longer) /\ m \in 0 .. Len(sizes) /\ m # Len(sizes) + 1
    BY <1>2
  <2>2. Share(longer, more, m) = Share(sizes, fewer, m)
    BY <1>1, <1>2, <2>1 DEF Share
  <2>3. g[m - 1] = f[m - 1]
    BY <1>6
  <2>4. g[m] = f[m]
    BY <1>3, <1>4, <2>1, <2>2, <2>3 DEF Sums
  <2> QED BY <2>1, <2>4
<1>7. g[Len(sizes)] = f[Len(sizes)]
  <2>1. Len(sizes) \in 0 .. Len(sizes)
    BY <1>2
  <2>2. 0 .. Len(sizes) \subseteq Same
    <3> HIDE DEF Same
    <3> QED BY <1>2, <1>5, <1>6, Counted
  <2> QED BY <2>1, <2>2
<1>8. g[Len(longer)] = g[Len(sizes)] + n
  <2>1. Len(longer) \in 1 .. Len(longer) /\ Len(longer) - 1 = Len(sizes)
    BY <1>2
  <2>2. Share(longer, more, Len(longer)) = n
    BY <1>1, <1>2 DEF Share
  <2>3. g[Len(longer)] = g[Len(longer) - 1] + Share(longer, more, Len(longer))
    BY <1>4, <2>1 DEF Sums
  <2> QED BY <2>1, <2>2, <2>3
<1> QED BY <1>1, <1>3, <1>4, <1>7, <1>8

\* A chunk that is no longer counted takes its bytes away.
LEMMA BytesWithout ==
    ASSUME NEW sizes \in Seq(Nat), NEW chunks, NEW c \in chunks, c \in 1 .. Len(sizes)
    PROVE  /\ sizes[c] \in Nat /\ Bytes(sizes, chunks \ {c}) \in Nat
           /\ Bytes(sizes, chunks) = Bytes(sizes, chunks \ {c}) + sizes[c]
<1>1. PICK fewer : fewer = chunks \ {c}
  OBVIOUS
<1>2. Len(sizes) \in Nat /\ sizes[c] \in Nat
  BY Shared, ElementOfSeq
<1>3. PICK f : Sums(f, sizes, chunks, Len(sizes)) /\ Bytes(sizes, chunks) = f[Len(sizes)]
  BY BytesAre
<1>4. PICK g : Sums(g, sizes, fewer, Len(sizes)) /\ Bytes(sizes, fewer) = g[Len(sizes)]
  BY BytesAre
<1> DEFINE Apart == {m \in 0 .. Len(sizes) : f[m] = g[m] + (IF m < c THEN 0 ELSE sizes[c])}
<1>5. \A m \in 0 .. Len(sizes) : f[m] \in Nat /\ g[m] \in Nat
  BY <1>3, <1>4 DEF Sums
<1>6. 0 \in Apart
  <2>1. 0 \in 0 .. Len(sizes) /\ 0 < c /\ f[0] = 0 /\ g[0] = 0
    BY <1>2, <1>3, <1>4 DEF Sums
  <2> QED BY <2>1
<1>7. ASSUME NEW m \in 1 .. Len(sizes), m - 1 \in Apart PROVE m \in Apart
  <2>1. m \in 0 .. Len(sizes) /\ m - 1 \in 0 .. Len(sizes)
    BY <1>2
  <2>2. f[m - 1] = g[m - 1] + (IF m - 1 < c THEN 0 ELSE sizes[c])
    BY <1>7
  <2>3. f[m] = f[m - 1] + Share(sizes, chunks, m) /\ g[m] = g[m - 1] + Share(sizes, fewer, m)
    BY <1>3, <1>4 DEF Sums
  <2>4. Share(sizes, chunks, m) \in Nat /\ Share(sizes, fewer, m) \in Nat
    BY Shared
  <2>5. CASE m = c
    <3>1. Share(sizes, chunks, m) = sizes[c] /\ Share(sizes, fewer, m) = 0
      BY <1>1, <2>5 DEF Share
    <3>2. m - 1 < c /\ ~(m < c)
      BY <2>5
    <3>3. f[m] = g[m] + sizes[c]
      BY <1>2, <1>5, <2>1, <2>2, <2>3, <3>1, <3>2
    <3> QED BY <2>1, <3>2, <3>3
  <2>6. CASE m # c
    <3>1. Share(sizes, chunks, m) = Share(sizes, fewer, m)
      BY <1>1, <2>6 DEF Share
    <3>2. m - 1 < c <=> m < c
      BY <2>6
    <3>3. f[m] = g[m] + (IF m < c THEN 0 ELSE sizes[c])
      BY <1>2, <1>5, <2>1, <2>2, <2>3, <2>4, <3>1, <3>2
    <3> QED BY <2>1, <3>3
  <2> QED BY <2>5, <2>6
<1>8. f[Len(sizes)] = g[Len(sizes)] + sizes[c]
  <2>1. Len(sizes) \in 0 .. Len(sizes) /\ ~(Len(sizes) < c)
    BY <1>2
  <2>2. 0 .. Len(sizes) \subseteq Apart
    <3> HIDE DEF Apart
    <3> QED BY <1>2, <1>6, <1>7, Counted
  <2> QED BY <2>1, <2>2
<1>9. Len(sizes) \in 0 .. Len(sizes)
  BY <1>2
<1> QED BY <1>1, <1>2, <1>3, <1>4, <1>5, <1>8, <1>9

\* Whatever the chunks, the sum is a number.
LEMMA BytesNatural ==
    ASSUME NEW sizes \in Seq(Nat), NEW chunks
    PROVE  Bytes(sizes, chunks) \in Nat
<1>1. PICK f : Sums(f, sizes, chunks, Len(sizes)) /\ Bytes(sizes, chunks) = f[Len(sizes)]
  BY BytesAre
<1>2. Len(sizes) \in 0 .. Len(sizes)
  BY Shared
<1> QED BY <1>1, <1>2 DEF Sums

\* Where nothing was written, it is none.
LEMMA BytesOfNone == Bytes(<<>>, {}) = 0
<1>1. <<>> \in Seq(Nat) /\ Len(<<>>) = 0
  BY EmptySeq
<1>2. PICK f : Sums(f, <<>>, {}, Len(<<>>)) /\ Bytes(<<>>, {}) = f[Len(<<>>)]
  BY <1>1, BytesAre
<1> QED BY <1>1, <1>2 DEF Sums

-----------------------------------------------------------------------------
\* The chunks the sender owes for

\* Call i of stack s is in data_received.
Handles(s, i) == i \in 1 .. Len(s) /\ s[i].at = "handing"

LEMMA HandingIs ==
    ASSUME NEW c
    PROVE  /\ calls \in Seq(Calls) =>
                 (c \in Handing <=> \E i \in Nat : Handles(calls, i) /\ calls[i].chunk = c)
           /\ calls' \in Seq(Calls) =>
                 (c \in Handing' <=> \E i \in Nat : Handles(calls', i) /\ calls'[i].chunk = c)
<1>1. ASSUME calls \in Seq(Calls)
      PROVE  c \in Handing <=> \E i \in Nat : Handles(calls, i) /\ calls[i].chunk = c
  <2>1. DOMAIN calls = 1 .. Len(calls) /\ Len(calls) \in Nat
    BY <1>1, LenProperties
  <2> QED BY <2>1 DEF Handing, Handles
<1>2. ASSUME calls' \in Seq(Calls)
      PROVE  c \in Handing' <=> \E i \in Nat : Handles(calls', i) /\ calls'[i].chunk = c
  <2>1. DOMAIN calls' = 1 .. Len(calls') /\ Len(calls') \in Nat
    BY <1>2, LenProperties
  <2> QED BY <2>1 DEF Handing, Handles
<1> QED BY <1>1, <1>2

\* What a step does to the calls in data_received: nothing, the last one comes
\* back, or one joins for the next chunk.
Aside ==
    /\ calls' \in Seq(Calls)
    /\ \A i \in Nat : Handles(calls', i) <=> Handles(calls, i)
    /\ \A i \in Nat : Handles(calls', i) => calls'[i] = calls[i]

Leaves ==
    /\ calls' \in Seq(Calls) /\ Handles(calls, Len(calls))
    /\ \A i \in Nat : Handles(calls', i) <=> Handles(calls, i) /\ i # Len(calls)
    /\ \A i \in Nat : Handles(calls', i) => calls'[i] = calls[i]

Joins(h) ==
    /\ calls' \in Seq(Calls) /\ calls' # <<>>
    /\ calls'[Len(calls')].chunk = h
    /\ ~Handles(calls, Len(calls'))
    /\ \A i \in Nat : Handles(calls', i) <=> Handles(calls, i) \/ i = Len(calls')
    /\ \A i \in Nat : Handles(calls, i) => calls'[i] = calls[i]

HandlersAre(s, n) ==
    \A i \in Nat : Handles(s, i) =>
       s[i].chunk <= n /\ \A j \in Nat : Handles(s, j) /\ s[j].chunk = s[i].chunk => i = j

LEMMA HandlersRead ==
    /\ calls \in Seq(Calls) => (Handlers <=> HandlersAre(calls, Len(got)))
    /\ calls' \in Seq(Calls) => (Handlers' <=> HandlersAre(calls', Len(got')))
<1>1. ASSUME calls \in Seq(Calls) PROVE Handlers <=> HandlersAre(calls, Len(got))
  <2>1. Len(calls) \in Nat
    BY <1>1, LenProperties
  <2> QED BY <2>1 DEF Handlers, HandlersAre, Handles
<1>2. ASSUME calls' \in Seq(Calls) PROVE Handlers' <=> HandlersAre(calls', Len(got'))
  <2>1. Len(calls') \in Nat
    BY <1>2, LenProperties
  <2> QED BY <2>1 DEF Handlers, HandlersAre, Handles
<1> QED BY <1>1, <1>2

\* A call in data_received is for a chunk with a number.
LEMMA ChunkNumbers ==
    ASSUME NEW s \in Seq(Calls), NEW i, Handles(s, i)
    PROVE  s[i].chunk \in Nat /\ i \in Nat
<1>1. i \in 1 .. Len(s) /\ Len(s) \in Nat
  BY LenProperties DEF Handles
<1>2. s[i] \in Calls
  BY <1>1, ElementOfSeq
<1> QED BY <1>1, <1>2 DEF Calls

LEMMA AsideKeeps ==
    ASSUME calls \in Seq(Calls), Aside, Len(got) \in Nat, Len(got') \in Nat,
           Len(got) <= Len(got')
    PROVE  Handing' = Handing /\ (Handlers => Handlers')
<1>1. \A c : c \in Handing' <=> c \in Handing
  <2>1. TAKE c
  <2> QED BY HandingIs DEF Aside
<1>2. ASSUME Handlers PROVE Handlers'
  <2>1. HandlersAre(calls, Len(got))
    BY <1>2, HandlersRead
  <2>2. ASSUME NEW i \in Nat, Handles(calls', i)
        PROVE  /\ calls'[i].chunk <= Len(got')
               /\ \A j \in Nat : Handles(calls', j) /\ calls'[j].chunk = calls'[i].chunk => i = j
    <3>1. Handles(calls, i) /\ calls'[i] = calls[i]
      BY <2>2 DEF Aside
    <3>2. calls[i].chunk \in Nat
      BY <3>1, ChunkNumbers
    <3>3. calls[i].chunk <= Len(got)
      BY <2>1, <3>1 DEF HandlersAre
    <3>4. calls'[i].chunk <= Len(got')
      BY <3>1, <3>2, <3>3
    <3>5. ASSUME NEW j \in Nat, Handles(calls', j), calls'[j].chunk = calls'[i].chunk
          PROVE  i = j
      <4>1. Handles(calls, j) /\ calls'[j] = calls[j]
        BY <3>5 DEF Aside
      <4> QED BY <2>1, <3>1, <3>5, <4>1 DEF HandlersAre
    <3> QED BY <3>4, <3>5
  <2>3. HandlersAre(calls', Len(got'))
    BY <2>2 DEF HandlersAre
  <2> QED BY <2>3, HandlersRead DEF Aside
<1> QED BY <1>1, <1>2

LEMMA LeavesKeeps ==
    ASSUME calls \in Seq(Calls), Leaves, Handlers, UNCHANGED got
    PROVE  Handing' = Handing \ {Top.chunk} /\ Handlers' /\ Top.chunk \in Handing
<1>1. HandlersAre(calls, Len(got))
  BY HandlersRead
<1>2. Len(calls) \in Nat /\ Handles(calls, Len(calls)) /\ Top = calls[Len(calls)]
  BY LenProperties DEF Leaves, Top
<1>3. Top.chunk \in Handing
  BY <1>2, HandingIs
<1>4. ASSUME NEW c PROVE c \in Handing' <=> c \in Handing /\ c # Top.chunk
  <2>1. ASSUME c \in Handing' PROVE c \in Handing /\ c # Top.chunk
    <3>1. PICK i \in Nat : Handles(calls', i) /\ calls'[i].chunk = c
      BY <2>1, HandingIs DEF Leaves
    <3>2. Handles(calls, i) /\ i # Len(calls) /\ calls[i].chunk = c
      BY <3>1 DEF Leaves
    <3>3. c # Top.chunk
      BY <1>1, <1>2, <3>2 DEF HandlersAre
    <3> QED BY <3>2, <3>3, HandingIs
  <2>2. ASSUME c \in Handing, c # Top.chunk PROVE c \in Handing'
    <3>1. PICK i \in Nat : Handles(calls, i) /\ calls[i].chunk = c
      BY <2>2, HandingIs
    <3>2. i # Len(calls)
      BY <1>2, <2>2, <3>1
    <3>3. Handles(calls', i) /\ calls'[i].chunk = c
      BY <3>1, <3>2 DEF Leaves
    <3> QED BY <3>3, HandingIs DEF Leaves
  <2> QED BY <2>1, <2>2
<1>5. ASSUME NEW i \in Nat, Handles(calls', i)
      PROVE  /\ calls'[i].chunk <= Len(got')
             /\ \A j \in Nat : Handles(calls', j) /\ calls'[j].chunk = calls'[i].chunk => i = j
  <2>1. Handles(calls, i) /\ calls'[i] = calls[i]
    BY <1>5 DEF Leaves
  <2>2. calls'[i].chunk <= Len(got')
    BY <1>1, <2>1 DEF HandlersAre
  <2>3. ASSUME NEW j \in Nat, Handles(calls', j), calls'[j].chunk = calls'[i].chunk
        PROVE  i = j
    <3>1. Handles(calls, j) /\ calls'[j] = calls[j]
      BY <2>3 DEF Leaves
    <3> QED BY <1>1, <2>1, <2>3, <3>1 DEF HandlersAre
  <2> QED BY <2>2, <2>3
<1>6. HandlersAre(calls', Len(got'))
  BY <1>5 DEF HandlersAre
<1>7. Handlers'
  BY <1>6, HandlersRead DEF Leaves
<1>8. Handing' = Handing \ {Top.chunk}
  BY <1>4
<1> QED BY <1>3, <1>7, <1>8

LEMMA JoinsKeeps ==
    ASSUME calls \in Seq(Calls), Handlers, Len(got) \in Nat, Joins(Len(got) + 1),
           Len(got') = Len(got) + 1
    PROVE  Handing' = Handing \cup {Len(got) + 1} /\ Handlers'
<1>1. HandlersAre(calls, Len(got))
  BY HandlersRead
<1>2. PICK m : m = Len(calls')
  OBVIOUS
<1>3. /\ m \in Nat /\ calls' \in Seq(Calls) /\ Handles(calls', m)
      /\ calls'[m].chunk = Len(got) + 1 /\ ~Handles(calls, m)
      /\ \A i \in Nat : Handles(calls', i) <=> Handles(calls, i) \/ i = m
      /\ \A i \in Nat : Handles(calls, i) => calls'[i] = calls[i]
  <2>1. calls' \in Seq(Calls) /\ m \in Nat
    BY <1>2, LenProperties DEF Joins
  <2> QED BY <1>2, <2>1 DEF Joins
<1>4. ASSUME NEW c PROVE c \in Handing' <=> c \in Handing \/ c = Len(got) + 1
  <2>1. ASSUME c \in Handing', c # Len(got) + 1 PROVE c \in Handing
    <3>1. PICK i \in Nat : Handles(calls', i) /\ calls'[i].chunk = c
      BY <1>3, <2>1, HandingIs
    <3>2. Handles(calls, i) /\ calls[i].chunk = c
      BY <1>3, <2>1, <3>1
    <3> QED BY <3>2, HandingIs
  <2>2. ASSUME c \in Handing PROVE c \in Handing'
    <3>1. PICK i \in Nat : Handles(calls, i) /\ calls[i].chunk = c
      BY <2>2, HandingIs
    <3>2. Handles(calls', i) /\ calls'[i].chunk = c
      BY <1>3, <3>1
    <3> QED BY <1>3, <3>2, HandingIs
  <2>3. ASSUME c = Len(got) + 1 PROVE c \in Handing'
    BY <1>3, <2>3, HandingIs
  <2> QED BY <2>1, <2>2, <2>3
<1>5. ASSUME NEW i \in Nat, Handles(calls, i)
      PROVE  calls'[i] = calls[i] /\ calls'[i].chunk <= Len(got) /\ calls'[i].chunk \in Nat
  <2>1. calls'[i] = calls[i]
    BY <1>3, <1>5
  <2>2. calls[i].chunk \in Nat
    BY <1>5, ChunkNumbers
  <2>3. calls[i].chunk <= Len(got)
    BY <1>1, <1>5 DEF HandlersAre
  <2> QED BY <2>1, <2>2, <2>3
<1>6. ASSUME NEW i \in Nat, Handles(calls', i)
      PROVE  /\ calls'[i].chunk <= Len(got')
             /\ \A j \in Nat : Handles(calls', j) /\ calls'[j].chunk = calls'[i].chunk => i = j
  <2>1. CASE i = m
    <3>1. calls'[i].chunk = Len(got) + 1 /\ Len(got) + 1 <= Len(got')
      BY <1>3, <2>1
    <3>2. ASSUME NEW j \in Nat, Handles(calls', j), calls'[j].chunk = calls'[i].chunk
          PROVE  i = j
      <4>1. SUFFICES ASSUME j # m PROVE FALSE
        BY <2>1
      <4>2. Handles(calls, j)
        BY <1>3, <3>2, <4>1
      <4>3. calls'[j].chunk <= Len(got) /\ calls'[j].chunk \in Nat
        BY <1>5, <4>2
      <4> QED BY <3>1, <3>2, <4>3
    <3> QED BY <3>1, <3>2
  <2>2. CASE i # m
    <3>1. Handles(calls, i)
      BY <1>3, <1>6, <2>2
    <3>2. /\ calls'[i] = calls[i] /\ calls'[i].chunk <= Len(got) /\ calls'[i].chunk \in Nat
      BY <1>5, <3>1
    <3>3. calls'[i].chunk <= Len(got')
      BY <3>2
    <3>4. ASSUME NEW j \in Nat, Handles(calls', j), calls'[j].chunk = calls'[i].chunk
          PROVE  i = j
      <4>1. CASE j = m
        <5>1. calls'[j].chunk = Len(got) + 1
          BY <1>3, <4>1
        <5> QED BY <3>2, <3>4, <5>1
      <4>2. CASE j # m
        <5>1. Handles(calls, j)
          BY <1>3, <3>4, <4>2
        <5>2. calls'[j] = calls[j]
          BY <1>5, <5>1
        <5> QED BY <1>1, <3>1, <3>2, <3>4, <5>1, <5>2 DEF HandlersAre
      <4> QED BY <4>1, <4>2
    <3> QED BY <3>3, <3>4
  <2> QED BY <2>1, <2>2
<1>7. HandlersAre(calls', Len(got'))
  BY <1>6 DEF HandlersAre
<1>8. Handlers'
  BY <1>3, <1>7, HandlersRead
<1>9. Handing' = Handing \cup {Len(got) + 1}
  BY <1>4
<1> QED BY <1>8, <1>9

\* The moves of the stack, by whether the call on top was in data_received.
LEMMA StackSteps ==
    ASSUME calls \in Seq(Calls)
    PROVE  /\ UNCHANGED calls => Aside
           /\ calls # <<>> /\ Top.at # "handing" /\ calls' = Popped => Aside
           /\ calls # <<>> /\ Top.at = "handing" /\ calls' = Popped => Leaves
           /\ \A c \in Calls : calls' = Append(calls, c) /\ c.at # "handing" => Aside
           /\ \A c \in Calls : calls # <<>> /\ calls' = Replaced(c) =>
                 /\ Top.at # "handing" /\ c.at # "handing" => Aside
                 /\ Top.at = "handing" /\ c.at # "handing" => Leaves
                 /\ Top.at # "handing" /\ c.at = "handing" => Joins(c.chunk)
<1>1. UNCHANGED calls => Aside
  BY DEF Aside
<1>2. ASSUME calls # <<>>, calls' = Popped
      PROVE  (Top.at # "handing" => Aside) /\ (Top.at = "handing" => Leaves)
  <2>1. /\ Len(calls) \in Nat \ {0} /\ Top = calls[Len(calls)]
        /\ calls' \in Seq(Calls) /\ Len(calls') = Len(calls) - 1
        /\ \A i \in 1 .. Len(calls') : i \in 1 .. Len(calls) /\ calls'[i] = calls[i]
    BY <1>2, Popping
  <2>2. \A i \in Nat : i \in 1 .. Len(calls') <=> i \in 1 .. Len(calls) /\ i # Len(calls)
    BY <2>1
  <2>3. Len(calls) \in 1 .. Len(calls)
    BY <2>1
  <2> QED BY <2>1, <2>2, <2>3 DEF Aside, Leaves, Handles
<1>3. ASSUME NEW c \in Calls, calls' = Append(calls, c), c.at # "handing" PROVE Aside
  <2>1. /\ calls' \in Seq(Calls) /\ Len(calls') = Len(calls) + 1 /\ Len(calls) \in Nat
        /\ calls'[Len(calls) + 1] = c /\ \A i \in 1 .. Len(calls) : calls'[i] = calls[i]
    BY <1>3, Appended
  <2>2. \A i \in Nat : i \in 1 .. Len(calls') <=> i \in 1 .. Len(calls) \/ i = Len(calls) + 1
    BY <2>1
  <2> QED BY <1>3, <2>1, <2>2 DEF Aside, Handles
<1>4. ASSUME NEW c \in Calls, calls # <<>>, calls' = Replaced(c)
      PROVE  /\ Top.at # "handing" /\ c.at # "handing" => Aside
             /\ Top.at = "handing" /\ c.at # "handing" => Leaves
             /\ Top.at # "handing" /\ c.at = "handing" => Joins(c.chunk)
  <2>1. /\ calls' \in Seq(Calls) /\ calls' # <<>> /\ Len(calls') = Len(calls)
        /\ Len(calls) \in Nat \ {0} /\ calls'[Len(calls)] = c
        /\ \A i \in 1 .. Len(calls) : i # Len(calls) => calls'[i] = calls[i]
    BY <1>4, ReplacingIs
  <2>2. Top = calls[Len(calls)] /\ Len(calls) \in 1 .. Len(calls)
    BY <2>1 DEF Top
  <2> QED BY <2>1, <2>2 DEF Aside, Leaves, Joins, Handles
<1> QED BY <1>1, <1>2, <1>3, <1>4

LEMMA WayStays ==
    ASSUME FlowTypes, Handlers, Len(got) + 1 <= Len(size), Joins(Len(got) + 1),
           Len(got') = Len(got) + 1, UNCHANGED size
    PROVE  Handlers' /\ OnTheirWay' = OnTheirWay
<1>1. Len(got) \in Nat /\ Len(size) \in Nat /\ calls \in Seq(Calls)
  BY LenProperties DEF FlowTypes
<1>2. Handing' = Handing \cup {Len(got) + 1} /\ Handlers'
  BY <1>1, JoinsKeeps
<1>3. Len(got) + 1 .. Len(size) = {Len(got) + 1} \cup (Len(got') + 1 .. Len(size))
  BY <1>1
<1> QED BY <1>2, <1>3 DEF OnTheirWay

\* A step that neither charges nor credits, nor adds or takes a chunk.
LEMMA OwedStands ==
    ASSUME Owed, ~raised' => ~raised, receiver' = "open" => receiver = "open",
           sender' # "closed" => sender # "closed", armed' = armed \/ armed' = TRUE,
           UNCHANGED <<late, size, buffer>>,
           ~raised /\ receiver = "open" => (Handlers => Handlers' /\ OnTheirWay' = OnTheirWay)
    PROVE  Owed'
<1>1. late' \in BOOLEAN /\ (~late' /\ ~armed' => size' = <<>>)
  BY DEF Owed
<1>2. ASSUME ~raised', receiver' = "open" PROVE Handlers'
  BY <1>2 DEF Owed
<1>3. ASSUME ~raised', receiver' = "open", sender' # "closed"
      PROVE  /\ buffer' <= Bytes(size', OnTheirWay')
             /\ ~late' => buffer' = Bytes(size', OnTheirWay')
  <2>1. OnTheirWay' = OnTheirWay /\ buffer' = buffer /\ size' = size /\ late' = late
    BY <1>3 DEF Owed
  <2>2. buffer <= Bytes(size, OnTheirWay) /\ (~late => buffer = Bytes(size, OnTheirWay))
    BY <1>3 DEF Owed
  <2> QED BY <2>1, <2>2
<1> QED BY <1>1, <1>2, <1>3 DEF Owed

\* A chunk written joins those on their way, and is charged.
LEMMA WriteKeepsOwed ==
    ASSUME FlowAssumption, FlowTypes, Written, Charged, Line, Owed, NEW n \in Sizes, Write(n)
    PROVE  Owed'
<1>1. /\ ~eofSent /\ sender = "open" /\ size' = Append(size, n) /\ Charge(n)
      /\ late' = (late \/ ~armed)
      /\ UNCHANGED <<armed, sender, got, receiver, calls, raised>>
  BY DEF Write, switchVars, readVars
<1>2. /\ n \in Nat /\ buffer \in Nat /\ size \in Seq(Nat) /\ calls \in Seq(Calls)
      /\ Len(size) \in Nat /\ Len(got) \in Nat /\ armed \in BOOLEAN /\ late \in BOOLEAN
  BY LenProperties DEF FlowAssumption, FlowTypes, Owed
<1>3. late' \in BOOLEAN /\ (~late' => armed /\ ~late)
  BY <1>1, <1>2, Zenon
<1>4. Handlers => Handlers'
  BY <1>1 DEF Handlers
<1>5. ASSUME ~raised', receiver' = "open"
      PROVE  /\ buffer' <= Bytes(size', OnTheirWay')
             /\ ~late' => buffer' = Bytes(size', OnTheirWay')
  <2>1. /\ buffer <= Bytes(size, OnTheirWay) /\ (~late => buffer = Bytes(size, OnTheirWay))
    BY <1>1, <1>5 DEF Owed
  <2>2. Len(got) <= Len(size)
    BY <1>1, <1>5 DEF Line, HandedUp, Total
  <2>3. Len(size') = Len(size) + 1
    BY <1>1, <1>2, Appended
  <2>4. Handing' = Handing
    BY <1>1 DEF Handing
  <2>5. OnTheirWay' = OnTheirWay \cup {Len(size) + 1}
    <3>1. Len(got) + 1 .. Len(size) + 1 = (Len(got) + 1 .. Len(size)) \cup {Len(size) + 1}
      BY <1>2, <2>2
    <3> QED BY <1>1, <2>3, <2>4, <3>1 DEF OnTheirWay
  <2>6. OnTheirWay \ {Len(size) + 1} = OnTheirWay
    <3>1. Len(size) + 1 \notin Handing
      <4>1. ASSUME NEW i \in Nat, Handles(calls, i) PROVE calls[i].chunk # Len(size) + 1
        <5>1. calls[i].chunk \in 1 .. Len(size)
          BY <4>1 DEF Written, Handles
        <5> QED BY <1>2, <5>1
      <4> QED BY <1>2, <4>1, HandingIs
    <3>2. Len(size) + 1 \notin Len(got) + 1 .. Len(size)
      BY <1>2
    <3> QED BY <3>1, <3>2 DEF OnTheirWay
  <2>7. Bytes(size', OnTheirWay') = Bytes(size, OnTheirWay) + n
    <3>1. Bytes(Append(size, n), OnTheirWay \cup {Len(size) + 1})
             = Bytes(size, OnTheirWay \ {Len(size) + 1}) + n
      BY <1>2, BytesAppended
    <3> QED BY <1>1, <2>5, <2>6, <3>1
  <2>8. Bytes(size, OnTheirWay) \in Nat
    BY <1>2, BytesNatural
  <2>9. CASE armed
    <3>1. buffer' = buffer + n
      BY <1>1, <2>9 DEF Charge
    <3>2. buffer' <= Bytes(size', OnTheirWay')
      BY <1>2, <2>1, <2>7, <2>8, <3>1
    <3>3. ~late' => buffer' = Bytes(size', OnTheirWay')
      BY <1>3, <2>1, <2>7, <3>1
    <3> QED BY <3>2, <3>3
  <2>10. CASE ~armed
    <3>1. buffer' = buffer
      BY <1>1, <2>10 DEF Charge
    <3>2. buffer' <= Bytes(size', OnTheirWay')
      BY <1>2, <2>1, <2>7, <2>8, <3>1
    <3> QED BY <1>3, <2>10, <3>2
  <2> QED BY <2>9, <2>10
<1>6. ~raised' /\ receiver' = "open" => Handlers'
  BY <1>1, <1>4 DEF Owed
<1>7. ~(~late' /\ ~armed')
  BY <1>1, <1>3
<1> QED BY <1>3, <1>5, <1>6, <1>7 DEF Owed

\* data_received returns: its chunk leaves, and is credited as far as the
\* buffer goes.
LEMMA ReturnKeepsOwed ==
    ASSUME FlowTypes, Written, Charged, Owed, Return
    PROVE  Owed'
<1>1. /\ calls # <<>> /\ Top.at = "handing" /\ Consumed(Top.chunk)
      /\ UNCHANGED <<armed, sender, late, size, got, receiver, raised>>
  BY DEF Return, switchVars, sendVars, readVars
<1>2. /\ calls \in Seq(Calls) /\ buffer \in Nat /\ size \in Seq(Nat) /\ late \in BOOLEAN
      /\ armed \in BOOLEAN /\ Len(size) \in Nat /\ Len(got) \in Nat
  BY LenProperties DEF FlowTypes, Owed
<1>3. Leaves
  <2>1. CASE calls' = Popped
    BY <1>1, <1>2, <2>1, StackSteps
  <2>2. CASE calls' # Popped
    <3>1. PICK w \in {"woke", "loop"} : calls' = Replaced(Call("drain", w, Eof))
      BY <2>2, Zenon DEF Return
    <3>2. PICK c : c = Call("drain", w, Eof)
      OBVIOUS
    <3>3. c \in Calls /\ c.at # "handing"
      BY <3>2 DEF Call, Calls, Eof
    <3> QED BY <1>1, <1>2, <3>1, <3>2, <3>3, StackSteps
  <2> QED BY <2>1, <2>2
<1>4. PICK c : c = Top.chunk
  OBVIOUS
<1>5. c \in 1 .. Len(size)
  <2>1. Top = calls[Len(calls)] /\ Len(calls) \in 1 .. Len(calls)
    BY <1>1, <1>2, Popping
  <2> QED BY <1>1, <1>4, <2>1 DEF Written
<1>6. ASSUME ~raised, receiver = "open"
      PROVE  Handlers' /\ OnTheirWay' = OnTheirWay \ {c} /\ c \in OnTheirWay
  <2>1. Handlers
    BY <1>6 DEF Owed
  <2>2. Handing' = Handing \ {c} /\ Handlers' /\ c \in Handing
    BY <1>1, <1>2, <1>3, <1>4, <2>1, LeavesKeeps
  <2>3. c \notin Len(got) + 1 .. Len(size)
    <3>1. PICK i \in Nat : Handles(calls, i) /\ calls[i].chunk = c
      BY <1>2, <2>2, HandingIs
    <3>2. c <= Len(got)
      BY <2>1, <3>1 DEF Handlers, Handles
    <3> QED BY <1>2, <1>5, <3>2
  <2> QED BY <1>1, <2>2, <2>3 DEF OnTheirWay
<1>7. ~(~late /\ ~armed)
  <2>1. size # <<>>
    BY <1>5, EmptySeq
  <2> QED BY <2>1 DEF Owed
<1>8. ASSUME ~raised, receiver = "open", sender # "closed"
      PROVE  /\ buffer' <= Bytes(size, OnTheirWay \ {c})
             /\ ~late => buffer' = Bytes(size, OnTheirWay \ {c})
  <2>1. /\ size[c] \in Nat /\ Bytes(size, OnTheirWay \ {c}) \in Nat
        /\ Bytes(size, OnTheirWay) = Bytes(size, OnTheirWay \ {c}) + size[c]
    BY <1>2, <1>5, <1>6, <1>8, BytesWithout
  <2>2. buffer <= Bytes(size, OnTheirWay) /\ (~late => buffer = Bytes(size, OnTheirWay))
    BY <1>8 DEF Owed
  <2>3. CASE armed
    <3>1. buffer' = IF buffer > size[c] THEN buffer - size[c] ELSE 0
      BY <1>1, <1>4, <1>8, <2>3 DEF Consumed, Drained
    <3>2. buffer' <= Bytes(size, OnTheirWay \ {c})
      BY <1>2, <2>1, <2>2, <3>1
    <3>3. buffer = Bytes(size, OnTheirWay) => buffer' = Bytes(size, OnTheirWay \ {c})
      BY <1>2, <2>1, <3>1
    <3> QED BY <2>2, <3>2, <3>3
  <2>4. CASE ~armed
    <3>1. buffer' = 0
      BY <1>1, <1>2, <2>4 DEF Consumed, Charged
    <3>2. 0 <= Bytes(size, OnTheirWay \ {c})
      BY <2>1
    <3> QED BY <1>7, <2>4, <3>1, <3>2
  <2> QED BY <2>3, <2>4
<1>9. ASSUME ~raised', receiver' = "open", sender' # "closed"
      PROVE  /\ buffer' <= Bytes(size', OnTheirWay')
             /\ ~late' => buffer' = Bytes(size', OnTheirWay')
  <2>1. OnTheirWay' = OnTheirWay \ {c}
    BY <1>1, <1>6, <1>9
  <2> QED BY <1>1, <1>8, <1>9, <2>1
<1>10. late' \in BOOLEAN /\ ~(~late' /\ ~armed')
  BY <1>1, <1>2, <1>7
<1>11. ~raised' /\ receiver' = "open" => Handlers'
  BY <1>1, <1>6
<1> QED BY <1>9, <1>10, <1>11 DEF Owed

\* The calls that change a watermark, the switch or the sender's end.
LEMMA SendingKeepsOwed ==
    ASSUME FlowAssumption, FlowTypes, Written, Charged, Line, Owed, Sending
    PROVE  Owed'
<1>1. ASSUME NEW n \in Sizes, Write(n) PROVE Owed'
  BY <1>1, WriteKeepsOwed
<1>2. CASE SwitchOff
  <2>1. /\ late' = TRUE /\ buffer' = 0
        /\ UNCHANGED <<size, got, receiver, calls, raised>>
    BY <1>2 DEF SwitchOff, sendVars, readVars
  <2>2. Handlers => Handlers'
    BY <2>1 DEF Handlers
  <2>3. Bytes(size', OnTheirWay') \in Nat
    <3>1. size' \in Seq(Nat)
      BY <2>1 DEF FlowTypes
    <3> QED BY <3>1, BytesNatural
  <2>4. 0 <= Bytes(size', OnTheirWay')
    BY <2>3
  <2>5. late' \in BOOLEAN /\ late'
    BY <2>1
  <2>6. ~raised' /\ receiver' = "open" => Handlers'
    BY <2>1, <2>2 DEF Owed
  <2> QED BY <2>1, <2>4, <2>5, <2>6 DEF Owed
<1>3. CASE SenderGone
  <2>1. /\ sender' = "closed"
        /\ UNCHANGED <<late, armed, size, got, receiver, calls, raised>>
    BY <1>3 DEF SenderGone, switchVars, readVars
  <2>2. Handlers => Handlers'
    BY <2>1 DEF Handlers
  <2> QED BY <2>1, <2>2 DEF Owed
<1>4. ASSUME \/ \E closing \in BOOLEAN : SendEof(closing)
             \/ \E m \in Marks : SetLimits(m) \/ SwitchOn(m)
      PROVE  Owed'
  <2>1. /\ UNCHANGED <<late, size, buffer, got, receiver, calls, raised>>
        /\ armed' = armed \/ armed' = TRUE
        /\ sender' # "closed" => sender # "closed"
    BY <1>4 DEF SendEof, SetLimits, SwitchOn, switchVars, sendVars, readVars
  <2>2. Handlers => Handlers' /\ OnTheirWay' = OnTheirWay
    BY <2>1 DEF Handlers, OnTheirWay, Handing
  <2> QED BY <2>1, <2>2, OwedStands
<1> QED BY <1>1, <1>2, <1>3, <1>4 DEF Sending

\* What is handed up is the next chunk, and from then on data_received has it.
LEMMA HandingUpKeepsWay ==
    ASSUME FlowTypes, Written, Stack, Line, ~raised, receiver = "open", Handlers,
           DataArrives \/ DrainOne, got' # got
    PROVE  Handlers' /\ OnTheirWay' = OnTheirWay
<1>1. LineLengths /\ calls \in Seq(Calls)
  BY LengthsAre DEF FlowTypes
<1>2. OnItsWay /\ HandedUp
  BY DEF Line
<1>3. CASE DataArrives
  <2>1. /\ calls = <<>> /\ ~readPaused /\ flight # <<>> /\ Head(flight) # Eof
        /\ got' = Append(got, Head(flight)) /\ UNCHANGED size
        /\ calls' = <<Call("landed", "handing", Head(flight))>>
    BY <1>3 DEF DataArrives, sendVars
  <2>2. backlog = <<>>
    BY <2>1 DEF Stack
  <2>3. Len(backlog) = 0
    BY <2>2, EmptySeq
  <2>4. /\ Arrived = Len(got) + Len(backlog) /\ Head(flight) = Sent(Arrived + 1)
        /\ Arrived < Total
    BY <1>2, <2>1, NextInFlight
  <2>5. PICK h : h = Head(flight)
    OBVIOUS
  <2>6. h = Len(got) + 1 /\ Len(got) + 1 <= Len(size)
    <3>1. Arrived = Len(got) /\ h = Sent(Len(got) + 1) /\ h # Eof
      BY <1>1, <2>1, <2>3, <2>4, <2>5 DEF LineLengths
    <3>2. h = Len(got) + 1 /\ Len(got) + 1 # Len(size) + 1
      BY <3>1 DEF Sent
    <3>3. Len(got) < Total /\ Total <= Len(size) + 1
      BY <1>1, <2>4, <3>1 DEF Total, LineLengths
    <3> QED BY <1>1, <3>2, <3>3 DEF LineLengths
  <2>7. Len(got') = Len(got) + 1
    <3>1. got \in Seq(Nat) /\ h \in Nat
      BY <1>1, <2>6 DEF FlowTypes, LineLengths
    <3> QED BY <2>1, <2>5, <3>1, Appended
  <2>8. Joins(Len(got) + 1)
    <3>1. PICK c : c = Call("landed", "handing", h)
      OBVIOUS
    <3>2. c \in Calls /\ c.at = "handing" /\ c.chunk = h
      BY <1>1, <2>6, <3>1 DEF Call, Calls, LineLengths
    <3>3. calls' = <<c>>
      BY <2>1, <2>5, <3>1
    <3>4. /\ calls' \in Seq(Calls) /\ calls' # <<>> /\ Len(calls') = 1 /\ calls'[1] = c
      BY <3>2, <3>3
    <3>5. \A i : ~Handles(calls, i)
      BY <2>1, EmptySeq DEF Handles
    <3>6. \A i \in Nat : i \in 1 .. 1 <=> i = 1
      OBVIOUS
    <3> QED BY <2>6, <3>2, <3>4, <3>5, <3>6 DEF Joins, Handles
  <2> QED BY <2>1, <2>6, <2>7, <2>8, WayStays
<1>4. CASE DrainOne
  <2>1. /\ calls # <<>> /\ Top.at # "handing" /\ backlog # <<>>
        /\ got' = Append(got, Head(backlog)) /\ UNCHANGED size
        /\ calls' = Replaced(Call("drain", "handing", Head(backlog)))
    BY <1>4 DEF DrainOne, InLoop, sendVars
  <2>2. PICK h : h = Head(backlog)
    OBVIOUS
  <2>3. h \in 1 .. Len(size) /\ h = backlog[1] /\ 1 \in 1 .. Len(backlog)
    <3>1. Head(backlog) = backlog[1] /\ Len(backlog) \in Nat \ {0}
      BY <2>1, HeadTail DEF FlowTypes
    <3>2. Head(backlog) \in 1 .. Len(size)
      BY <2>1, HeadsWritten
    <3> QED BY <2>2, <3>1, <3>2
  <2>4. h = Sent(Len(got) + 1) /\ h # Eof
    BY <1>1, <1>2, <2>3 DEF OnItsWay, Eof, LineLengths
  <2>5. h = Len(got) + 1 /\ Len(got) + 1 <= Len(size)
    <3>1. h = Len(got) + 1
      BY <2>4 DEF Sent
    <3> QED BY <1>1, <2>3, <3>1 DEF LineLengths
  <2>6. Len(got') = Len(got) + 1
    <3>1. got \in Seq(Nat) /\ h \in Nat
      BY <1>1, <2>5 DEF FlowTypes, LineLengths
    <3> QED BY <2>1, <2>2, <3>1, Appended
  <2>7. Joins(Len(got) + 1)
    <3>1. PICK c : c = Call("drain", "handing", h)
      OBVIOUS
    <3>2. c \in Calls /\ c.at = "handing" /\ c.chunk = h
      BY <1>1, <2>5, <3>1 DEF Call, Calls, LineLengths
    <3>3. calls' = Replaced(c)
      BY <2>1, <2>2, <3>1
    <3>4. Joins(c.chunk)
      BY <1>1, <2>1, <3>2, <3>3, StackSteps
    <3> QED BY <2>5, <3>2, <3>4
  <2> QED BY <2>1, <2>5, <2>6, <2>7, WayStays
<1> QED BY <1>3, <1>4

\* The eof is handed up only after the last chunk, so no chunk is left.
LEMMA EofKeepsWay ==
    ASSUME FlowTypes, Stack, Line, ~raised, receiver = "open", Handlers,
           EofArrives \/ DrainEnds
    PROVE  Handlers' /\ OnTheirWay' = OnTheirWay
<1>1. LineLengths /\ calls \in Seq(Calls) /\ readPaused \in BOOLEAN /\ eofPending \in BOOLEAN
  BY LengthsAre DEF FlowTypes
<1>2. OnItsWay /\ HandedUp
  BY DEF Line
<1>3. UNCHANGED size /\ (got' = got \/ got' = Append(got, Eof))
  BY DEF EofArrives, DrainEnds, sendVars
<1>4. Aside
  <2>1. CASE EofArrives
    BY <1>1, <2>1, StackSteps DEF EofArrives
  <2>2. CASE DrainEnds
    <3>1. calls # <<>> /\ Top.at # "handing" /\ calls' = Popped
      BY <2>2 DEF DrainEnds, InLoop
    <3> QED BY <1>1, <3>1, StackSteps
  <2> QED BY <2>1, <2>2
<1>5. CASE got' = got
  <2>1. Handing' = Handing /\ Handlers'
    BY <1>1, <1>4, <1>5, AsideKeeps DEF LineLengths
  <2> QED BY <1>3, <1>5, <2>1 DEF OnTheirWay
<1>6. CASE got' # got
  <2>1. Len(got) = Len(size)
    <3>1. CASE EofArrives
      <4>1. calls = <<>> /\ ~readPaused /\ flight # <<>> /\ Head(flight) = Eof
        BY <1>6, <3>1 DEF EofArrives
      <4>2. backlog = <<>>
        BY <4>1 DEF Stack
      <4>3. Len(backlog) = 0
        BY <4>2, EmptySeq
      <4>4. Arrived = Len(got) + Len(backlog) /\ Arrived = Len(size)
        BY <1>2, <4>1, NextInFlight
      <4> QED BY <1>1, <4>3, <4>4 DEF LineLengths
    <3>2. CASE DrainEnds
      <4>1. eofPending /\ Reading /\ ~(backlog # <<>> /\ Reading)
        BY <1>6, <3>2, Zenon DEF DrainEnds
      <4>2. backlog = <<>>
        BY <4>1
      <4>3. Len(backlog) = 0
        BY <4>2, EmptySeq
      <4>4. Arrived = Len(size) + 1 /\ Arrived = Len(got) + Len(backlog) + 1
        BY <1>2, <4>1 DEF OnItsWay, Arrived
      <4> QED BY <1>1, <4>3, <4>4 DEF LineLengths
    <3> QED BY <3>1, <3>2
  <2>2. Len(got') = Len(got) + 1
    <3>1. got \in Seq(Nat) /\ Eof \in Nat
      BY DEF FlowTypes, Eof
    <3> QED BY <1>3, <1>6, <3>1, Appended
  <2>3. Len(got') \in Nat /\ Len(got) <= Len(got')
    BY <1>1, <2>2 DEF LineLengths
  <2>4. Handing' = Handing /\ Handlers'
    BY <1>1, <1>4, <2>3, AsideKeeps DEF LineLengths
  <2>5. Len(got) + 1 .. Len(size) = Len(got') + 1 .. Len(size)
    BY <1>1, <2>1, <2>2 DEF LineLengths
  <2> QED BY <1>3, <2>4, <2>5 DEF OnTheirWay
<1> QED BY <1>5, <1>6

LEMMA ReceivingKeepsOwed ==
    ASSUME FlowTypes, Written, Charged, Stack, Line, Owed, Receiving
    PROVE  Owed'
<1>1. LineLengths /\ calls \in Seq(Calls)
  BY LengthsAre DEF FlowTypes
<1>2. CASE Return
  BY <1>2, ReturnKeepsOwed
<1>3. CASE Raise
  <2>1. raised' /\ UNCHANGED <<late, armed, size>>
    BY <1>3, Zenon DEF Raise, switchVars, sendVars
  <2> QED BY <2>1 DEF Owed
<1>4. CASE ReceiverGone
  <2>1. receiver' # "open" /\ UNCHANGED <<late, armed, size>>
    BY <1>4, Zenon DEF ReceiverGone, switchVars, sendVars
  <2> QED BY <2>1 DEF Owed
<1>5. CASE DataArrives \/ EofArrives \/ Draining \/ WriterReturns \/ PauseReading \/ ResumeReading
  <2>1. UNCHANGED <<late, armed, size, buffer, sender, receiver, raised>>
    BY <1>5 DEF DataArrives, EofArrives, Draining, DrainOne, DrainEnds, WriterReturns,
       PauseReading, ResumeReading, switchVars, sendVars, readVars
  <2>2. ASSUME ~raised, receiver = "open", Handlers PROVE Handlers' /\ OnTheirWay' = OnTheirWay
    <3>1. CASE EofArrives \/ DrainEnds
      BY <2>2, <3>1, EofKeepsWay
    <3>2. CASE (DataArrives \/ DrainOne) /\ got' # got
      BY <2>2, <3>2, HandingUpKeepsWay
    <3>3. CASE Aside /\ UNCHANGED got
      <4>1. Handing' = Handing /\ Handlers'
        BY <1>1, <2>2, <3>3, AsideKeeps DEF LineLengths
      <4> QED BY <2>1, <3>3, <4>1 DEF OnTheirWay
    <3>4. CASE DataArrives /\ got' = got
      <4>1. ASSUME got' = Append(got, Head(flight)) PROVE FALSE
        <5>1. got \in Seq(Nat) /\ flight \in Seq(Nat) /\ flight # <<>>
          BY <3>4 DEF FlowTypes, DataArrives
        <5>2. Head(flight) \in Nat
          BY <5>1, HeadTail
        <5>3. Len(got') = Len(got) + 1
          BY <4>1, <5>1, <5>2, Appended
        <5> QED BY <1>1, <3>4, <5>3 DEF LineLengths
      <4>2. UNCHANGED calls
        BY <3>4, <4>1 DEF DataArrives
      <4> QED BY <1>1, <3>3, <3>4, <4>2, StackSteps
    <3>5. CASE DrainOne /\ got' = got
      <4>1. Len(got') = Len(got) + 1
        <5>1. got \in Seq(Nat) /\ backlog \in Seq(Nat) /\ backlog # <<>>
          BY <3>5 DEF FlowTypes, DrainOne
        <5>2. Head(backlog) \in Nat
          BY <5>1, HeadTail
        <5>3. got' = Append(got, Head(backlog))
          BY <3>5 DEF DrainOne
        <5> QED BY <5>1, <5>2, <5>3, Appended
      <4> QED BY <1>1, <3>5, <4>1 DEF LineLengths
    <3>6. CASE WriterReturns
      <4>1. calls # <<>> /\ Top.at # "handing" /\ calls' = Replaced(Looping) /\ UNCHANGED got
        BY <3>6 DEF WriterReturns, Looping, readVars
      <4>2. Looping \in Calls /\ Looping.at # "handing"
        BY DEF Looping, Call, Calls, Eof
      <4> QED BY <1>1, <3>3, <4>1, <4>2, StackSteps
    <3>7. CASE PauseReading
      <4>1. UNCHANGED <<calls, got>>
        BY <3>7 DEF PauseReading
      <4> QED BY <1>1, <3>3, <4>1, StackSteps
    <3>8. CASE ResumeReading
      <4>1. calls' = Append(calls, Looping) /\ UNCHANGED got
        BY <3>8 DEF ResumeReading, Looping
      <4>2. Looping \in Calls /\ Looping.at # "handing"
        BY DEF Looping, Call, Calls, Eof
      <4> QED BY <1>1, <3>3, <4>1, <4>2, StackSteps
    <3> QED BY <1>5, <3>1, <3>2, <3>4, <3>5, <3>6, <3>7, <3>8 DEF Draining
  <2> QED BY <2>1, <2>2, OwedStands
<1> QED BY <1>2, <1>3, <1>4, <1>5 DEF Receiving, Arriving, Returning

\* What is in flight, in the backlog or in data_received is what the sender
\* still owes for.
LEMMA WayIs ==
    ASSUME FlowTypes, Written, HandedUp, OnItsWay
    PROVE  (ToSet(flight) \cup ToSet(backlog) \cup Handing) \ {Eof} = OnTheirWay
<1>1. LineLengths /\ calls \in Seq(Calls)
  BY LengthsAre DEF FlowTypes
<1>2. /\ Len(got) \in Nat /\ Len(backlog) \in Nat /\ Len(flight) \in Nat /\ Len(size) \in Nat
      /\ Arrived \in Nat /\ Len(got) + Len(backlog) <= Arrived /\ Arrived + Len(flight) = Total
      /\ Total = Len(size) \/ Total = Len(size) + 1
  BY <1>1 DEF LineLengths, OnItsWay, Total
<1>3. /\ \A c : c \in ToSet(flight) <=> \E i \in 1 .. Len(flight) : flight[i] = c
      /\ \A c : c \in ToSet(backlog) <=> \E i \in 1 .. Len(backlog) : backlog[i] = c
  <2>1. DOMAIN flight = 1 .. Len(flight) /\ DOMAIN backlog = 1 .. Len(backlog)
    BY LenProperties DEF FlowTypes
  <2> QED BY <2>1 DEF ToSet
<1>4. Eof \notin Handing
  <2>1. ASSUME NEW i \in Nat, Handles(calls, i) PROVE calls[i].chunk # Eof
    <3>1. calls[i].chunk \in 1 .. Len(size)
      BY <2>1 DEF Written, Handles
    <3> QED BY <1>2, <3>1 DEF Eof
  <2> QED BY <1>1, <2>1, HandingIs
<1>5. ASSUME NEW c \in ToSet(flight), c # Eof PROVE c \in Len(got) + 1 .. Len(size)
  <2>1. PICK i \in 1 .. Len(flight) : flight[i] = c
    BY <1>3
  <2>2. c = Sent(Arrived + i) /\ c <= Len(size)
    BY <2>1 DEF OnItsWay, Written
  <2>3. c = Arrived + i
    BY <1>5, <2>2 DEF Sent
  <2> QED BY <1>2, <2>2, <2>3
<1>6. ASSUME NEW c \in ToSet(backlog) PROVE c \in Len(got) + 1 .. Len(size) /\ c # Eof
  <2>1. PICK i \in 1 .. Len(backlog) : backlog[i] = c
    BY <1>3, <1>6
  <2>2. c = Sent(Len(got) + i) /\ c \in 1 .. Len(size)
    BY <2>1 DEF OnItsWay, Written
  <2>3. c # Eof
    BY <1>2, <2>2 DEF Eof
  <2>4. c = Len(got) + i
    BY <2>2, <2>3 DEF Sent
  <2> QED BY <1>2, <2>2, <2>3, <2>4
<1>7. ASSUME NEW c \in Len(got) + 1 .. Len(size)
      PROVE  c # Eof /\ (c \in ToSet(flight) \/ c \in ToSet(backlog))
  <2>1. c # Eof /\ Sent(c) = c
    BY <1>2 DEF Eof, Sent
  <2>2. CASE c <= Len(got) + Len(backlog)
    <3>1. PICK i : i = c - Len(got)
      OBVIOUS
    <3>2. i \in 1 .. Len(backlog) /\ Len(got) + i = c
      BY <1>2, <2>2, <3>1
    <3>3. backlog[i] = c
      BY <2>1, <3>2 DEF OnItsWay
    <3> QED BY <1>3, <2>1, <3>2, <3>3
  <2>3. CASE c > Len(got) + Len(backlog)
    <3>1. Arrived = Len(got) + Len(backlog)
      <4>1. eofPending => Arrived = Len(size) + 1 /\ Arrived = Len(got) + Len(backlog) + 1
        BY DEF OnItsWay, Arrived
      <4>2. ~eofPending
        BY <1>2, <2>3, <4>1
      <4>3. Arrived = Len(got) + Len(backlog) + 0
        BY <4>2 DEF Arrived
      <4> QED BY <1>2, <4>3
    <3>2. PICK i : i = c - Arrived
      OBVIOUS
    <3>3. i \in 1 .. Len(flight) /\ Arrived + i = c
      BY <1>2, <2>3, <3>1, <3>2
    <3>4. flight[i] = c
      BY <2>1, <3>3 DEF OnItsWay
    <3> QED BY <1>3, <2>1, <3>3, <3>4
  <2> QED BY <1>2, <2>2, <2>3
<1>8. ASSUME NEW c
      PROVE  c \in (ToSet(flight) \cup ToSet(backlog) \cup Handing) \ {Eof} <=> c \in OnTheirWay
  BY <1>4, <1>5, <1>6, <1>7 DEF OnTheirWay
<1> QED BY <1>8

-----------------------------------------------------------------------------
LEMMA InitInv ==
    ASSUME FlowAssumption, Init
    PROVE  FlowInv
<1>1. \A S : <<>> \in Seq(S) /\ Len(<<>>) = 0
  BY EmptySeq
<1>2. FlowTypes
  BY <1>1 DEF Init, FlowTypes
<1>3. Written /\ Stack
  BY <1>1 DEF Init, Written, Stack
<1>4. Charged /\ PausedForAReason
  <2>1. ~(buffer > 0)
    BY DEF Init
  <2>2. ~paused
    BY Zenon DEF Init
  <2> QED BY <2>1, <2>2 DEF Charged, PausedForAReason
<1>5. Line
  BY <1>1 DEF Init, Line, HandedUp, OnItsWay, Arrived, Total, Sent
<1>6. Owed
  <2>1. /\ late = FALSE /\ size = <<>> /\ buffer = 0 /\ calls = <<>> /\ got = <<>>
    BY DEF Init
  <2>2. Handlers
    BY <1>1, <2>1 DEF Handlers
  <2>3. OnTheirWay = {}
    <3>1. Handing = {}
      BY <2>1, <1>1 DEF Handing
    <3> QED BY <1>1, <2>1, <3>1 DEF OnTheirWay
  <2>4. Bytes(size, OnTheirWay) = 0
    BY <2>1, <2>3, BytesOfNone
  <2>5. late \in BOOLEAN /\ (~late /\ ~armed => size = <<>>)
    BY <2>1
  <2>6. buffer <= Bytes(size, OnTheirWay) /\ buffer = Bytes(size, OnTheirWay)
    BY <2>1, <2>4
  <2> QED BY <2>2, <2>5, <2>6 DEF Owed
<1> QED BY <1>2, <1>3, <1>4, <1>5, <1>6 DEF FlowInv

LEMMA StutterKeeps ==
    ASSUME FlowInv, UNCHANGED vars
    PROVE  FlowInv'
<1>1. UNCHANGED <<armed, defaults, limits, late, size, eofSent, sender, buffer, paused, flight,
                  receiver, readPaused, backlog, eofPending, calls, got, raised>>
  BY DEF vars, switchVars, sendVars, readVars
<1>2. FlowTypes' /\ Written'
  BY <1>1 DEF FlowInv, FlowTypes, Written
<1>3. Charged' /\ PausedForAReason'
  BY <1>1, Zenon DEF FlowInv, Charged, PausedForAReason
<1>4. Stack' /\ Line'
  BY <1>1 DEF FlowInv, Stack, Line, HandedUp, OnItsWay, Arrived, Total, Sent
<1>5. Owed'
  <2>1. Handlers => Handlers' /\ OnTheirWay' = OnTheirWay
    BY <1>1 DEF Handlers, OnTheirWay, Handing
  <2> QED BY <1>1, <2>1, OwedStands DEF FlowInv
<1> QED BY <1>2, <1>3, <1>4, <1>5 DEF FlowInv

LEMMA NextInv ==
    ASSUME FlowAssumption, FlowInv, [Next]_vars
    PROVE  FlowInv'
<1>1. CASE Next
  <2>1. FlowTypes /\ Written /\ Charged /\ Owes /\ Stack /\ Line /\ Owed
    BY DEF FlowInv, Owes
  <2>2. FlowTypes' /\ Owes' /\ Written'
    BY <1>1, <2>1, SendingKeepsTypes, ReceivingKeepsTypes DEF Next
  <2>3. Stack' /\ Line'
    BY <1>1, <2>1, StackKept, NextKeepsLine
  <2>4. Owed'
    BY <1>1, <2>1, SendingKeepsOwed, ReceivingKeepsOwed DEF Next
  <2> QED BY <2>2, <2>3, <2>4 DEF FlowInv, Owes
<1>2. CASE UNCHANGED vars
  BY <1>2, StutterKeeps
<1> QED BY <1>1, <1>2

\* The inductive invariant: what is handed up, waits and is in flight is one
\* line in the order of writing, and a paused sender owes bytes (write,
\* _data_arrived, _eof_arrived, resume_reading, _credit).
THEOREM FlowInvariant == Spec => []FlowInv
<1>1. Init => FlowInv
  BY FlowAssumption, InitInv
<1>2. FlowInv /\ [Next]_vars => FlowInv'
  BY FlowAssumption, NextInv
<1> QED BY <1>1, <1>2, PTL DEF Spec

\* However data_received pauses and resumes reading, in calls nested to any
\* depth, the protocol reads the chunks in the order written and the eof after
\* the last of them (_data_arrived, _eof_arrived, resume_reading).
THEOREM ReadsInOrder == Spec => []ReadInOrder
<1>1. ASSUME FlowInv PROVE ReadInOrder
  <2>1. SUFFICES ASSUME ~raised, NEW i \in DOMAIN got
                 PROVE  got[i] = i \/ (got[i] = Eof /\ i = Len(size) + 1)
    BY DEF ReadInOrder
  <2>2. i \in 1 .. Len(got)
    BY <1>1, LenProperties DEF FlowInv, FlowTypes
  <2>3. got[i] = Sent(i)
    BY <1>1, <2>1, <2>2 DEF FlowInv, Line, HandedUp
  <2> QED BY <2>3 DEF Sent
<1> QED BY <1>1, FlowInvariant, PTL

\* A protocol told to pause owes bytes that some read can still release, with
\* flow control on and the transport not gone, for any watermarks, through every
\* reconfiguration (_maybe_pause_protocol, _release_flow_control, _finish).
THEOREM PausedOwes == Spec => []PausedForAReason
<1>1. FlowInv => PausedForAReason
  BY DEF FlowInv
<1> QED BY <1>1, FlowInvariant, PTL

\* The sender's _write_buffer never holds more than the bytes its peer's protocol
\* has not come back from reading, for any chunks, marks, reconfigurations and
\* nesting of data_received; and if flow control was on all along it holds just
\* those (_charge, _credit, _release_flow_control, resume_reading).
THEOREM OwesWhatIsOutstanding == Spec => []BufferIsOutstanding
<1>1. ASSUME FlowInv PROVE BufferIsOutstanding
  <2>1. SUFFICES ASSUME ~raised, sender # "closed", receiver = "open"
                 PROVE  buffer <= Outstanding /\ (~late /\ armed => buffer = Outstanding)
    BY DEF BufferIsOutstanding
  <2>2. Outstanding = Bytes(size, OnTheirWay)
    BY <1>1, <2>1, WayIs DEF FlowInv, Line, Outstanding
  <2>3. /\ buffer <= Bytes(size, OnTheirWay)
        /\ ~late => buffer = Bytes(size, OnTheirWay)
    BY <1>1, <2>1 DEF FlowInv, Owed
  <2> QED BY <2>2, <2>3
<1> QED BY <1>1, FlowInvariant, PTL

=============================================================================
