----------------------------- MODULE StreamFlow -----------------------------
(***************************************************************************)
(* Back-pressure on one direction of a stream connection: the write buffer *)
(* of the sending _SimStreamTransport and the reading pauses of the        *)
(* receiving one, in src/src/simloop/_transports.py, with set_flow_control *)
(* of src/src/simloop/_net.py.                                             *)
(*                                                                         *)
(* Packets reach the receiving transport in order (SimNet, InOrder), so    *)
(* what is in flight is a queue.  A chunk is named by the order it was     *)
(* written in.  data_received is user code: until it returns it may write, *)
(* pause and resume reading, reconfigure the network or crash a host, and  *)
(* resume_reading hands up chunks from within it, so calls nest.           *)
(***************************************************************************)
EXTENDS Integers, Sequences, SequencesExt

CONSTANTS
    Sizes,      \* bytes in a chunk
    Marks,      \* pairs <<low, high>> of watermarks
    MaxChunks,  \* bound: chunks written
    MaxSwitches \* bound: calls that change a watermark or the switch

ASSUME FlowAssumption ==
    /\ Sizes \subseteq Nat \ {0} /\ Marks # {}
    /\ \A m \in Marks : m \in Nat \X Nat /\ m[1] <= m[2]
    /\ MaxChunks \in Nat /\ MaxSwitches \in Nat

Eof == 0
Unset == <<-1, -1>>             \* _limits is None

VARIABLES
    armed,      \* _flow_control
    defaults,   \* _flow_defaults
    limits,     \* the sender's _limits
    switches,   \* reconfigurations so far
    late,       \* history: some chunk was written with the switch off, or the
                \* buffer was emptied by switching off
    size,       \* bytes of each chunk, in the order written
    eofSent,    \* _eof_sent
    sender,     \* open, closing or closed
    buffer,     \* _write_buffer
    paused,     \* _protocol_paused
    flight,     \* sent and not yet arrived: chunks and the eof
    receiver,   \* open or closed
    readPaused, \* _read_paused
    backlog,    \* _backlog
    eofPending, \* _eof_pending
    calls,      \* data_received and resume_reading calls on the stack
    got,        \* chunks and eof handed to the protocol
    raised      \* history: data_received has raised

switchVars == <<armed, defaults, limits, switches>>
sendVars   == <<size, eofSent, sender>>
readVars   == <<receiver, readPaused, backlog, eofPending, got>>
vars == <<switchVars, late, sendVars, buffer, paused, flight, readVars, calls, raised>>

\* A call: data_received for a packet that just landed, or the loop of
\* resume_reading, at its top ("loop"), in data_received ("handing") or in
\* the resume_writing its credit made ("woke").
Call(kind, at, chunk) == [kind |-> kind, at |-> at, chunk |-> chunk]
Top == calls[Len(calls)]
Popped == SubSeq(calls, 1, Len(calls) - 1)
Replaced(call) == Append(Popped, call)

UserRuns == calls # <<>> => Top.at # "loop"
Handing == {calls[i].chunk : i \in {j \in DOMAIN calls : calls[j].at = "handing"}}

Limits == IF limits = Unset THEN defaults ELSE limits       \* _effective_limits
Low == Limits[1]
High == Limits[2]

-----------------------------------------------------------------------------
\* The sending end

\* _maybe_pause_protocol with that many bytes in the buffer.
MaybePause(bytes) == paused \/ bytes > High

\* _charge
Charge(n) ==
    IF armed THEN buffer' = buffer + n /\ paused' = MaybePause(buffer + n)
    ELSE UNCHANGED <<buffer, paused>>

\* write: the packet leaves, then its bytes are charged.
Write(n) ==
    /\ UserRuns /\ sender = "open" /\ ~eofSent /\ Len(size) < MaxChunks
    /\ size' = Append(size, n)
    /\ flight' = Append(flight, Len(size) + 1)
    /\ Charge(n)
    /\ late' = (late \/ ~armed)
    /\ UNCHANGED <<switchVars, eofSent, sender, readVars, calls, raised>>

\* write_eof, and close, which also schedules _finish.
SendEof(closing) ==
    /\ UserRuns /\ sender = "open" /\ (closing \/ ~eofSent)
    /\ eofSent' = TRUE
    /\ flight' = IF eofSent THEN flight ELSE Append(flight, Eof)
    /\ sender' = IF closing THEN "closing" ELSE sender
    /\ UNCHANGED <<switchVars, late, size, buffer, paused, readVars, calls, raised>>

\* _finish of the sending end, from the loop, or at once in a crash.
SenderGone ==
    /\ UserRuns /\ sender # "closed"
    /\ sender' = "closed" /\ buffer' = 0 /\ paused' = FALSE
    /\ UNCHANGED <<switchVars, late, size, eofSent, flight, readVars, calls, raised>>

\* set_write_buffer_limits, which can pause and never resumes.
SetLimits(m) ==
    /\ UserRuns /\ sender # "closed" /\ switches < MaxSwitches
    /\ limits' = m /\ switches' = switches + 1
    /\ paused' = (paused \/ buffer > m[2])
    /\ UNCHANGED <<armed, defaults, late, sendVars, buffer, flight, readVars, calls, raised>>

\* slip: switching off leaves a paused writer paused.
SwitchOffForgetsPaused ==
    /\ UserRuns /\ armed /\ switches < MaxSwitches
    /\ armed' = FALSE /\ switches' = switches + 1 /\ late' = TRUE
    /\ buffer' = 0
    /\ UNCHANGED <<defaults, limits, sendVars, paused, flight, readVars, calls, raised>>

\* set_flow_control(enabled=False): _release_flow_control on every transport.
SwitchOff ==
    /\ UserRuns /\ armed /\ switches < MaxSwitches
    /\ armed' = FALSE /\ switches' = switches + 1 /\ late' = TRUE
    /\ buffer' = 0 /\ paused' = FALSE
    /\ UNCHANGED <<defaults, limits, sendVars, flight, readVars, calls, raised>>

\* set_flow_control(enabled=True): nobody is paused or resumed by it.
SwitchOn(m) ==
    /\ UserRuns /\ switches < MaxSwitches
    /\ armed' = TRUE /\ defaults' = m /\ switches' = switches + 1
    /\ UNCHANGED <<limits, late, sendVars, buffer, paused, flight, readVars, calls, raised>>

-----------------------------------------------------------------------------
\* The receiving end

\* max(0, buffer - n)
Drained(n) == IF buffer > n THEN buffer - n ELSE 0

\* slip: the writer is resumed below the low mark, not at it.
ConsumedBelowLow(chunk) ==
    IF armed /\ sender # "closed"
    THEN buffer' = Drained(size[chunk]) /\ paused' = (paused /\ buffer' >= Low)
    ELSE UNCHANGED <<buffer, paused>>

\* _consumed and the sender's _credit, with _maybe_resume_protocol.
Consumed(chunk) ==
    IF armed /\ sender # "closed"
    THEN buffer' = Drained(size[chunk]) /\ paused' = (paused /\ buffer' > Low)
    ELSE UNCHANGED <<buffer, paused>>

\* _data_arrived, up to its call of data_received.
DataArrives ==
    /\ calls = <<>> /\ flight # <<>> /\ Head(flight) # Eof
    /\ flight' = Tail(flight)
    /\ IF receiver = "closed" THEN UNCHANGED <<backlog, got, calls>>
       ELSE IF readPaused THEN backlog' = Append(backlog, Head(flight)) /\ UNCHANGED <<got, calls>>
       ELSE /\ got' = Append(got, Head(flight))
            /\ calls' = <<Call("landed", "handing", Head(flight))>>
            /\ UNCHANGED backlog
    /\ UNCHANGED <<switchVars, late, sendVars, buffer, paused, receiver, readPaused,
                   eofPending, raised>>

\* _eof_arrived; whether the protocol then closes is up to ReceiverGone.
EofArrives ==
    /\ calls = <<>> /\ flight # <<>> /\ Head(flight) = Eof
    /\ flight' = Tail(flight)
    /\ eofPending' = (eofPending \/ (receiver = "open" /\ readPaused))
    /\ got' = IF receiver = "open" /\ ~readPaused THEN Append(got, Eof) ELSE got
    /\ UNCHANGED <<switchVars, late, sendVars, buffer, paused, receiver, readPaused,
                   backlog, calls, raised>>

\* slip: the bytes are credited only when they came straight from the wire.
DrainUncredited ==
    /\ calls # <<>> /\ Top.at = "handing"
    /\ IF Top.kind = "landed" THEN Consumed(Top.chunk) ELSE UNCHANGED <<buffer, paused>>
    /\ calls' = IF Top.kind = "landed" THEN Popped
                ELSE Replaced(Call("drain", "loop", Eof))
    /\ UNCHANGED <<switchVars, late, sendVars, flight, readVars, raised>>

\* data_received returns, and only now the sender is credited; its protocol's
\* resume_writing may run in the middle of resume_reading's loop.
Return ==
    /\ calls # <<>> /\ Top.at = "handing"
    /\ Consumed(Top.chunk)
    /\ calls' = IF Top.kind = "landed" THEN Popped
                ELSE Replaced(Call("drain", IF paused /\ ~paused' THEN "woke" ELSE "loop", Eof))
    /\ UNCHANGED <<switchVars, late, sendVars, flight, readVars, raised>>

\* That resume_writing returns.
WriterReturns ==
    /\ calls # <<>> /\ Top.at = "woke"
    /\ calls' = Replaced(Call("drain", "loop", Eof))
    /\ UNCHANGED <<switchVars, late, sendVars, buffer, paused, flight, readVars, raised>>

\* data_received raises: out of the push loop, or into the caller of
\* resume_reading, which may or may not raise in its turn.
Raise ==
    /\ calls # <<>> /\ Top.at = "handing"
    /\ calls' = Popped /\ raised' = TRUE
    /\ UNCHANGED <<switchVars, late, sendVars, buffer, paused, flight, readVars>>

PauseReading ==
    /\ UserRuns /\ receiver = "open" /\ ~readPaused
    /\ readPaused' = TRUE
    /\ UNCHANGED <<switchVars, late, sendVars, buffer, paused, flight, receiver, backlog,
                   eofPending, got, calls, raised>>

ResumeReading ==
    /\ UserRuns /\ receiver = "open" /\ readPaused
    /\ readPaused' = FALSE
    /\ calls' = Append(calls, Call("drain", "loop", Eof))
    /\ UNCHANGED <<switchVars, late, sendVars, buffer, paused, flight, receiver, backlog,
                   eofPending, got, raised>>

Reading == ~readPaused /\ receiver = "open"
InLoop == calls # <<>> /\ Top.at = "loop"

\* One turn of resume_reading's loop.
DrainOne ==
    /\ InLoop /\ backlog # <<>> /\ Reading
    /\ got' = Append(got, Head(backlog)) /\ backlog' = Tail(backlog)
    /\ calls' = Replaced(Call("drain", "handing", Head(backlog)))
    /\ UNCHANGED <<switchVars, late, sendVars, buffer, paused, flight, receiver, readPaused,
                   eofPending, raised>>

\* slip: a pending eof is handed up though the loop stopped early.
DrainEndsWithEof ==
    /\ InLoop /\ ~(backlog # <<>> /\ Reading)
    /\ eofPending' = FALSE
    /\ got' = IF eofPending THEN Append(got, Eof) ELSE got
    /\ calls' = Popped
    /\ UNCHANGED <<switchVars, late, sendVars, buffer, paused, flight, receiver, readPaused,
                   backlog, raised>>

\* resume_reading returns, with the eof that waited behind the backlog.
DrainEnds ==
    /\ InLoop /\ ~(backlog # <<>> /\ Reading)
    /\ eofPending' = (eofPending /\ ~Reading)
    /\ got' = IF eofPending /\ Reading THEN Append(got, Eof) ELSE got
    /\ calls' = Popped
    /\ UNCHANGED <<switchVars, late, sendVars, buffer, paused, flight, receiver, readPaused,
                   backlog, raised>>

\* _finish of the receiving end, from the loop, or at once in a crash.
ReceiverGone ==
    /\ UserRuns /\ receiver = "open"
    /\ receiver' = "closed"
    /\ UNCHANGED <<switchVars, late, sendVars, buffer, paused, flight, readPaused, backlog,
                   eofPending, got, calls, raised>>

-----------------------------------------------------------------------------
Init ==
    /\ armed \in BOOLEAN /\ defaults \in Marks /\ limits = Unset /\ switches = 0
    /\ late = FALSE /\ raised = FALSE
    /\ size = <<>> /\ eofSent = FALSE /\ sender = "open" /\ buffer = 0 /\ paused = FALSE
    /\ flight = <<>> /\ receiver = "open" /\ readPaused = FALSE
    /\ backlog = <<>> /\ eofPending = FALSE /\ calls = <<>> /\ got = <<>>

Sending ==
    \/ \E n \in Sizes : Write(n)
    \/ \E closing \in BOOLEAN : SendEof(closing)
    \/ SenderGone
    \/ SwitchOff
    \/ \E m \in Marks : SetLimits(m) \/ SwitchOn(m)

Arriving == DataArrives \/ EofArrives
Draining == DrainOne \/ DrainEnds
Returning == Return \/ WriterReturns \/ Raise
Receiving ==
    Arriving \/ Draining \/ Returning \/ PauseReading \/ ResumeReading \/ ReceiverGone

Next == Sending \/ Receiving

Spec == Init /\ [][Next]_vars

(***************************************************************************)
(* A callback comes back, however often it pauses and resumes meanwhile    *)
(* (strong fairness: those calls nest in it), the loop of resume_reading   *)
(* runs to its end, and the loop delivers what is in flight: user code     *)
(* does not keep the thread, or the virtual clock, busy for ever.          *)
(***************************************************************************)
FairSpec == Spec /\ SF_vars(Arriving) /\ WF_vars(Draining) /\ SF_vars(Returning)

-----------------------------------------------------------------------------
\* The bytes of these chunks, added up in the order written.
Bytes(sizes, chunks) ==
    LET upto[n \in 0 .. Len(sizes)] ==
          IF n = 0 THEN 0 ELSE upto[n - 1] + (IF n \in chunks THEN sizes[n] ELSE 0)
    IN  upto[Len(sizes)]

Outstanding == Bytes(size, (ToSet(flight) \cup ToSet(backlog) \cup Handing) \ {Eof})

\* However reading is paused and resumed, from inside data_received too, the
\* protocol is handed the chunks in the order written and the eof after the
\* last of them (_data_arrived, resume_reading), as long as it does not raise.
ReadInOrder ==
    ~raised => \A i \in DOMAIN got : got[i] = i \/ (got[i] = Eof /\ i = Len(size) + 1)

\* The write buffer "holds every byte written that the peer's protocol has not
\* received yet", neither more nor less, when the switch was on all along; and
\* switching flow control off and on again with bytes on their way never leaves
\* the sender owing more than is really outstanding.
BufferIsOutstanding ==
    ~raised /\ sender # "closed" /\ receiver = "open" =>
        /\ buffer <= Outstanding
        /\ ~late /\ armed => buffer = Outstanding

\* Nobody is paused for nothing: a paused protocol has bytes in its buffer and
\* flow control is on, so some read is still to come that can release it.
PausedForAReason == paused => armed /\ buffer > 0 /\ sender # "closed"

\* A paused sender is released as long as its peer keeps coming back to read.
PausedIsReleased ==
    (paused ~> ~paused) \/ <>(receiver = "closed" \/ raised) \/ <>[]readPaused
=============================================================================
