------------------------------- MODULE SimNet -------------------------------
(***************************************************************************)
(* The simulated network: SimNetwork, _InOrder and SimServer in            *)
(* src/src/simloop/_net.py, with the connection life cycle of              *)
(* _SimStreamTransport in src/src/simloop/_transports.py.  Hosts crash and *)
(* restart, links are cut and healed, connections are opened, given up,    *)
(* written to, closed and aborted.                                         *)
(*                                                                         *)
(* A packet on the wire arrives whenever the latency drawn for it and the  *)
(* scheduling policy say, so any packet on the wire may be the next to     *)
(* arrive.  Stream packets carry a per-direction sequence number and are   *)
(* handed up in that order.  Each turn of the reassembly loop, and the     *)
(* return of each protocol callback it makes, is an action of its own,     *)
(* because a callback can do anything user code can, and can raise.  A     *)
(* host has one listening port.  Back-pressure and reading pauses are the  *)
(* subject of StreamFlow.                                                  *)
(***************************************************************************)
EXTENDS Integers, Sequences, FiniteSets

CONSTANTS
    Hosts,
    Driver,     \* the host that cannot crash
    Routes,     \* pairs <<from, to>>: who connects to whom, and who listens
    Zombies,    \* TRUE: cancelled tasks of a crashed host may still act
    Raising,    \* TRUE: protocol factories and callbacks may raise
    Reactive,   \* TRUE: connection_lost may close the host's other connections
    MaxConns,   \* bound: connections opened in one behaviour
    MaxSent,    \* bound: with so many packets sent over a connection, its ends are
                \* only closed
    MaxCrashes, \* bound: crashes in one behaviour
    MaxCuts     \* bound: partitions in one behaviour

ASSUME NetAssumption ==
    /\ Driver \in Hosts /\ Routes \subseteq Hosts \X Hosts
    /\ Zombies \in BOOLEAN /\ Raising \in BOOLEAN /\ Reactive \in BOOLEAN
    /\ MaxConns \in Nat /\ MaxSent \in Nat
    /\ MaxCrashes \in Nat /\ MaxCuts \in Nat

Conns == 0 .. MaxConns - 1
Ends  == Conns \X {"client", "server"}
Nobody == <<-1, "nobody">>

VARIABLES
    alive,      \* _alive
    life,       \* how often each host has crashed
    cuts,       \* _cuts, pairs of hosts
    cutsMade,   \* partitions so far
    listening,  \* hosts with an entry in _listeners
    nextConn,   \* _next_conn
    where,      \* the host each end is on
    connect,    \* _pending, its future and the connector's task: none, pending,
                \* answering while the accept is handed up, botched when that
                \* raised, answered, doomed if the task is then cancelled by a
                \* crash, connected, refused, gaveup
    stream,     \* none before the transport is built, open, closing, closed
    bare,       \* registered ends whose _protocol is still None
    born,       \* the life of its host in which each end was asked for
    sent,       \* packets sent by each end; its transport's _out_seq
    eofSent,    \* ends that have sent their fin
    finAlive,   \* history: the fin was sent while the host was up
    finishing,  \* ends with a _finish in the ready queue
    wire,       \* packets in flight
    held,       \* _held
    early,      \* packets in some _early
    next,       \* _InOrder._next of the direction into each end
    draining,   \* the end whose push loop is running, or Nobody
    calling,    \* the callback that loop is inside: no, factory, made, data, eof,
                \* lost
    got,        \* seqs of the data and the eof handed to each end's protocol
    eofSeen,    \* ends whose protocol was told of the peer's eof
    crashed,    \* history: connections that have met one of their hosts down
    stranded,   \* history: ends whose last push loop was left by an exception
                \* with packets behind that were ready
    leftBehind  \* history: ends a crash cut short did not get to

netVars   == <<wire, held>>
queueVars == <<early, next, draining, calling>>
hostVars  == <<alive, life, cuts, cutsMade>>
connVars  == <<nextConn, where, born>>
histVars  == <<got, eofSeen, crashed, stranded, leftBehind>>
endVars   == <<stream, bare, sent, eofSent, finAlive, finishing>>
vars == <<hostVars, listening, connVars, connect, endVars, netVars, queueVars, histVars>>

-----------------------------------------------------------------------------
\* Helpers

Other(e) == <<e[1], IF e[2] = "client" THEN "server" ELSE "client">>
Client(c) == <<c, "client">>
Server(c) == <<c, "server">>
Packet(kind, to, seq) == [kind |-> kind, to |-> to, seq |-> seq]
InUse(e) == e[1] < nextConn
Registered(e) == stream[e] \in {"open", "closing"}      \* in _streams

\* _is_cut for the two hosts of a connection.
IsCut(e) == {where[e], where[Other(e)]} \in cuts
On(h) == {e \in Ends : InUse(e) /\ where[e] = h}
Ours(h) == {e \in On(h) : Registered(e)}
Touching(h, ps) == {p \in ps : InUse(p.to) /\ h \in {where[p.to], where[Other(p.to)]}}

\* slip: a packet that meets a cut is dropped, not held.
TransmitDrops(ps) ==
    /\ wire' = wire \cup {p \in ps : ~IsCut(p.to)}
    /\ UNCHANGED held

\* _blackhole: stream packets that meet a cut are kept for heal.
Blackholed(ps) == {p \in ps : IsCut(p.to)}

\* _transmit, for stream packets: held at a cut, otherwise on its way.
Transmit(ps) ==
    /\ held' = held \cup Blackholed(ps)
    /\ wire' = wire \cup (ps \ Blackholed(ps))

\* _send: the packet takes the end's next sequence number.
Send(e, kind) ==
    /\ sent' = [sent EXCEPT ![e] = @ + 1]
    /\ Transmit({Packet(kind, Other(e), sent[e])})

CanAct(h) == h \in alive \/ Zombies

-----------------------------------------------------------------------------
\* Servers and connections, from user code

Listen(h) ==                                                \* _start_server
    /\ CanAct(h) /\ h \notin listening
    /\ listening' = listening \cup {h}
    /\ UNCHANGED <<hostVars, connVars, connect, endVars, netVars, queueVars, histVars>>

CloseServer(h) ==                                           \* SimServer.close
    /\ h \in listening
    /\ listening' = listening \ {h}
    /\ UNCHANGED <<hostVars, connVars, connect, endVars, netVars, queueVars, histVars>>

\* _open_connection up to its await.  IsCut reads where, which this changes.
Connect(h, g) ==
    /\ CanAct(h) /\ nextConn < MaxConns
    /\ LET c == nextConn
           syn == {Packet("syn", Server(c), 0)}
           cut == {h, g} \in cuts
       IN /\ nextConn' = c + 1
          /\ where' = [where EXCEPT ![Client(c)] = h, ![Server(c)] = g]
          /\ born' = [born EXCEPT ![Client(c)] = life[h]]
          /\ connect' = [connect EXCEPT ![c] = "pending"]
          /\ sent' = [sent EXCEPT ![Client(c)] = 1]
          /\ held' = IF cut THEN held \cup syn ELSE held
          /\ wire' = IF cut THEN wire ELSE wire \cup syn
          /\ crashed' = IF {h, g} \subseteq alive THEN crashed ELSE crashed \cup {c}
    /\ UNCHANGED <<hostVars, listening, stream, bare, eofSent, finAlive, finishing,
                   queueVars, got, eofSeen, stranded, leftBehind>>

\* The connector's task resumes with the pair the accept resolved.
Resume(c) ==
    /\ connect[c] = "answered" /\ draining = Nobody
    /\ connect' = [connect EXCEPT ![c] = "connected"]
    /\ UNCHANGED <<hostVars, listening, connVars, endVars, netVars, queueVars, histVars>>

\* _force_close: a reset, and _finish on the next step.
ForceClose(e) ==
    IF stream[e] = "closed" THEN UNCHANGED <<endVars, netVars>>
    ELSE /\ Send(e, "rst")
         /\ stream' = [stream EXCEPT ![e] = "closing"]
         /\ finishing' = finishing \cup {e}
         /\ UNCHANGED <<bare, eofSent, finAlive>>

\* Connectors whose future is not done, and those cancelled by now if they are.
Waiting == {"pending", "answering", "botched"}
Answered == {"answered", "doomed"}

\* The connector is cancelled: at once while its future is pending, which is the
\* end of the future and aborts nothing, or on its own next step if the answer
\* came first.
GiveUp(c) ==
    /\ \/ connect[c] \in Waiting /\ UNCHANGED <<endVars, netVars>>
       \/ connect[c] \in Answered /\ draining = Nobody /\ ForceClose(Client(c))
    /\ connect' = [connect EXCEPT ![c] = "gaveup"]
    /\ UNCHANGED <<hostVars, listening, connVars, queueVars, histVars>>

HasRoom(e) == sent[e] + sent[Other(e)] < MaxSent

\* The protocol holds the transport, which it has from connection_made.
Write(e) ==
    /\ stream[e] = "open" /\ e \notin bare \cup eofSent /\ HasRoom(e)
    /\ Send(e, "data")
    /\ UNCHANGED <<hostVars, listening, connVars, connect, stream, bare, eofSent,
                   finAlive, finishing, queueVars, histVars>>

\* The fin that write_eof and close() send once.
SendFin(e) ==
    IF e \in eofSent THEN UNCHANGED <<sent, eofSent, finAlive, netVars>>
    ELSE /\ Send(e, "fin")
         /\ eofSent' = eofSent \cup {e}
         /\ finAlive' = IF where[e] \in alive THEN finAlive \cup {e} ELSE finAlive

WriteEof(e) ==
    /\ Registered(e) /\ e \notin bare \cup eofSent /\ HasRoom(e)
    /\ SendFin(e)
    /\ UNCHANGED <<hostVars, listening, connVars, connect, stream, bare, finishing,
                   queueVars, histVars>>

\* close(), and the same when eof_received does not keep the connection open.
StartClosing(e) ==
    /\ SendFin(e)
    /\ stream' = [stream EXCEPT ![e] = "closing"]
    /\ finishing' = finishing \cup {e}
    /\ UNCHANGED bare

\* close_clients and abort_clients reach a server end without a protocol; a
\* client end is in nobody's hands until connection_made.
InReach(e) == e \in bare => e[2] = "server"

Close(e) ==
    /\ stream[e] = "open" /\ InReach(e)
    /\ StartClosing(e)
    /\ UNCHANGED <<hostVars, listening, connVars, connect, queueVars, histVars>>

\* abort(), even on an end that is already closing.
Abort(e) ==
    /\ Registered(e) /\ InReach(e) /\ HasRoom(e)
    /\ ForceClose(e)
    /\ UNCHANGED <<hostVars, listening, connVars, connect, queueVars, histVars>>

\* The queued _finish runs: the transport leaves the registry.
Finish(e) ==
    /\ e \in finishing /\ draining = Nobody
    /\ finishing' = finishing \ {e}
    /\ stream' = [stream EXCEPT ![e] = "closed"]
    /\ bare' = bare \ {e}
    /\ UNCHANGED <<hostVars, listening, connVars, connect, sent, eofSent, finAlive,
                   netVars, queueVars, histVars>>

-----------------------------------------------------------------------------
\* Faults

Partition(a, b) ==
    /\ a # b /\ {a, b} \notin cuts /\ cutsMade < MaxCuts
    /\ cuts' = cuts \cup {{a, b}}
    /\ cutsMade' = cutsMade + 1
    /\ UNCHANGED <<alive, life, listening, connVars, connect, endVars, netVars, queueVars,
                   histVars>>

\* slip: the cuts go, and what they held stays held.
HealForgetsHeld ==
    /\ cuts # {}
    /\ cuts' = {}
    /\ UNCHANGED <<alive, life, cutsMade, listening, connVars, connect, endVars, netVars,
                   queueVars, histVars>>

\* Every cut goes at once, and what they held is transmitted again.
Heal ==
    /\ cuts # {}
    /\ cuts' = {} /\ held' = {} /\ wire' = wire \cup held
    /\ UNCHANGED <<alive, life, cutsMade, listening, connVars, connect, endVars, queueVars,
                   histVars>>

MayCrash(h) == h \in alive \ {Driver} /\ life[h] < MaxCrashes

\* Ends on h that are closed by the connection_lost of another connection of h,
\* when _finish reaches the ends F, in an order that is left open.
Reactions(h, F) ==
    IF Reactive
    THEN {S \in SUBSET {e \in Ours(h) : stream[e] = "open" /\ InReach(e)} :
            S = {} \/ F \ (bare \cup S) # {}}
    ELSE {{}}

\* The fins those closes send.
FinsOf(S) == {Packet("fin", Other(e), sent[e]) : e \in S \ eofSent}

\* crash up to its last loop: cancel the host's tasks, close its listeners, and
\* finish its transports one by one, F of them.
TakeDown(h, S, F) ==
    /\ MayCrash(h)
    /\ S \in Reactions(h, F)
    /\ alive' = alive \ {h}
    /\ life' = [life EXCEPT ![h] = @ + 1]
    /\ listening' = listening \ {h}
    /\ connect' = [c \in Conns |->
                     IF where[Client(c)] # h THEN connect[c]
                     ELSE IF connect[c] \in Waiting THEN "gaveup"
                     ELSE IF connect[c] = "answered" THEN "doomed" ELSE connect[c]]
    /\ sent' = [e \in Ends |-> IF e \in S \ eofSent THEN sent[e] + 1 ELSE sent[e]]
    /\ eofSent' = eofSent \cup S
    /\ wire' = wire \cup (FinsOf(S) \ Blackholed(FinsOf(S)))
    /\ stream' = [e \in Ends |-> IF e \in F THEN "closed"
                                 ELSE IF e \in S THEN "closing" ELSE stream[e]]
    /\ finishing' = (finishing \cup S) \ F
    /\ bare' = bare \ F
    /\ crashed' = crashed \cup {e[1] : e \in On(h)}
    /\ UNCHANGED <<cuts, cutsMade, connVars, finAlive, queueVars, got, eofSeen, stranded>>

\* crash: every transport finished, and what is held for the host dropped.
Crash(h, S) ==
    /\ TakeDown(h, S, Ours(h))
    /\ held' = held \ Touching(h, held)
    /\ UNCHANGED leftBehind

\* crash left by the exception of a connection_lost, that of one of the ends F:
\* the other transports stay registered, and what is held stays held.
CrashCutShort(h, S, F) ==
    /\ Raising /\ F \subseteq Ours(h) /\ F \ bare # {}
    /\ TakeDown(h, S, F)
    /\ held' = held \cup Blackholed(FinsOf(S))
    /\ leftBehind' = leftBehind \cup (Ours(h) \ F)

Restart(h) ==
    /\ h \notin alive
    /\ alive' = alive \cup {h}
    /\ UNCHANGED <<life, cuts, cutsMade, listening, connVars, connect, endVars, netVars,
                   queueVars, histVars>>

-----------------------------------------------------------------------------
\* The packet pipeline

\* _deliver, the end of a packet's flight: lost with either host down, held
\* at a cut that appeared meanwhile, else pushed into its direction's queue.
Deliver(p) ==
    /\ p \in wire /\ draining = Nobody
    /\ wire' = wire \ {p}
    /\ IF {where[p.to], where[Other(p.to)]} \subseteq alive
       THEN IF IsCut(p.to)
            THEN held' = held \cup {p} /\ UNCHANGED <<early, draining>>
            ELSE early' = early \cup {p} /\ draining' = p.to /\ UNCHANGED held
       ELSE UNCHANGED <<held, early, draining>>
    /\ UNCHANGED <<hostVars, listening, connVars, connect, endVars, next, calling, histVars>>

\* slip: a packet is handed up as it comes, in order or not.
AnyReady(e) == {p \in early : p.to = e}

\* What the push loop would take next.
Ready(e) == {p \in early : p.to = e /\ p.seq = next[e]}

\* The loop of e goes on, inside the named callback or in none.
StaysIn(e, callback) == draining' = e /\ calling' = callback /\ UNCHANGED stranded

\* An exception leaves the loop of e, and what is ready in it stays behind.
LeavesLoop(e) ==
    /\ draining' = Nobody /\ calling' = "no"
    /\ stranded' = IF Ready(e)' # {} THEN stranded \cup {e} ELSE stranded

\* A transport is registered, and the factory called for its protocol.
Register(e) ==
    /\ stream' = [stream EXCEPT ![e] = "open"]
    /\ bare' = bare \cup {e}
    /\ StaysIn(e, "factory")

\* slip: a syn nobody listens for is dropped without an answer.
SynUnanswered(e) ==
    /\ IF where[e] \in listening
       THEN /\ Register(e)
            /\ born' = [born EXCEPT ![e] = life[where[e]]]
            /\ Send(e, "accept")
       ELSE StaysIn(e, "no") /\ UNCHANGED <<stream, bare, born, sent, netVars>>
    /\ UNCHANGED <<connect, eofSent, finAlive, finishing, got, eofSeen>>

\* _handle_syn: the listener's new transport and its accept, or a refusal.
HandleSyn(e) ==
    /\ IF where[e] \in listening
       THEN /\ Register(e)
            /\ born' = [born EXCEPT ![e] = life[where[e]]]
            /\ Send(e, "accept")
       ELSE StaysIn(e, "no") /\ Send(e, "refuse") /\ UNCHANGED <<stream, bare, born>>
    /\ UNCHANGED <<connect, eofSent, finAlive, finishing, got, eofSeen>>

\* slip: an answer builds the transport whoever still waits for it.
AnswerAlways(e, kind) ==
    /\ IF kind = "accept"
       THEN Register(e) /\ connect' = [connect EXCEPT ![e[1]] = "answering"]
       ELSE /\ connect' = [connect EXCEPT ![e[1]] = "refused"]
            /\ StaysIn(e, "no") /\ UNCHANGED <<stream, bare>>
    /\ UNCHANGED <<born, sent, eofSent, finAlive, finishing, netVars, got, eofSeen>>

\* accept or refuse: nobody may be waiting for it any more.
HandleAnswer(e, kind) ==
    /\ IF kind = "accept" /\ connect[e[1]] = "pending"
       THEN Register(e) /\ connect' = [connect EXCEPT ![e[1]] = "answering"]
       ELSE /\ connect' = IF connect[e[1]] = "pending"
                          THEN [connect EXCEPT ![e[1]] = "refused"] ELSE connect
            /\ StaysIn(e, "no") /\ UNCHANGED <<stream, bare>>
    /\ UNCHANGED <<born, sent, eofSent, finAlive, finishing, netVars, got, eofSeen>>

\* data_received or eof_received.  A transport without a protocol has neither
\* to call, and raises.
HandUp(e, seq, callback) ==
    IF e \in bare THEN LeavesLoop(e) /\ UNCHANGED got
    ELSE IF Registered(e)
    THEN StaysIn(e, callback) /\ got' = [got EXCEPT ![e] = Append(@, seq)]
    ELSE StaysIn(e, "no") /\ UNCHANGED got

HandleData(e, seq) ==
    /\ HandUp(e, seq, "data")
    /\ UNCHANGED <<born, connect, endVars, netVars, eofSeen>>

HandleFin(e, seq) ==
    /\ HandUp(e, seq, "eof")
    /\ eofSeen' = IF Registered(e) /\ e \notin bare THEN eofSeen \cup {e} ELSE eofSeen
    /\ UNCHANGED <<born, connect, endVars, netVars>>

\* _reset_arrived: _finish at once.
HandleRst(e) ==
    /\ stream' = IF Registered(e) THEN [stream EXCEPT ![e] = "closed"] ELSE stream
    /\ finishing' = finishing \ {e} /\ bare' = bare \ {e}
    /\ StaysIn(e, IF Registered(e) /\ e \notin bare THEN "lost" ELSE "no")
    /\ UNCHANGED <<born, connect, sent, eofSent, finAlive, netVars, got, eofSeen>>

DispatchReady(e, p) ==
    \/ p.kind = "syn" /\ HandleSyn(e)
    \/ p.kind \in {"accept", "refuse"} /\ HandleAnswer(e, p.kind)
    \/ p.kind = "data" /\ HandleData(e, p.seq)
    \/ p.kind = "fin" /\ HandleFin(e, p.seq)
    \/ p.kind = "rst" /\ HandleRst(e)

\* One turn of push's loop, up to the callback it makes.
Dispatch(e, p) ==
    /\ draining = e /\ calling = "no" /\ p \in Ready(e)
    /\ early' = early \ {p}
    /\ next' = [next EXCEPT ![e] = @ + 1]
    /\ DispatchReady(e, p)
    /\ UNCHANGED <<hostVars, listening, nextConn, where, crashed, leftBehind>>

\* _begin: the protocol the factory made is adopted, and told of its transport.
FactoryReturns(e) ==
    /\ draining = e /\ calling = "factory"
    /\ bare' = bare \ {e}
    /\ calling' = "made"
    /\ UNCHANGED <<hostVars, listening, connVars, connect, stream, sent, eofSent, finAlive,
                   finishing, netVars, early, next, draining, histVars>>

\* connection_made returns.  On the connecting end the future is then resolved,
\* which raises if it was cancelled meanwhile.
MadeReturns(e) ==
    /\ draining = e /\ calling = "made"
    /\ UNCHANGED <<hostVars, listening, connVars, endVars, netVars, early, next, got,
                   eofSeen, crashed, leftBehind>>
    /\ IF e[2] = "server" THEN StaysIn(e, "no") /\ UNCHANGED connect
       ELSE IF connect[e[1]] = "answering"
       THEN /\ connect' = [connect EXCEPT ![e[1]] = "answered"]
            /\ StaysIn(e, "no")
       ELSE LeavesLoop(e) /\ UNCHANGED connect

\* data_received, connection_lost or eof_received returns; the last one keeps
\* the connection open or lets it be closed.
CallbackReturns(e) ==
    /\ draining = e /\ calling \in {"data", "eof", "lost"}
    /\ StaysIn(e, "no")
    /\ \/ UNCHANGED <<endVars, netVars>>
       \/ calling = "eof" /\ stream[e] = "open" /\ StartClosing(e)
    /\ UNCHANGED <<hostVars, listening, connVars, connect, early, next, got, eofSeen,
                   crashed, leftBehind>>

\* The factory or callback raises.  A connect whose accept was being handed up
\* is in nobody's table by then, and its future stays pending.
CallbackRaises(e) ==
    /\ Raising /\ draining = e /\ calling # "no"
    /\ connect' = [c \in Conns |-> IF c = e[1] /\ connect[c] = "answering"
                                      /\ e[2] = "client"
                                   THEN "botched" ELSE connect[c]]
    /\ UNCHANGED <<hostVars, listening, connVars, endVars, netVars, early, next, got,
                   eofSeen, crashed, leftBehind>>
    /\ LeavesLoop(e)

PushEnds ==
    /\ draining # Nobody /\ calling = "no" /\ Ready(draining) = {}
    /\ draining' = Nobody
    /\ stranded' = stranded \ {draining}
    /\ UNCHANGED <<hostVars, listening, connVars, connect, endVars, netVars, early, next,
                   calling, got, eofSeen, crashed, leftBehind>>

-----------------------------------------------------------------------------
Init ==
    /\ alive = Hosts /\ life = [h \in Hosts |-> 0] /\ cuts = {} /\ cutsMade = 0
    /\ listening = {} /\ nextConn = 0
    /\ where = [e \in Ends |-> Driver] /\ born = [e \in Ends |-> 0]
    /\ connect = [c \in Conns |-> "none"]
    /\ stream = [e \in Ends |-> "none"] /\ bare = {} /\ sent = [e \in Ends |-> 0]
    /\ eofSent = {} /\ finAlive = {} /\ finishing = {}
    /\ wire = {} /\ held = {} /\ early = {}
    /\ next = [e \in Ends |-> 0] /\ draining = Nobody /\ calling = "no"
    /\ got = [e \in Ends |-> <<>>] /\ eofSeen = {} /\ crashed = {}
    /\ stranded = {} /\ leftBehind = {}

Network ==
    \/ \E p \in wire : Deliver(p)
    \/ \E e \in Ends, p \in early : Dispatch(e, p)
    \/ \E e \in Ends : FactoryReturns(e) \/ MadeReturns(e) \/ CallbackReturns(e)
                      \/ CallbackRaises(e) \/ Finish(e)
    \/ PushEnds

\* User code runs in the loop's steps and in the callbacks push makes.
UserRuns == draining = Nobody \/ calling # "no"

User ==
    /\ UserRuns
    /\ \/ \E r \in Routes : Listen(r[2]) \/ CloseServer(r[2]) \/ Connect(r[1], r[2])
       \/ \E c \in Conns : Resume(c) \/ GiveUp(c)
       \/ \E e \in Ends : Write(e) \/ WriteEof(e) \/ Close(e) \/ Abort(e)

Faults ==
    /\ UserRuns
    /\ \/ \E a, b \in Hosts : Partition(a, b)
       \/ Heal
       \/ \E h \in Hosts : \E S \in Reactions(h, Ours(h)) : Crash(h, S)
       \/ \E h \in Hosts : \E F \in SUBSET Ours(h) :
            \E S \in Reactions(h, F) : CrashCutShort(h, S, F)
       \/ \E h \in Hosts : Restart(h)

Next == Network \/ User \/ Faults

Spec == Init /\ [][Next]_vars

\* The loop runs every handle it holds and callbacks return or raise, so every
\* packet in flight lands, and every push loop and every queued _finish comes to
\* its end.  User code and faults owe nothing.
Fairness == WF_vars(Network)

FairSpec == Spec /\ Fairness

-----------------------------------------------------------------------------
\* Properties

\* A protocol is handed its peer's bytes, and then its eof, in the order they
\* were written and with none missing in between (_InOrder.push), however the
\* packets overtook one another, were held at a cut or were left in flight by
\* a host that crashed.
InOrder ==
    \A e \in Ends : \A i \in 1 .. Len(got[e]) : got[e][i] = i

In(ps, e, n) == \E p \in ps : p.to = e /\ p.seq = n

\* While both hosts of a connection stay up, each packet an end has sent is in
\* exactly one place: on the wire, held behind a cut that still stands
\* (_blackhole, heal), waiting for an earlier one, or handed up.  This is the
\* "never dropped, only delayed or held" of _SimStreamTransport.
NothingDropped ==
    \A e \in Ends : InUse(e) /\ e[1] \notin crashed =>
      \A n \in 0 .. sent[Other(e)] - 1 :
        LET at == <<In(wire, e, n), In(held, e, n) /\ IsCut(e), In(early, e, n), n < next[e]>>
        IN \E i \in 1 .. 4 : at = [k \in 1 .. 4 |-> k = i]

\* No connection outlives its machine: a registered transport belongs to the
\* incarnation of its host that asked for it, even when the answer to a connect
\* comes in after a crash and a restart (crash, _dispatch_ready).  The ones that
\* do outlive it are those a crash did not get to because the connection_lost of
\* another connection of the host raised out of it.
NoResurrection ==
    \A e \in Ends : Registered(e) => born[e] = life[where[e]] \/ e \in leftBehind

\* Once the cuts are healed for good, everything sent between two machines
\* that stay up is handed up in the end.  A protocol that raises into a push
\* loop leaves what was ready behind, but only until the next packet comes.
EverythingArrives ==
    <>[](cuts = {}) =>
      \A e \in Ends : <>[](next[e] = sent[Other(e)] \/ e[1] \in crashed \/ e \in stranded)

\* Once the cuts are healed for good, nobody waits for a connection for ever:
\* it is answered, refused or given up, unless a machine crashed under it or the
\* connector's own factory or connection_made raised (_dispatch_ready pops the
\* _pending entry first, so that one exception is all it takes).
ConnectResolves ==
    <>[](cuts = {}) =>
      \A c \in Conns : connect[c] \in {"pending", "answering"}
                         ~> (connect[c] \notin {"pending", "answering"} \/ c \in crashed)

\* The comment in crash, "_finish sends no packet (a crashed host stays
\* silent)": a peer only sees an eof its machine sent while it was up.
CrashIsSilent ==
    \A e \in Ends : e \in eofSeen => Other(e) \in finAlive
=============================================================================
