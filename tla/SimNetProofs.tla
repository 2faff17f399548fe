---------------------------- MODULE SimNetProofs ----------------------------
(***************************************************************************)
(* Theorems about SimNet for every set of hosts and routes and every       *)
(* bound: streams are read in order, connections do not outlive their      *)
(* machines unless a raising connection_lost cuts a crash short, and no    *)
(* packet between two machines that stay up is dropped.                    *)
(***************************************************************************)
EXTENDS SimNet, TLAPS, SequenceTheorems

Opening == {"syn", "accept", "refuse"}
Kinds   == Opening \cup {"data", "fin", "rst"}
Packets == [kind : Kinds, to : Ends, seq : Nat]
Pool    == wire \cup held \cup early
Fates   == {"none", "pending", "answering", "botched", "answered", "doomed", "connected",
            "refused", "gaveup"}

\* What the variables the proofs are about can be.
NetTypes ==
    /\ alive \subseteq Hosts /\ life \in [Hosts -> Nat]
    /\ nextConn \in 0 .. MaxConns
    /\ where \in [Ends -> Hosts] /\ born \in [Ends -> Nat]
    /\ connect \in [Conns -> Fates]
    /\ stream \in [Ends -> {"none", "open", "closing", "closed"}]
    /\ sent \in [Ends -> Nat] /\ next \in [Ends -> Nat]
    /\ got \in [Ends -> Seq(Nat)]
    /\ wire \subseteq Packets /\ held \subseteq Packets /\ early \subseteq Packets

\* A callback runs in the push loop of an end that was handed a packet, and a
\* factory only for the first packet of its direction.
CallsInLoop == calling # "no" =>
    /\ draining \in Ends /\ next[draining] >= 1
    /\ calling = "factory" => next[draining] = 1

\* Nothing has happened yet on a connection that was not asked for.
Untouched == \A e \in Ends : ~InUse(e) =>
    stream[e] = "none" /\ sent[e] = 0 /\ next[e] = 0 /\ connect[e[1]] = "none"

\* A packet under way has been sent and not been handed up; the packets that
\* open a connection come first in their direction, a syn goes to a server and
\* an answer to a client.
PacketFits(p) ==
    /\ InUse(p.to) /\ next[p.to] <= p.seq /\ p.seq < sent[Other(p.to)]
    /\ p.kind \in Opening => p.seq = 0
    /\ p.kind = "syn" => p.to[2] = "server"
    /\ p.kind \in {"accept", "refuse"} => p.to[2] = "client"
PacketsFit ==
    /\ \A p \in Pool : PacketFits(p)
    /\ \A e \in Ends : next[e] <= sent[Other(e)]

\* A packet is in one place, and no two carry the same number.
OnePlace ==
    /\ wire \cap held = {} /\ wire \cap early = {} /\ held \cap early = {}
    /\ \A p, q \in Pool : p.to = q.to /\ p.seq = q.seq => p = q

\* What is held waits for a cut that stands, and a connection that has met
\* none of its hosts down has every packet it sent handed up or under way.
HeldAtCut == \A p \in held : IsCut(p.to)
DownIsKnown == \A e \in Ends : InUse(e) /\ where[e] \notin alive => e[1] \in crashed
NoGap == \A e \in Ends : InUse(e) /\ e[1] \notin crashed =>
    \A n \in next[e] .. sent[Other(e)] - 1 : In(Pool, e, n)

\* A connect that is still waiting belongs to the present life of its host.
WaitsInItsLife == \A c \in Conns :
    connect[c] = "pending" => born[Client(c)] = life[where[Client(c)]]

\* A transport exists only once its direction has handed up the packet that
\* opened it, and from then on its protocol gets every packet of it, if it has
\* a protocol at all.
Built(e) ==
    /\ stream[e] = "none" => got[e] = <<>> /\ e \notin finishing
    /\ stream[e] # "none" => next[e] >= 1
    /\ e[2] = "server" /\ next[e] = 0 => sent[e] = 0
    /\ Registered(e) /\ e \notin bare => Len(got[e]) = next[e] - 1
    /\ e \in bare => got[e] = <<>>
BuiltByFirst == \A e \in Ends : Built(e)
AnsweredIsBuilt == \A c \in Conns :
    connect[c] \in {"answering", "answered", "doomed"} => stream[Client(c)] # "none"

FlowInv == PacketsFit /\ OnePlace /\ HeldAtCut /\ DownIsKnown /\ NoGap
LifeInv == WaitsInItsLife /\ NoResurrection
OrderInv == BuiltByFirst /\ AnsweredIsBuilt /\ CallsInLoop /\ InOrder

NetInv == NetTypes /\ Untouched /\ FlowInv /\ LifeInv /\ OrderInv

-----------------------------------------------------------------------------
(***************************************************************************)
(* Ends and packets.                                                       *)
(***************************************************************************)

\* The two ends of a connection.
LEMMA EndFacts ==
    /\ \A e \in Ends : /\ Other(e) \in Ends /\ Other(Other(e)) = e /\ Other(e) # e
                       /\ Other(e)[1] = e[1] /\ (InUse(Other(e)) <=> InUse(e))
                       /\ e[1] \in Conns /\ e[2] \in {"client", "server"}
                       /\ (Other(e)[2] = "client" <=> e[2] = "server")
                       /\ (Other(e)[2] = "server" <=> e[2] = "client")
    /\ \A c \in Conns : /\ Client(c) \in Ends /\ Client(c)[1] = c /\ Client(c)[2] = "client"
                        /\ Server(c) \in Ends /\ Server(c)[1] = c /\ Server(c)[2] = "server"
                        /\ Other(Server(c)) = Client(c) /\ Other(Client(c)) = Server(c)
    /\ \A e \in Ends : (e[2] = "client" => e = Client(e[1])) /\ (e[2] = "server" => e = Server(e[1]))
  <1>1. ASSUME NEW e \in Ends
        PROVE  \E c \in Conns, r \in {"client", "server"} : e = <<c, r>>
    BY DEF Ends
  <1>2. ASSUME NEW c \in Conns, NEW r \in {"client", "server"}
        PROVE  /\ <<c, r>> \in Ends /\ <<c, r>>[1] = c /\ <<c, r>>[2] = r
               /\ Other(<<c, r>>) = <<c, IF r = "client" THEN "server" ELSE "client">>
    BY DEF Ends, Other
  <1>3. \A c \in Conns : Client(c) = <<c, "client">> /\ Server(c) = <<c, "server">>
    BY DEF Client, Server
  <1>4. \A c \in Conns : Other(<<c, "client">>) = <<c, "server">> /\ Other(<<c, "server">>) = <<c, "client">>
    BY <1>2
  <1>5. \A c \in Conns : <<c, "client">> # <<c, "server">>
    BY <1>2
  <1>6. ASSUME NEW e \in Ends
        PROVE  /\ Other(e) \in Ends /\ Other(Other(e)) = e /\ Other(e) # e
               /\ Other(e)[1] = e[1]
               /\ e[1] \in Conns /\ e[2] \in {"client", "server"}
               /\ (Other(e)[2] = "client" <=> e[2] = "server")
               /\ (Other(e)[2] = "server" <=> e[2] = "client")
               /\ (e[2] = "client" => e = Client(e[1])) /\ (e[2] = "server" => e = Server(e[1]))
    <2> PICK c \in Conns, r \in {"client", "server"} : e = <<c, r>>
      BY <1>1
    <2>1. CASE r = "client"
      BY <1>2, <1>3, <1>4, <1>5, <2>1
    <2>2. CASE r = "server"
      BY <1>2, <1>3, <1>4, <1>5, <2>2
    <2> QED
      BY <2>1, <2>2
  <1> QED
    BY <1>2, <1>3, <1>4, <1>6 DEF InUse

\* A packet is what it was made of.
LEMMA PacketFacts ==
    ASSUME NEW kind \in Kinds, NEW to \in Ends, NEW seq \in Nat
    PROVE  /\ Packet(kind, to, seq) \in Packets
           /\ Packet(kind, to, seq).kind = kind
           /\ Packet(kind, to, seq).to = to
           /\ Packet(kind, to, seq).seq = seq
  BY DEF Packet, Packets

\* What every packet has.
LEMMA PacketTypes ==
    \A p \in Packets : p.kind \in Kinds /\ p.to \in Ends /\ p.seq \in Nat
  BY DEF Packets

\* Sending takes the next number of the end and puts one packet on the wire,
\* or behind the cut it meets (_send, _transmit).
LEMMA SendFacts ==
    ASSUME NetTypes, NEW e \in Ends, NEW kind \in Kinds, Send(e, kind),
           NEW m, m = Packet(kind, Other(e), sent[e])
    PROVE  /\ m \in Packets /\ m.kind = kind /\ m.to = Other(e) /\ m.seq = sent[e]
           /\ sent' \in [Ends -> Nat] /\ sent'[e] = sent[e] + 1
           /\ \A f \in Ends \ {e} : sent'[f] = sent[f]
           /\ \/ IsCut(Other(e)) /\ held' = held \cup {m} /\ wire' = wire
              \/ ~IsCut(Other(e)) /\ wire' = wire \cup {m} /\ held' = held
  <1>1. sent \in [Ends -> Nat] /\ sent[e] \in Nat /\ Other(e) \in Ends
    BY EndFacts DEF NetTypes
  <1>2. m \in Packets /\ m.kind = kind /\ m.to = Other(e) /\ m.seq = sent[e]
    BY <1>1, PacketFacts
  <1>3. sent' = [sent EXCEPT ![e] = @ + 1] /\ Transmit({m})
    BY DEF Send
  <1>4. CASE IsCut(Other(e))
    <2>1. Blackholed({m}) = {m}
      BY <1>2, <1>4 DEF Blackholed
    <2>2. held' = held \cup {m} /\ wire' = wire
      BY <1>3, <2>1 DEF Transmit
    <2> QED
      BY <1>1, <1>2, <1>3, <1>4, <2>2
  <1>5. CASE ~IsCut(Other(e))
    <2>1. Blackholed({m}) = {}
      BY <1>2, <1>5 DEF Blackholed
    <2>2. held' = held /\ wire' = wire \cup {m}
      BY <1>3, <2>1 DEF Transmit
    <2> QED
      BY <1>1, <1>2, <1>3, <1>5, <2>2
  <1> QED
    BY <1>4, <1>5

-----------------------------------------------------------------------------
(***************************************************************************)
(* What an end does to the packets: it may send one, and the push loop may *)
(* take one it was waiting for.                                            *)
(***************************************************************************)
Sends(e) == \E kind \in Kinds :
    /\ Send(e, kind)
    /\ kind \in Opening => kind # "syn" /\ sent[e] = 0 /\ e[2] = "server"

Takes(e) == \E p \in Ready(e) : early' = early \ {p} /\ next' = [next EXCEPT ![e] = @ + 1]

FlowStep(e) ==
    /\ InUse(e)
    /\ Sends(e) \/ UNCHANGED <<sent, netVars>>
    /\ Takes(e) \/ UNCHANGED <<early, next>>
    /\ UNCHANGED <<alive, cuts, crashed, nextConn, where>>

FlowTypes ==
    /\ sent \in [Ends -> Nat] /\ next \in [Ends -> Nat]
    /\ wire \subseteq Packets /\ held \subseteq Packets /\ early \subseteq Packets

\* What the push loop takes is gone from the queue and counted as handed up.
LEMMA TakeFacts ==
    ASSUME NetTypes, PacketsFit, OnePlace, NEW e \in Ends, Takes(e) \/ UNCHANGED <<early, next>>
    PROVE  /\ next' \in [Ends -> Nat] /\ early' \subseteq early
           /\ \A f \in Ends : next[f] <= next'[f] /\ next'[f] <= sent[Other(f)]
           /\ next'[Other(e)] = next[Other(e)]
           /\ \A q \in wire \cup held \cup early' : next'[q.to] <= q.seq
           /\ \A q \in Pool : next'[q.to] <= q.seq => q \in wire \cup held \cup early'
  <1>0. /\ next \in [Ends -> Nat] /\ sent \in [Ends -> Nat]
        /\ \A q \in Pool : q.to \in Ends /\ q.seq \in Nat
        /\ \A f \in Ends : Other(f) \in Ends /\ Other(f) # f
    BY PacketTypes, EndFacts DEF NetTypes, Pool
  <1>1. CASE UNCHANGED <<early, next>>
    BY <1>0, <1>1 DEF PacketsFit, PacketFits, Pool
  <1>2. CASE Takes(e)
    <2> PICK p \in Ready(e) : early' = early \ {p} /\ next' = [next EXCEPT ![e] = @ + 1]
      BY <1>2 DEF Takes
    <2>1. p \in early /\ p \in Pool /\ p.to = e /\ p.seq = next[e] /\ p \notin wire \cup held
      BY DEF Ready, Pool, OnePlace
    <2>2. next'[e] = next[e] + 1 /\ \A f \in Ends \ {e} : next'[f] = next[f]
      BY <1>0
    <2>3. next[e] < sent[Other(e)]
      BY <1>0, <2>1 DEF PacketsFit, PacketFits
    <2>4. \A f \in Ends : next[f] <= next'[f] /\ next'[f] <= sent[Other(f)]
      BY <1>0, <2>2, <2>3 DEF PacketsFit
    <2>5. ASSUME NEW q \in wire \cup held \cup early' PROVE next'[q.to] <= q.seq
      <3>1. q \in Pool /\ q # p
        BY <2>1 DEF Pool
      <3>2. next[q.to] <= q.seq
        BY <3>1 DEF PacketsFit, PacketFits
      <3>3. CASE q.to = e
        <4>1. q.seq # p.seq
          BY <2>1, <3>1, <3>3 DEF OnePlace
        <4> QED
          BY <1>0, <2>1, <2>2, <3>1, <3>2, <3>3, <4>1
      <3>4. CASE q.to # e
        BY <1>0, <2>2, <3>1, <3>2, <3>4
      <3> QED
        BY <3>3, <3>4
    <2>6. ASSUME NEW q \in Pool, next'[q.to] <= q.seq PROVE q \in wire \cup held \cup early'
      <3>1. q # p
        BY <1>0, <2>1, <2>2, <2>6
      <3> QED
        BY <3>1 DEF Pool
    <2>7. next' \in [Ends -> Nat] /\ early' \subseteq early /\ next'[Other(e)] = next[Other(e)]
      BY <1>0, <2>2
    <2> QED
      BY <2>4, <2>5, <2>6, <2>7
  <1> QED
    BY <1>1, <1>2

\* Sending and taking keep the packets of every connection in their places.
LEMMA FlowKept ==
    ASSUME NetTypes, FlowInv, NEW e \in Ends, FlowStep(e)
    PROVE  FlowTypes' /\ FlowInv'
  <1>0. /\ next \in [Ends -> Nat] /\ sent \in [Ends -> Nat] /\ Pool \subseteq Packets
        /\ wire \subseteq Packets /\ held \subseteq Packets /\ early \subseteq Packets
        /\ \A q \in Packets : q.to \in Ends /\ q.seq \in Nat
        /\ \A f \in Ends : /\ Other(f) \in Ends /\ Other(f) # f /\ Other(Other(f)) = f
                           /\ (InUse(Other(f)) <=> InUse(f))
    BY PacketTypes, EndFacts DEF NetTypes, Pool
  <1>t. /\ next' \in [Ends -> Nat] /\ early' \subseteq early
        /\ \A f \in Ends : next[f] <= next'[f] /\ next'[f] <= sent[Other(f)]
        /\ next'[Other(e)] = next[Other(e)]
        /\ \A q \in wire \cup held \cup early' : next'[q.to] <= q.seq
        /\ \A q \in Pool : next'[q.to] <= q.seq => q \in wire \cup held \cup early'
    BY TakeFacts DEF FlowStep, FlowInv
  <1>u. /\ \A f : InUse(f)' <=> InUse(f)
        /\ \A f : IsCut(f)' <=> IsCut(f)
        /\ UNCHANGED <<alive, crashed, where>>
    BY DEF FlowStep, InUse, IsCut
  <1>d. DownIsKnown'
    BY <1>u DEF FlowInv, DownIsKnown
  <1>1. CASE UNCHANGED <<sent, netVars>>
    <2>0. sent' = sent /\ wire' = wire /\ held' = held
      BY <1>1 DEF netVars
    <2>1. Pool' = wire \cup held \cup early' /\ Pool' \subseteq Pool
      BY <1>t, <2>0 DEF Pool
    <2>2. PacketsFit'
      <3>1. ASSUME NEW p \in Pool' PROVE PacketFits(p)'
        BY <1>t, <1>u, <2>0, <2>1 DEF FlowInv, PacketsFit, PacketFits
      <3> QED
        BY <1>t, <2>0, <3>1 DEF PacketsFit
    <2>3. OnePlace'
      BY <1>t, <2>0, <2>1 DEF FlowInv, OnePlace
    <2>4. HeldAtCut'
      BY <1>u, <2>0 DEF FlowInv, HeldAtCut
    <2>5. NoGap'
      <3> SUFFICES ASSUME NEW f \in Ends, InUse(f), f[1] \notin crashed,
                          NEW n \in next'[f] .. sent[Other(f)] - 1
                   PROVE  \E q \in Pool' : q.to = f /\ q.seq = n
        BY <1>u, <2>0 DEF NoGap, In
      <3>1. n \in next[f] .. sent[Other(f)] - 1
        BY <1>0, <1>t
      <3>2. PICK q \in Pool : q.to = f /\ q.seq = n
        BY <3>1 DEF FlowInv, NoGap, In
      <3> QED
        BY <1>0, <1>t, <2>1, <3>2
    <2> QED
      BY <1>0, <1>t, <1>d, <2>0, <2>2, <2>3, <2>4, <2>5 DEF FlowInv, FlowTypes
  <1>2. CASE Sends(e)
    <2> PICK kind \in Kinds : /\ Send(e, kind)
                              /\ kind \in Opening => kind # "syn" /\ sent[e] = 0 /\ e[2] = "server"
      BY <1>2 DEF Sends
    <2>m. PICK m :
          /\ m \in Packets /\ m.kind = kind /\ m.to = Other(e) /\ m.seq = sent[e]
          /\ sent' \in [Ends -> Nat] /\ sent'[e] = sent[e] + 1
          /\ \A f \in Ends \ {e} : sent'[f] = sent[f]
          /\ \/ IsCut(Other(e)) /\ held' = held \cup {m} /\ wire' = wire
             \/ ~IsCut(Other(e)) /\ wire' = wire \cup {m} /\ held' = held
      BY SendFacts
    <2>1. Pool' = wire \cup held \cup early' \cup {m}
      BY <2>m DEF Pool
    <2>2. \A q \in wire \cup held \cup early' : q \in Pool
      BY <1>t DEF Pool
    <2>3. \A f \in Ends : sent[f] <= sent'[f] /\ next'[f] <= sent'[Other(f)]
      <3>1. \A f \in Ends : sent[f] <= sent'[f]
        BY <1>0, <2>m
      <3> QED
        BY <1>0, <1>t, <2>m, <3>1
    <2>4. \A q \in Pool : q.to = Other(e) => q.seq < sent[e]
      <3>1. \A q \in Pool : q.seq < sent[Other(q.to)]
        BY DEF FlowInv, PacketsFit, PacketFits
      <3> QED
        BY <1>0, <3>1
    <2>5. m \notin Pool /\ \A q \in Pool : q.to = m.to => q.seq # m.seq
      BY <1>0, <2>m, <2>4
    <2>6. PacketsFit'
      <3>1. ASSUME NEW p \in wire \cup held \cup early' PROVE PacketFits(p)'
        <4>1. PacketFits(p) /\ p.to \in Ends /\ p.seq \in Nat
          BY <1>0, <2>2 DEF FlowInv, PacketsFit
        <4>2. next'[p.to] <= p.seq
          BY <1>t
        <4>3. p.seq < sent'[Other(p.to)]
          BY <1>0, <2>3, <2>m, <4>1 DEF PacketFits
        <4> QED
          BY <1>u, <4>1, <4>2, <4>3 DEF PacketFits
      <3>2. PacketFits(m)'
        <4>0. InUse(m.to) /\ Other(m.to) = e
          BY <1>0, <2>m DEF FlowStep
        <4>1. InUse(m.to)' /\ next'[m.to] <= m.seq /\ m.seq < sent'[Other(m.to)]
          BY <1>0, <1>t, <1>u, <2>m, <4>0
        <4>2. /\ m.kind \in Opening => m.seq = 0
              /\ m.kind = "syn" => m.to[2] = "server"
              /\ m.kind \in {"accept", "refuse"} => m.to[2] = "client"
          BY <2>m, EndFacts DEF Opening
        <4> QED
          BY <4>1, <4>2 DEF PacketFits
      <3> QED
        BY <2>1, <2>3, <3>1, <3>2 DEF PacketsFit
    <2>7. OnePlace'
      <3>1. \A p, q \in Pool' : p.to = q.to /\ p.seq = q.seq => p = q
        BY <2>1, <2>2, <2>5 DEF FlowInv, OnePlace
      <3>2. /\ wire' \cap held' = {} /\ wire' \cap early' = {} /\ held' \cap early' = {}
        BY <1>t, <2>5, <2>m DEF FlowInv, OnePlace, Pool
      <3> QED
        BY <3>1, <3>2 DEF OnePlace
    <2>8. HeldAtCut'
      BY <1>u, <2>m DEF FlowInv, HeldAtCut
    <2>9. NoGap'
      <3> SUFFICES ASSUME NEW f \in Ends, InUse(f), f[1] \notin crashed,
                          NEW n \in next'[f] .. sent'[Other(f)] - 1
                   PROVE  \E q \in Pool' : q.to = f /\ q.seq = n
        BY <1>u DEF NoGap, In
      <3>0. n \in Int /\ next'[f] <= n /\ next[f] <= n
        BY <1>0, <1>t
      <3>1. CASE n < sent[Other(f)]
        <4>1. n \in next[f] .. sent[Other(f)] - 1
          BY <1>0, <3>0, <3>1
        <4>2. PICK q \in Pool : q.to = f /\ q.seq = n
          BY <4>1 DEF FlowInv, NoGap, In
        <4> QED
          BY <1>0, <1>t, <2>1, <3>0, <4>2
      <3>2. CASE ~(n < sent[Other(f)])
        <4>1. Other(f) = e
          BY <1>0, <2>m, <3>2
        <4>2. n = sent[e] /\ m.to = f /\ m.seq = n
          BY <1>0, <2>m, <3>2, <4>1
        <4> QED
          BY <2>1, <4>2
      <3> QED
        BY <3>1, <3>2
    <2>10. FlowTypes'
      BY <1>0, <1>t, <2>m DEF FlowTypes
    <2> QED
      BY <1>d, <2>6, <2>7, <2>8, <2>9, <2>10 DEF FlowInv
  <1> QED
    BY <1>1, <1>2 DEF FlowStep

-----------------------------------------------------------------------------
(***************************************************************************)
(* What the network and its faults do to the packets.                      *)
(***************************************************************************)
Disjoint == wire \cap held = {} /\ wire \cap early = {} /\ held \cap early = {}

\* Moving packets between the stores, and losing those of connections that
\* have met a host down, keeps every packet in its place.
LEMMA MoveKept ==
    ASSUME NetTypes, FlowInv, Pool' \subseteq Pool, Disjoint', HeldAtCut', DownIsKnown',
           crashed \subseteq crashed', UNCHANGED <<next, sent, nextConn, where>>,
           \A q \in Pool : q \in Pool' \/ q.to[1] \in crashed'
    PROVE  FlowInv'
  <1>u. \A f : InUse(f)' <=> InUse(f)
    BY DEF InUse
  <1>1. PacketsFit'
    <2>1. ASSUME NEW p \in Pool' PROVE PacketFits(p)'
      BY <1>u DEF FlowInv, PacketsFit, PacketFits
    <2> QED
      BY <2>1 DEF FlowInv, PacketsFit
  <1>2. OnePlace'
    BY DEF FlowInv, OnePlace, Disjoint
  <1>3. NoGap'
    <2> SUFFICES ASSUME NEW f \in Ends, InUse(f), f[1] \notin crashed',
                        NEW n \in next[f] .. sent[Other(f)] - 1
                 PROVE  \E q \in Pool' : q.to = f /\ q.seq = n
      BY <1>u DEF NoGap, In
    <2>1. PICK q \in Pool : q.to = f /\ q.seq = n
      BY DEF FlowInv, NoGap, In
    <2> QED
      BY <2>1
  <1> QED
    BY <1>1, <1>2, <1>3 DEF FlowInv

\* The end of a packet's flight: lost, held or pushed (_deliver).
LEMMA DeliverKept ==
    ASSUME NetTypes, FlowInv, NEW p \in wire, Deliver(p)
    PROVE  FlowTypes' /\ FlowInv'
  <1>0. /\ p \in Pool /\ p \in Packets /\ p.to \in Ends /\ InUse(p.to)
        /\ Other(p.to) \in Ends /\ Other(p.to)[1] = p.to[1] /\ InUse(Other(p.to))
        /\ p \notin held /\ p \notin early
    <2>1. p \in Pool /\ p \in Packets /\ p \notin held /\ p \notin early
      BY DEF Pool, NetTypes, FlowInv, OnePlace
    <2>2. p.to \in Ends /\ InUse(p.to)
      BY <2>1, PacketTypes DEF FlowInv, PacketsFit, PacketFits
    <2> QED
      BY <2>1, <2>2, EndFacts
  <1>1. /\ wire' = wire \ {p}
        /\ UNCHANGED <<alive, cuts, crashed, next, sent, nextConn, where>>
    BY DEF Deliver, hostVars, connVars, endVars, histVars
  <1>2. /\ \A f : InUse(f)' <=> InUse(f)
        /\ \A f : IsCut(f)' <=> IsCut(f)
    BY <1>1 DEF InUse, IsCut
  <1>3. DownIsKnown'
    BY <1>1, <1>2 DEF FlowInv, DownIsKnown
  <1>4. CASE held' = held /\ early' = early /\ ~({where[p.to], where[Other(p.to)]} \subseteq alive)
    <2>1. p.to[1] \in crashed
      BY <1>0, <1>4 DEF FlowInv, DownIsKnown
    <2>2. Pool' = (wire \ {p}) \cup held \cup early
      BY <1>1, <1>4 DEF Pool
    <2>3. Pool' \subseteq Pool /\ \A q \in Pool : q \in Pool' \/ q = p
      BY <2>2 DEF Pool
    <2>4. Disjoint'
      BY <1>1, <1>4 DEF Disjoint, FlowInv, OnePlace
    <2>5. HeldAtCut'
      BY <1>2, <1>4 DEF FlowInv, HeldAtCut
    <2>6. FlowInv'
      BY <1>1, <1>3, <2>1, <2>3, <2>4, <2>5, MoveKept
    <2> QED
      BY <1>1, <1>4, <2>6 DEF FlowTypes, NetTypes
  <1>5. CASE held' = held \cup {p} /\ early' = early /\ IsCut(p.to)
    <2>1. Pool' = (wire \ {p}) \cup (held \cup {p}) \cup early
      BY <1>1, <1>5 DEF Pool
    <2>2. Pool' = Pool
      BY <2>1 DEF Pool
    <2>3. Disjoint'
      BY <1>0, <1>1, <1>5 DEF Disjoint, FlowInv, OnePlace
    <2>4. HeldAtCut'
      BY <1>2, <1>5 DEF FlowInv, HeldAtCut
    <2>5. FlowInv'
      BY <1>1, <1>3, <2>2, <2>3, <2>4, MoveKept
    <2> QED
      BY <1>0, <1>1, <1>5, <2>5 DEF FlowTypes, NetTypes
  <1>6. CASE early' = early \cup {p} /\ held' = held
    <2>1. Pool' = (wire \ {p}) \cup held \cup (early \cup {p})
      BY <1>1, <1>6 DEF Pool
    <2>2. Pool' = Pool
      BY <2>1 DEF Pool
    <2>3. Disjoint'
      BY <1>0, <1>1, <1>6 DEF Disjoint, FlowInv, OnePlace
    <2>4. HeldAtCut'
      BY <1>2, <1>6 DEF FlowInv, HeldAtCut
    <2>5. FlowInv'
      BY <1>1, <1>3, <2>2, <2>3, <2>4, MoveKept
    <2> QED
      BY <1>0, <1>1, <1>6, <2>5 DEF FlowTypes, NetTypes
  <1> QED
    BY <1>4, <1>5, <1>6 DEF Deliver

\* Every cut goes, and what they held is on the wire again (heal).
LEMMA HealKept == ASSUME NetTypes, FlowInv, Heal PROVE FlowTypes' /\ FlowInv'
  <1>1. /\ held' = {} /\ wire' = wire \cup held /\ early' = early
        /\ UNCHANGED <<alive, crashed, next, sent, nextConn, where>>
    BY DEF Heal, connVars, endVars, queueVars, histVars
  <1>2. Pool' = wire \cup held \cup {} \cup early
    BY <1>1 DEF Pool
  <1>3. Pool' = Pool
    BY <1>2 DEF Pool
  <1>4. Disjoint'
    BY <1>1 DEF Disjoint, FlowInv, OnePlace
  <1>5. HeldAtCut' /\ DownIsKnown'
    BY <1>1 DEF FlowInv, HeldAtCut, DownIsKnown, InUse
  <1>6. FlowInv'
    BY <1>1, <1>3, <1>4, <1>5, MoveKept
  <1> QED
    BY <1>1, <1>6 DEF FlowTypes, NetTypes

\* No callback begins, and none starts over as a factory.
LoopGoesOn == calling' # "no" =>
    /\ draining' = draining /\ calling # "no"
    /\ calling' = "factory" => calling = "factory"

\* Steps that touch no packet: a host comes back, a link is cut.
Quiet ==
    /\ alive \subseteq alive' /\ alive' \subseteq Hosts /\ cuts \subseteq cuts'
    /\ UNCHANGED <<life, connVars, connect, endVars, netVars, early, next, got, crashed,
                   leftBehind>>
    /\ LoopGoesOn

LEMMA QuietKept == ASSUME NetTypes, FlowInv, Quiet PROVE FlowTypes' /\ FlowInv'
  <1>1. /\ held' = held /\ wire' = wire /\ early' = early
        /\ UNCHANGED <<crashed, next, sent, nextConn, where>>
    BY DEF Quiet, netVars, connVars, endVars
  <1>2. Pool' = Pool
    BY <1>1 DEF Pool
  <1>3. Disjoint' /\ HeldAtCut'
    BY <1>1 DEF Disjoint, FlowInv, OnePlace, HeldAtCut, IsCut, Quiet
  <1>4. DownIsKnown'
    BY <1>1 DEF FlowInv, DownIsKnown, InUse, Quiet
  <1>5. FlowInv'
    BY <1>1, <1>2, <1>3, <1>4, MoveKept
  <1> QED
    BY <1>1, <1>5 DEF FlowTypes, NetTypes

\* A connect puts the first packet of a new connection on its way, or behind
\* the cut between the two hosts (_open_connection).
LEMMA ConnectKept ==
    ASSUME NetTypes, Untouched, FlowInv, NEW h \in Hosts, NEW g \in Hosts, Connect(h, g)
    PROVE  /\ FlowTypes' /\ FlowInv'
           /\ nextConn \in Conns /\ nextConn' = nextConn + 1 /\ nextConn' \in 0 .. MaxConns
           /\ where' \in [Ends -> Hosts]
           /\ \A e \in Ends : InUse(e)' <=> InUse(e) \/ e[1] = nextConn
           /\ \A e \in Ends : e[1] # nextConn =>
                 where'[e] = where[e] /\ sent'[e] = sent[e]
           /\ sent'[Server(nextConn)] = 0
  <1> PICK c : c = nextConn
    OBVIOUS
  <1> USE NetAssumption
  <1>0. /\ next \in [Ends -> Nat] /\ sent \in [Ends -> Nat] /\ Pool \subseteq Packets
        /\ wire \subseteq Packets /\ held \subseteq Packets /\ early \subseteq Packets
        /\ where \in [Ends -> Hosts]
        /\ \A q \in Packets : q.to \in Ends /\ q.seq \in Nat
    BY PacketTypes DEF NetTypes, Pool
  <1>1. c \in Conns /\ nextConn' = c + 1 /\ nextConn' \in 0 .. MaxConns
    BY DEF Connect, NetTypes, Conns
  <1>e. /\ Client(c) \in Ends /\ Server(c) \in Ends /\ Client(c) # Server(c)
        /\ Client(c)[1] = c /\ Server(c)[1] = c
        /\ Other(Client(c)) = Server(c) /\ Other(Server(c)) = Client(c)
        /\ Server(c)[2] = "server"
        /\ \A e \in Ends : Other(e) \in Ends /\ Other(e)[1] = e[1] /\ e[1] \in Conns
        /\ \A e \in Ends : e[1] = c => e = Client(c) \/ e = Server(c)
    BY <1>1, EndFacts
  <1>2. /\ where' = [where EXCEPT ![Client(c)] = h, ![Server(c)] = g]
        /\ sent' = [sent EXCEPT ![Client(c)] = 1]
        /\ UNCHANGED <<alive, cuts, next, early>>
        /\ crashed' = IF {h, g} \subseteq alive THEN crashed ELSE crashed \cup {c}
    BY DEF Connect, hostVars, queueVars
  <1>3. /\ where' \in [Ends -> Hosts] /\ where'[Client(c)] = h /\ where'[Server(c)] = g
        /\ \A e \in Ends : e[1] # c => where'[e] = where[e] /\ sent'[e] = sent[e]
        /\ sent' \in [Ends -> Nat] /\ sent'[Client(c)] = 1 /\ sent'[Server(c)] = sent[Server(c)]
    BY <1>0, <1>2, <1>e
  <1>4. /\ ~InUse(Client(c)) /\ ~InUse(Server(c))
        /\ \A e \in Ends : InUse(e)' <=> InUse(e) \/ e[1] = c
        /\ \A e \in Ends : InUse(e) => e[1] # c
    <2>1. \A e \in Ends : e[1] \in Int /\ c \in Int
      BY <1>1, <1>e DEF Conns
    <2> QED
      BY <1>1, <1>e, <2>1 DEF InUse
  <1>5. /\ sent[Client(c)] = 0 /\ sent[Server(c)] = 0
        /\ next[Client(c)] = 0 /\ next[Server(c)] = 0
    BY <1>4, <1>e DEF Untouched
  <1>6. \A e \in Ends : e[1] # c => (IsCut(e)' <=> IsCut(e))
    BY <1>2, <1>3, <1>e DEF IsCut
  <1>7. IsCut(Server(c))' <=> {h, g} \in cuts
    <2>1. IsCut(Server(c))' <=> {g, h} \in cuts
      <3>1. {where'[Server(c)], where'[Other(Server(c))]} = {g, h}
        BY <1>3, <1>e
      <3>2. cuts' = cuts
        BY <1>2
      <3> QED
        BY <3>1, <3>2, Zenon DEF IsCut
    <2>2. {g, h} = {h, g}
      OBVIOUS
    <2> QED
      BY <2>1, <2>2
  <1>8. PICK m : /\ m \in Packets /\ m.kind = "syn" /\ m.to = Server(c) /\ m.seq = 0
                 /\ \/ {h, g} \in cuts /\ held' = held \cup {m} /\ wire' = wire
                    \/ {h, g} \notin cuts /\ wire' = wire \cup {m} /\ held' = held
    <2>1. /\ Packet("syn", Server(c), 0) \in Packets
          /\ Packet("syn", Server(c), 0).kind = "syn"
          /\ Packet("syn", Server(c), 0).to = Server(c)
          /\ Packet("syn", Server(c), 0).seq = 0
      BY <1>e, PacketFacts DEF Kinds, Opening
    <2>2. LET syn == {Packet("syn", Server(c), 0)}
          IN \/ {h, g} \in cuts /\ held' = held \cup syn /\ wire' = wire
             \/ {h, g} \notin cuts /\ wire' = wire \cup syn /\ held' = held
      BY DEF Connect
    <2> QED
      BY <2>1, <2>2
  <1>9. \A q \in Pool : q.to \in Ends /\ InUse(q.to) /\ q.to[1] # c /\ Other(q.to)[1] # c
    BY <1>0, <1>4, <1>e DEF FlowInv, PacketsFit, PacketFits
  <1>10. Pool' = Pool \cup {m} /\ m \notin Pool /\ \A q \in Pool : q.to # m.to
    BY <1>2, <1>8, <1>9, <1>e DEF Pool
  <1>11. PacketsFit'
    <2>1. ASSUME NEW p \in Pool PROVE PacketFits(p)'
      <3>1. PacketFits(p) /\ p.to \in Ends
        BY <1>9 DEF FlowInv, PacketsFit
      <3>2. sent'[Other(p.to)] = sent[Other(p.to)] /\ next' = next /\ InUse(p.to)'
        BY <1>2, <1>3, <1>4, <1>9, <1>e
      <3> QED
        BY <3>1, <3>2 DEF PacketFits
    <2>2. PacketFits(m)'
      <3>1. InUse(m.to)'
        BY <1>4, <1>8, <1>e
      <3>2. next'[m.to] <= m.seq /\ m.seq < sent'[Other(m.to)]
        BY <1>2, <1>3, <1>5, <1>8, <1>e
      <3>3. /\ m.kind \in Opening => m.seq = 0
            /\ m.kind = "syn" => m.to[2] = "server"
            /\ m.kind \in {"accept", "refuse"} => m.to[2] = "client"
        BY <1>8, <1>e
      <3> QED
        BY <3>1, <3>2, <3>3 DEF PacketFits
    <2>3. ASSUME NEW e \in Ends PROVE next'[e] <= sent'[Other(e)]
      <3>1. CASE e[1] # c
        BY <1>2, <1>3, <1>e, <3>1 DEF FlowInv, PacketsFit
      <3>2. CASE e[1] = c
        BY <1>2, <1>3, <1>5, <1>e, <3>2
      <3> QED
        BY <3>1, <3>2
    <2> QED
      BY <1>10, <2>1, <2>2, <2>3 DEF PacketsFit
  <1>12. OnePlace'
    <2>1. \A p, q \in Pool' : p.to = q.to /\ p.seq = q.seq => p = q
      BY <1>10 DEF FlowInv, OnePlace
    <2>2. wire' \cap held' = {} /\ wire' \cap early' = {} /\ held' \cap early' = {}
      BY <1>2, <1>8, <1>10 DEF FlowInv, OnePlace, Pool
    <2> QED
      BY <2>1, <2>2 DEF OnePlace
  <1>13. HeldAtCut'
    <2> SUFFICES ASSUME NEW p \in held' PROVE IsCut(p.to)'
      BY DEF HeldAtCut
    <2>1. CASE p \in held
      <3>1. IsCut(p.to) /\ p.to \in Ends /\ p.to[1] # c
        BY <1>9, <2>1 DEF FlowInv, HeldAtCut, Pool
      <3> QED
        BY <1>6, <3>1
    <2>2. CASE p \notin held
      <3>1. p = m /\ {h, g} \in cuts
        BY <1>8, <2>2
      <3>2. {where'[p.to], where'[Other(p.to)]} = {h, g}
        BY <1>3, <1>8, <1>e, <3>1
      <3>3. cuts' = cuts
        BY <1>2
      <3> QED
        BY <3>1, <3>2, <3>3, Zenon DEF IsCut
    <2> QED
      BY <2>1, <2>2
  <1>14. DownIsKnown'
    <2> SUFFICES ASSUME NEW e \in Ends, InUse(e)', where'[e] \notin alive
                 PROVE  e[1] \in crashed'
      BY <1>2 DEF DownIsKnown
    <2>1. CASE e[1] # c
      BY <1>2, <1>3, <1>4, <2>1 DEF FlowInv, DownIsKnown
    <2>2. CASE e[1] = c
      <3>1. where'[e] \in {h, g}
        BY <1>3, <1>e, <2>2
      <3> QED
        BY <1>2, <2>2, <3>1
    <2> QED
      BY <2>1, <2>2
  <1>15. NoGap'
    <2> SUFFICES ASSUME NEW f \in Ends, InUse(f)', f[1] \notin crashed',
                        NEW n \in next[f] .. sent'[Other(f)] - 1
                 PROVE  \E q \in Pool' : q.to = f /\ q.seq = n
      BY <1>2 DEF NoGap, In
    <2>1. CASE f[1] # c
      <3>1. InUse(f) /\ f[1] \notin crashed /\ n \in next[f] .. sent[Other(f)] - 1
        BY <1>2, <1>3, <1>4, <1>e, <2>1
      <3>2. PICK q \in Pool : q.to = f /\ q.seq = n
        BY <3>1 DEF FlowInv, NoGap, In
      <3> QED
        BY <1>10, <3>2
    <2>2. CASE f = Server(c)
      <3>1. n = 0
        BY <1>3, <1>5, <1>e, <2>2
      <3> QED
        BY <1>8, <1>10, <2>2, <3>1
    <2>3. CASE f = Client(c)
      BY <1>3, <1>5, <1>e, <2>3
    <2> QED
      BY <1>e, <2>1, <2>2, <2>3
  <1>16. FlowTypes'
    BY <1>0, <1>2, <1>3, <1>8 DEF FlowTypes
  <1> QED
    BY <1>1, <1>3, <1>4, <1>5, <1>11, <1>12, <1>13, <1>14, <1>15, <1>16 DEF FlowInv

\* A crash finishes all the transports of its host and drops what is held for
\* it, or is cut short and does neither.
Fells(h, S, F) ==
    /\ F \subseteq Ours(h) /\ TakeDown(h, S, F)
    /\ \/ F = Ours(h) /\ held' = held \ Touching(h, held) /\ leftBehind' = leftBehind
       \/ /\ held' = held \cup Blackholed(FinsOf(S))
          /\ leftBehind' = leftBehind \cup (Ours(h) \ F)

LEMMA CrashFells ==
    ASSUME NEW h \in Hosts,
           \/ \E S \in Reactions(h, Ours(h)) : Crash(h, S)
           \/ \E F \in SUBSET Ours(h) : \E S \in Reactions(h, F) : CrashCutShort(h, S, F)
    PROVE  \E F, S : Fells(h, S, F)
  <1>1. ASSUME NEW S, Crash(h, S) PROVE Fells(h, S, Ours(h))
    BY <1>1 DEF Crash, Fells
  <1>2. ASSUME NEW F, NEW S, CrashCutShort(h, S, F) PROVE Fells(h, S, F)
    BY <1>2 DEF CrashCutShort, Fells
  <1> QED
    BY <1>1, <1>2

\* What the last closes of a crashing host send goes out, or is held or dropped
\* at once; every connection the crash touches has met it (crash).
LEMMA CrashKept ==
    ASSUME NetTypes, FlowInv, NEW h \in Hosts, NEW F, NEW S, Fells(h, S, F)
    PROVE  /\ FlowTypes' /\ FlowInv'
           /\ \A e \in Ends : e \notin S => sent'[e] = sent[e]
           /\ S \subseteq On(h) /\ \A e \in S : stream[e] = "open"
  <1> DEFINE fins == S \ eofSent
  <1>s. S \subseteq On(h) /\ \A e \in S : stream[e] = "open"
    BY DEF Fells, TakeDown, Reactions, Ours
  <1>0. /\ next \in [Ends -> Nat] /\ sent \in [Ends -> Nat] /\ Pool \subseteq Packets
        /\ wire \subseteq Packets /\ held \subseteq Packets /\ early \subseteq Packets
        /\ \A q \in Packets : q.to \in Ends /\ q.seq \in Nat
        /\ \A f \in Ends : /\ Other(f) \in Ends /\ Other(f) # f /\ Other(Other(f)) = f
                           /\ (InUse(Other(f)) <=> InUse(f)) /\ Other(f)[1] = f[1]
        /\ fins \subseteq S /\ S \subseteq Ends
    BY <1>s, PacketTypes, EndFacts DEF NetTypes, Pool, On
  <1>w. PICK out, back, kept :
          /\ wire' = wire \cup out /\ held' = kept \cup back
          /\ out \subseteq FinsOf(S) /\ back \subseteq FinsOf(S) /\ out \cap back = {}
          /\ kept \subseteq held /\ held \ kept \subseteq Touching(h, held)
          /\ \A p \in back : IsCut(p.to)
    <2>1. wire' = wire \cup (FinsOf(S) \ Blackholed(FinsOf(S)))
      BY DEF Fells, TakeDown
    <2>2. Blackholed(FinsOf(S)) \subseteq FinsOf(S) /\ \A p \in Blackholed(FinsOf(S)) : IsCut(p.to)
      BY DEF Blackholed
    <2> DEFINE last == FinsOf(S) \ Blackholed(FinsOf(S))
    <2>3. last \subseteq FinsOf(S) /\ last \cap Blackholed(FinsOf(S)) = {} /\ last \cap {} = {}
      OBVIOUS
    <2>4. CASE held' = held \ Touching(h, held)
      <3>1. held' = (held \ Touching(h, held)) \cup {}
        BY <2>4
      <3>2. /\ held \ Touching(h, held) \subseteq held
            /\ held \ (held \ Touching(h, held)) \subseteq Touching(h, held)
        OBVIOUS
      <3> HIDE DEF last
      <3> WITNESS last, {}, held \ Touching(h, held)
      <3> QED
        BY <2>1, <2>3, <3>1, <3>2 DEF last
    <2>5. CASE held' = held \cup Blackholed(FinsOf(S))
      <3> HIDE DEF last
      <3> WITNESS last, Blackholed(FinsOf(S)), held
      <3> QED
        BY <2>1, <2>2, <2>3, <2>5 DEF last
    <2> QED
      BY <2>4, <2>5 DEF Fells
  <1> DEFINE new == out \cup back
  <1>1. /\ alive' = alive \ {h} /\ crashed' = crashed \cup {e[1] : e \in On(h)}
        /\ sent' = [e \in Ends |-> IF e \in fins THEN sent[e] + 1 ELSE sent[e]]
        /\ UNCHANGED <<cuts, next, early, nextConn, where>>
    BY DEF Fells, TakeDown, connVars, queueVars
  <1>2. ASSUME NEW m \in new
        PROVE  \E e \in fins : /\ m \in Packets /\ m.kind = "fin"
                               /\ m.to = Other(e) /\ m.seq = sent[e]
    <2> PICK e \in fins : m = Packet("fin", Other(e), sent[e])
      BY <1>w DEF FinsOf
    <2>1. Other(e) \in Ends /\ sent[e] \in Nat /\ "fin" \in Kinds
      BY <1>0 DEF Kinds
    <2> QED
      BY <2>1, PacketFacts
  <1>u. /\ \A f : InUse(f)' <=> InUse(f)
        /\ \A f : IsCut(f)' <=> IsCut(f)
    BY <1>1 DEF InUse, IsCut
  <1>f. \A e \in S : InUse(e) /\ where[e] = h /\ e[1] \in crashed'
    BY <1>1, <1>s DEF On
  <1>3. /\ sent' \in [Ends -> Nat]
        /\ \A e \in Ends : sent[e] <= sent'[e]
        /\ \A e \in fins : sent'[e] = sent[e] + 1
        /\ \A e \in Ends : e \notin fins => sent'[e] = sent[e]
    BY <1>0, <1>1
  <1>4. new \subseteq Packets /\ \A m \in new : PacketFits(m)'
    <2> SUFFICES ASSUME NEW m \in new PROVE m \in Packets /\ PacketFits(m)'
      OBVIOUS
    <2> PICK e \in fins : /\ m \in Packets /\ m.kind = "fin"
                          /\ m.to = Other(e) /\ m.seq = sent[e]
      BY <1>2
    <2>1. InUse(m.to)' /\ next'[m.to] <= m.seq /\ m.seq < sent'[Other(m.to)]
      BY <1>0, <1>1, <1>3, <1>f, <1>u DEF FlowInv, PacketsFit
    <2> QED
      BY <2>1 DEF PacketFits, Opening
  <1>5. \A q \in Pool, m \in new : q.to = m.to => q.seq # m.seq
    <2> SUFFICES ASSUME NEW q \in Pool, NEW m \in new, q.to = m.to, q.seq = m.seq PROVE FALSE
      OBVIOUS
    <2> PICK e \in fins : m.to = Other(e) /\ m.seq = sent[e]
      BY <1>2
    <2>1. q.seq < sent[Other(q.to)]
      BY DEF FlowInv, PacketsFit, PacketFits
    <2> QED
      BY <1>0, <2>1
  <1>6. \A m, n \in new : m.to = n.to /\ m.seq = n.seq => m = n
    <2> SUFFICES ASSUME NEW m \in new, NEW n \in new, m.to = n.to PROVE m = n
      OBVIOUS
    <2>1. PICK e \in fins : m = Packet("fin", Other(e), sent[e]) /\ Other(e) \in Ends /\ sent[e] \in Nat
      BY <1>0, <1>w DEF FinsOf
    <2>2. PICK f \in fins : n = Packet("fin", Other(f), sent[f]) /\ Other(f) \in Ends /\ sent[f] \in Nat
      BY <1>0, <1>w DEF FinsOf
    <2>3. Other(e) = Other(f)
      BY <2>1, <2>2, PacketFacts DEF Kinds
    <2>4. e = f
      BY <1>0, <2>3
    <2> QED
      BY <2>1, <2>2, <2>4
  <1> HIDE DEF new, fins
  <1>7. Pool' \subseteq Pool \cup new /\ new \subseteq Pool'
    <2>1. Pool' = (wire \cup out) \cup (kept \cup back) \cup early
      BY <1>1, <1>w DEF Pool
    <2> QED
      BY <1>w, <2>1 DEF Pool, new
  <1>8. \A q \in Pool : q \in Pool' \/ q.to[1] \in crashed'
    <2> SUFFICES ASSUME NEW q \in Pool, q \notin Pool' PROVE q.to[1] \in crashed'
      OBVIOUS
    <2>1. q \in Touching(h, held) /\ q.to \in Ends
      BY <1>0, <1>1, <1>w DEF Pool
    <2>2. InUse(q.to) /\ h \in {where[q.to], where[Other(q.to)]}
      BY <2>1 DEF Touching
    <2>3. q.to \in On(h) \/ Other(q.to) \in On(h)
      BY <1>0, <2>1, <2>2 DEF On
    <2> QED
      BY <1>0, <1>1, <2>1, <2>3
  <1>9. PacketsFit'
    <2>1. ASSUME NEW p \in Pool PROVE PacketFits(p)'
      <3>1. PacketFits(p) /\ Other(p.to) \in Ends /\ p.to \in Ends /\ p.seq \in Nat
        BY <1>0 DEF FlowInv, PacketsFit
      <3>2. p.seq < sent'[Other(p.to)]
        BY <1>0, <1>3, <3>1 DEF PacketFits
      <3> QED
        BY <1>1, <1>u, <3>1, <3>2 DEF PacketFits
    <2>2. \A p \in Pool' : PacketFits(p)'
      BY <1>4, <1>7, <2>1
    <2>3. \A e \in Ends : next'[e] <= sent'[Other(e)]
      BY <1>0, <1>1, <1>3 DEF FlowInv, PacketsFit
    <2> QED
      BY <2>2, <2>3 DEF PacketsFit
  <1>10. OnePlace'
    <2>1. \A p, q \in Pool' : p.to = q.to /\ p.seq = q.seq => p = q
      BY <1>5, <1>6, <1>7 DEF FlowInv, OnePlace
    <2>2. new \cap Pool = {}
      BY <1>5
    <2>3. wire' \cap held' = {} /\ wire' \cap early' = {} /\ held' \cap early' = {}
      BY <1>1, <1>w, <2>2 DEF FlowInv, OnePlace, Pool, new
    <2> QED
      BY <2>1, <2>3 DEF OnePlace
  <1>11. HeldAtCut'
    BY <1>u, <1>w DEF FlowInv, HeldAtCut
  <1>12. DownIsKnown'
    <2> SUFFICES ASSUME NEW e \in Ends, InUse(e), where[e] \notin alive'
                 PROVE  e[1] \in crashed'
      BY <1>1, <1>u DEF DownIsKnown
    <2>1. CASE where[e] = h
      BY <1>1, <2>1 DEF On
    <2>2. CASE where[e] # h
      BY <1>1, <2>2 DEF FlowInv, DownIsKnown
    <2> QED
      BY <2>1, <2>2
  <1>13. NoGap'
    <2> SUFFICES ASSUME NEW f \in Ends, InUse(f), f[1] \notin crashed',
                        NEW n \in next[f] .. sent'[Other(f)] - 1
                 PROVE  \E q \in Pool' : q.to = f /\ q.seq = n
      BY <1>1, <1>u DEF NoGap, In
    <2>1. Other(f) \notin fins
      BY <1>0, <1>f
    <2>2. n \in next[f] .. sent[Other(f)] - 1 /\ f[1] \notin crashed
      BY <1>0, <1>1, <1>3, <2>1
    <2>3. PICK q \in Pool : q.to = f /\ q.seq = n
      BY <2>2 DEF FlowInv, NoGap, In
    <2> QED
      BY <1>8, <2>3
  <1>14. FlowTypes'
    BY <1>0, <1>1, <1>3, <1>4, <1>w DEF FlowTypes, new
  <1>15. \A e \in Ends : e \notin S => sent'[e] = sent[e]
    BY <1>0, <1>3
  <1> QED
    BY <1>9, <1>10, <1>11, <1>12, <1>13, <1>14, <1>15, <1>s DEF FlowInv

-----------------------------------------------------------------------------
(***************************************************************************)
(* The rest of the state: hosts and their lives, connects and transports.  *)
(***************************************************************************)
RestTypes ==
    /\ alive \subseteq Hosts /\ life \in [Hosts -> Nat]
    /\ nextConn \in 0 .. MaxConns
    /\ where \in [Ends -> Hosts] /\ born \in [Ends -> Nat]
    /\ connect \in [Conns -> Fates]
    /\ stream \in [Ends -> {"none", "open", "closing", "closed"}]
    /\ got \in [Ends -> Seq(Nat)]

RestInv == RestTypes /\ Untouched /\ LifeInv /\ OrderInv

LEMMA NetInvParts == NetInv <=> FlowTypes /\ FlowInv /\ RestInv
  BY DEF NetInv, NetTypes, FlowTypes, RestTypes, RestInv

\* Steps that only move packets, or touch none at all.
LEMMA RestSame ==
    ASSUME RestInv, alive' \subseteq Hosts, LoopGoesOn,
           UNCHANGED <<life, nextConn, where, born, connect, stream, bare, sent, next, got,
                       finishing, leftBehind>>
    PROVE  RestInv'
  <1>1. RestTypes'
    BY DEF RestInv, RestTypes
  <1>2. Untouched'
    BY DEF RestInv, Untouched, InUse
  <1>3. LifeInv'
    BY DEF RestInv, LifeInv, WaitsInItsLife, NoResurrection, Registered
  <1>4. OrderInv'
    <2>1. CallsInLoop'
      BY DEF RestInv, OrderInv, CallsInLoop, LoopGoesOn
    <2> QED
      BY <2>1 DEF RestInv, OrderInv, BuiltByFirst, Built, AnsweredIsBuilt, InOrder, Registered
  <1> QED
    BY <1>1, <1>2, <1>3, <1>4 DEF RestInv

\* What user code on an end does to its transport: it sends nothing before it
\* is built, and a transport only ever closes.
Fades(f) ==
    \/ stream'[f] = stream[f]
    \/ stream[f] # "none" /\ stream'[f] = "closed"
    \/ Registered(f) /\ stream'[f] = "closing"

EndActs(e) ==
    /\ Sends(e) \/ UNCHANGED <<sent, netVars>>
    /\ sent' # sent => stream[e] # "none"
    /\ stream' \in [Ends -> {"none", "open", "closing", "closed"}]
    /\ \A f \in Ends : Fades(f)
    /\ finishing' \subseteq finishing \cup {f \in Ends : stream'[f] # "none"}
    /\ bare' \subseteq bare
    /\ \A f \in bare \ bare' : ~Registered(f)' \/ next[f] = 1

ConnectEnds ==
    /\ connect' \in [Conns -> Fates]
    /\ \A c \in Conns :
          \/ connect'[c] = connect[c]
          \/ connect[c] # "none" /\ connect'[c] \in {"connected", "gaveup", "botched"}
          \/ connect[c] = "answering" /\ connect'[c] = "answered"

Talks(e) ==
    /\ InUse(e) /\ EndActs(e) /\ ConnectEnds /\ LoopGoesOn
    /\ UNCHANGED <<alive, life, cuts, connVars, early, next, got, crashed, leftBehind>>

LEMMA SendFinActs ==
    ASSUME NEW e \in Ends, SendFin(e)
    PROVE  Sends(e) \/ UNCHANGED <<sent, netVars>>
  <1>1. Send(e, "fin") \/ UNCHANGED <<sent, netVars>>
    BY DEF SendFin
  <1> QED
    BY <1>1 DEF Sends, Kinds, Opening

LEMMA ClosingActs ==
    ASSUME NetInv, NEW e \in Ends, stream[e] = "open", StartClosing(e)
    PROVE  EndActs(e)
  <1>1. Sends(e) \/ UNCHANGED <<sent, netVars>>
    BY SendFinActs DEF StartClosing
  <1>2. /\ stream \in [Ends -> {"none", "open", "closing", "closed"}]
        /\ stream' = [stream EXCEPT ![e] = "closing"]
        /\ finishing' = finishing \cup {e} /\ bare' = bare
    BY DEF StartClosing, NetInv, NetTypes
  <1>3. stream'[e] = "closing" /\ \A f \in Ends \ {e} : stream'[f] = stream[f]
    BY <1>2
  <1>4. \A f \in Ends : Fades(f)
    BY <1>3 DEF Fades, Registered
  <1> QED
    BY <1>1, <1>2, <1>3, <1>4 DEF EndActs

LEMMA ForceCloseActs ==
    ASSUME NetInv, NEW e \in Ends, stream[e] # "none", ForceClose(e)
    PROVE  EndActs(e)
  <1>0. stream \in [Ends -> {"none", "open", "closing", "closed"}]
    BY DEF NetInv, NetTypes
  <1>1. CASE stream[e] = "closed"
    <2>1. UNCHANGED <<endVars, netVars>>
      BY <1>1 DEF ForceClose
    <2> QED
      BY <1>0, <2>1 DEF EndActs, Fades, endVars
  <1>2. CASE stream[e] # "closed"
    <2>1. /\ Send(e, "rst") /\ stream' = [stream EXCEPT ![e] = "closing"]
          /\ finishing' = finishing \cup {e} /\ bare' = bare
      BY <1>2 DEF ForceClose
    <2>2. Sends(e)
      BY <2>1 DEF Sends, Kinds, Opening
    <2>3. stream'[e] = "closing" /\ \A f \in Ends \ {e} : stream'[f] = stream[f]
      BY <1>0, <2>1
    <2>4. Registered(e)
      BY <1>0, <1>2 DEF Registered
    <2>5. \A f \in Ends : Fades(f)
      BY <2>3, <2>4 DEF Fades
    <2> QED
      BY <1>0, <2>1, <2>2, <2>3, <2>5 DEF EndActs
  <1> QED
    BY <1>1, <1>2

LEMMA TalkKept == ASSUME NetInv, NEW e \in Ends, Talks(e) PROVE NetInv'
  <1>0. NetTypes /\ FlowInv /\ RestInv
    BY NetInvParts DEF NetInv
  <1>u. /\ nextConn' = nextConn /\ where' = where /\ born' = born /\ next' = next
        /\ got' = got /\ life' = life /\ alive' = alive
        /\ \A f : InUse(f)' <=> InUse(f)
    BY DEF Talks, connVars, InUse
  <1>1. FlowTypes' /\ FlowInv'
    <2>1. FlowStep(e)
      BY DEF Talks, EndActs, FlowStep, connVars
    <2> QED
      BY <1>0, <2>1, FlowKept
  <1>2. /\ \A f \in Ends : Fades(f) /\ (stream'[f] = "none" <=> stream[f] = "none")
        /\ \A f \in Ends : Registered(f)' => Registered(f)
    BY DEF Talks, EndActs, Fades, Registered
  <1>3. \A f \in Ends : sent'[f] = sent[f] \/ (f = e /\ stream[e] # "none")
    <2>1. CASE UNCHANGED <<sent, netVars>>
      BY <2>1
    <2>2. CASE Sends(e) /\ sent' # sent
      <3>1. PICK kind \in Kinds : Send(e, kind)
        BY <2>2 DEF Sends
      <3>2. \A f \in Ends \ {e} : sent'[f] = sent[f]
        BY <1>0, <3>1, SendFacts
      <3> QED
        BY <2>2, <3>2 DEF Talks, EndActs
    <2> QED
      BY <2>1, <2>2 DEF Talks, EndActs
  <1>4. RestTypes'
    BY <1>0, <1>u DEF RestInv, RestTypes, Talks, EndActs, ConnectEnds
  <1>5. Untouched'
    <2> SUFFICES ASSUME NEW f \in Ends, ~InUse(f)
                 PROVE  /\ stream'[f] = "none" /\ sent'[f] = 0 /\ next'[f] = 0
                        /\ connect'[f[1]] = "none"
      BY <1>u DEF Untouched
    <2>1. stream[f] = "none" /\ sent[f] = 0 /\ next[f] = 0 /\ connect[f[1]] = "none"
      BY <1>0 DEF RestInv, Untouched
    <2>2. f # e /\ f[1] \in Conns
      BY EndFacts DEF Talks
    <2> QED
      BY <1>2, <1>3, <1>u, <2>1, <2>2 DEF Talks, ConnectEnds
  <1>6. LifeInv'
    <2>1. WaitsInItsLife'
      BY <1>0, <1>u DEF RestInv, LifeInv, WaitsInItsLife, Talks, ConnectEnds
    <2>2. NoResurrection'
      BY <1>0, <1>2, <1>u DEF RestInv, LifeInv, NoResurrection, Talks
    <2> QED
      BY <2>1, <2>2 DEF LifeInv
  <1>7. OrderInv'
    <2>1. BuiltByFirst'
      <3> SUFFICES ASSUME NEW f \in Ends
                   PROVE  /\ stream'[f] = "none" => got[f] = <<>> /\ f \notin finishing'
                          /\ stream'[f] # "none" => next[f] >= 1
                          /\ f[2] = "server" /\ next[f] = 0 => sent'[f] = 0
                          /\ Registered(f)' /\ f \notin bare' => Len(got[f]) = next[f] - 1
                          /\ f \in bare' => got[f] = <<>>
        BY <1>u DEF BuiltByFirst, Built
      <3>1. /\ stream[f] = "none" => got[f] = <<>> /\ f \notin finishing
            /\ stream[f] # "none" => next[f] >= 1
            /\ f[2] = "server" /\ next[f] = 0 => sent[f] = 0
            /\ Registered(f) /\ f \notin bare => Len(got[f]) = next[f] - 1
            /\ f \in bare => got[f] = <<>>
        BY <1>0 DEF RestInv, OrderInv, BuiltByFirst, Built
      <3>2. stream'[f] = "none" => f \notin finishing'
        BY <1>2, <3>1 DEF Talks, EndActs
      <3>3. f[2] = "server" /\ next[f] = 0 => sent'[f] = 0
        BY <1>3, <3>1
      <3>4. Registered(f)' /\ f \notin bare' => Len(got[f]) = next[f] - 1
        <4>1. CASE f \in bare
          <5>1. Registered(f)' /\ f \notin bare' => next[f] = 1
            BY <4>1 DEF Talks, EndActs
          <5> QED
            BY <3>1, <4>1, <5>1
        <4>2. CASE f \notin bare
          BY <1>2, <3>1, <4>2
        <4> QED
          BY <4>1, <4>2
      <3>5. f \in bare' => f \in bare
        BY DEF Talks, EndActs
      <3> QED
        BY <1>2, <3>1, <3>2, <3>3, <3>4, <3>5
    <2>2. AnsweredIsBuilt'
      <3> SUFFICES ASSUME NEW c \in Conns, connect'[c] \in {"answering", "answered", "doomed"}
                   PROVE  stream'[Client(c)] # "none"
        BY DEF AnsweredIsBuilt
      <3>1. connect[c] \in {"answering", "answered", "doomed"} /\ Client(c) \in Ends
        BY EndFacts DEF Talks, ConnectEnds
      <3> QED
        BY <1>0, <1>2, <3>1 DEF RestInv, OrderInv, AnsweredIsBuilt
    <2>3. InOrder'
      BY <1>0, <1>u DEF RestInv, OrderInv, InOrder
    <2>4. CallsInLoop'
      BY <1>0, <1>u DEF RestInv, OrderInv, CallsInLoop, Talks, LoopGoesOn
    <2> QED
      BY <2>1, <2>2, <2>3, <2>4 DEF OrderInv
  <1>8. NetTypes'
    BY <1>1, <1>4 DEF NetTypes, FlowTypes, RestTypes
  <1> QED
    BY <1>1, <1>5, <1>6, <1>7, <1>8 DEF NetInv

-----------------------------------------------------------------------------
(***************************************************************************)
(* One turn of the push loop: what the handlers do to the end they are     *)
(* handing a packet to.                                                    *)
(***************************************************************************)
Handled(e) ==
    /\ Sends(e) \/ UNCHANGED <<sent, netVars>>
    /\ born' \in [Ends -> Nat] /\ got' \in [Ends -> Seq(Nat)]
    /\ connect' \in [Conns -> Fates]
    /\ stream' \in [Ends -> {"none", "open", "closing", "closed"}]
    /\ \A f \in Ends \ {e} :
          stream'[f] = stream[f] /\ got'[f] = got[f] /\ born'[f] = born[f]
    /\ finishing' \subseteq finishing \cup {e}
    /\ bare' \ {e} = bare \ {e}
    /\ \A c \in Conns :
          \/ connect'[c] = connect[c]
          \/ c = e[1] /\ connect'[c] = "refused"
          \/ e = Client(c) /\ connect'[c] = "answering" /\ stream'[e] = "open"
    /\ e[2] = "client" => born'[e] = born[e]
    /\ Registered(e)' => born'[e] = life[where[e]] \/ e \in leftBehind
    /\ Registered(e)' /\ e \notin bare' => Len(got'[e]) = next[e]
    /\ e \in bare' => got'[e] = <<>>
    /\ calling' # "no" => draining' = e /\ (calling' = "factory" => next[e] = 0)
    /\ stream'[e] = "none" => got'[e] = <<>> /\ e \notin finishing' /\ stream[e] = "none"
    /\ \A i \in 1 .. Len(got'[e]) : got'[e][i] = i

LEMMA HandlersDo ==
    ASSUME NetInv, NEW e \in Ends, NEW p \in Ready(e), DispatchReady(e, p)
    PROVE  Handled(e)
  <1>0. /\ life \in [Hosts -> Nat] /\ where \in [Ends -> Hosts] /\ next \in [Ends -> Nat]
        /\ born \in [Ends -> Nat] /\ sent \in [Ends -> Nat]
        /\ connect \in [Conns -> Fates]
        /\ stream \in [Ends -> {"none", "open", "closing", "closed"}]
        /\ got \in [Ends -> Seq(Nat)] /\ life[where[e]] \in Nat
    BY DEF NetInv, NetTypes
  <1>e. /\ e[1] \in Conns /\ e[2] \in {"client", "server"}
        /\ (e[2] = "client" => e = Client(e[1]))
    BY EndFacts
  <1>1. Built(e)
    BY DEF NetInv, OrderInv, BuiltByFirst
  <1>2. \A i \in 1 .. Len(got[e]) : got[e][i] = i
    BY DEF NetInv, OrderInv, InOrder
  <1>3. Registered(e) => born[e] = life[where[e]] \/ e \in leftBehind
    BY DEF NetInv, LifeInv, NoResurrection
  <1>4. p.to = e /\ p.seq = next[e] /\ PacketFits(p)
    BY DEF Ready, NetInv, FlowInv, PacketsFit, Pool
  <1>5. p.kind \in Opening => next[e] = 0 /\ stream[e] = "none" /\ got[e] = <<>> /\ e \notin finishing
    BY <1>0, <1>1, <1>4 DEF PacketFits, Built
  <1>6. /\ p.kind = "syn" => e[2] = "server" /\ sent[e] = 0
        /\ p.kind \in {"accept", "refuse"} => e[2] = "client"
    BY <1>0, <1>1, <1>4, <1>5 DEF PacketFits, Built, Opening
  <1>7. ASSUME got' = [got EXCEPT ![e] = Append(@, next[e])], Registered(e), e \notin bare
        PROVE  /\ got' \in [Ends -> Seq(Nat)] /\ Len(got'[e]) = next[e]
               /\ \A i \in 1 .. Len(got'[e]) : got'[e][i] = i
               /\ \A f \in Ends \ {e} : got'[f] = got[f]
    <2>1. got'[e] = Append(got[e], next[e]) /\ got[e] \in Seq(Nat) /\ next[e] \in Nat
      BY <1>0, <1>7
    <2>2. Len(got[e]) = next[e] - 1
      BY <1>1, <1>7 DEF Built
    <2>3. /\ Len(got'[e]) = Len(got[e]) + 1 /\ Len(got[e]) \in Nat
          /\ got'[e][Len(got[e]) + 1] = next[e]
          /\ \A i \in 1 .. Len(got[e]) : got'[e][i] = got[e][i]
          /\ got'[e] \in Seq(Nat)
      BY <2>1
    <2>4. \A i \in 1 .. Len(got'[e]) : got'[e][i] = i
      BY <1>2, <2>1, <2>2, <2>3
    <2> QED
      BY <1>0, <1>7, <2>1, <2>2, <2>3, <2>4
  <1>r. ASSUME Register(e), p.kind \in Opening
        PROVE  /\ stream' \in [Ends -> {"none", "open", "closing", "closed"}] /\ stream'[e] = "open"
               /\ \A f \in Ends \ {e} : stream'[f] = stream[f]
               /\ bare' \ {e} = bare \ {e} /\ e \in bare'
               /\ draining' = e /\ calling' = "factory" /\ next[e] = 0
    BY <1>0, <1>5, <1>r DEF Register, StaysIn
  <1>8. CASE p.kind = "syn" /\ HandleSyn(e)
    <2>1. UNCHANGED <<connect, finishing, got>>
      BY <1>8 DEF HandleSyn
    <2>2. Sends(e)
      BY <1>6, <1>8 DEF HandleSyn, Sends, Kinds, Opening
    <2>3. CASE where[e] \in listening
      <3>1. Register(e) /\ born' = [born EXCEPT ![e] = life[where[e]]]
        BY <1>8, <2>3 DEF HandleSyn
      <3>2. /\ born' \in [Ends -> Nat] /\ born'[e] = life[where[e]]
            /\ \A f \in Ends \ {e} : born'[f] = born[f]
        BY <1>0, <3>1
      <3>3. p.kind \in Opening
        BY <1>8 DEF Opening
      <3> QED
        BY <1>0, <1>2, <1>5, <1>6, <1>8, <1>r, <2>1, <2>2, <3>1, <3>2, <3>3 DEF Handled
    <2>4. CASE where[e] \notin listening
      <3>1. stream' = stream /\ born' = born /\ bare' = bare /\ calling' = "no"
        BY <1>8, <2>4 DEF HandleSyn, StaysIn
      <3> QED
        BY <1>0, <1>2, <1>5, <1>6, <1>8, <2>1, <2>2, <3>1 DEF Handled, Opening, Registered
    <2> QED
      BY <2>3, <2>4
  <1>9. CASE p.kind \in {"accept", "refuse"} /\ HandleAnswer(e, p.kind)
    <2>1. /\ UNCHANGED <<born, sent, finishing, netVars, got>> /\ p.kind \in Opening
          /\ next[e] = 0 /\ stream[e] = "none" /\ got[e] = <<>> /\ e \notin finishing
      BY <1>5, <1>9 DEF HandleAnswer, Opening
    <2>2. e = Client(e[1])
      BY <1>6, <1>9, <1>e
    <2>3. CASE connect[e[1]] = "pending" /\ p.kind = "accept"
      <3>1. Register(e) /\ connect' = [connect EXCEPT ![e[1]] = "answering"]
        BY <1>9, <2>3 DEF HandleAnswer
      <3>2. /\ connect' \in [Conns -> Fates]
            /\ connect'[e[1]] = "answering" /\ \A c \in Conns \ {e[1]} : connect'[c] = connect[c]
        BY <1>0, <1>e, <3>1 DEF Fates
      <3>3. born[e] = life[where[e]]
        BY <1>e, <2>2, <2>3 DEF NetInv, LifeInv, WaitsInItsLife
      <3> QED
        BY <1>0, <1>2, <1>r, <2>1, <2>2, <3>1, <3>2, <3>3 DEF Handled
    <2>4. CASE ~(connect[e[1]] = "pending" /\ p.kind = "accept")
      <3>1. /\ stream' = stream /\ bare' = bare /\ calling' = "no"
            /\ connect' = IF connect[e[1]] = "pending"
                          THEN [connect EXCEPT ![e[1]] = "refused"] ELSE connect
        BY <1>9, <2>4 DEF HandleAnswer, StaysIn
      <3>2. connect' \in [Conns -> Fates]
        BY <1>0, <3>1 DEF Fates
      <3>3. \A c \in Conns :
              \/ connect'[c] = connect[c]
              \/ c = e[1] /\ connect'[c] = "refused"
        BY <1>0, <1>e, <3>1
      <3> QED
        BY <1>0, <1>2, <2>1, <3>1, <3>2, <3>3 DEF Handled, Registered
    <2> QED
      BY <2>3, <2>4
  <1>h. ASSUME NEW callback, callback # "factory", HandUp(e, p.seq, callback),
               UNCHANGED <<born, connect, endVars, netVars>>
        PROVE  Handled(e)
    <2>1. UNCHANGED <<born, connect, stream, bare, sent, finishing, netVars>>
      BY <1>h DEF endVars
    <2>2. CASE Registered(e) /\ e \notin bare
      <3>1. got' = [got EXCEPT ![e] = Append(@, next[e])] /\ draining' = e /\ calling' = callback
        BY <1>4, <1>h, <2>2 DEF HandUp, StaysIn
      <3> QED
        BY <1>0, <1>3, <1>7, <1>h, <2>1, <2>2, <3>1 DEF Handled, Registered
    <2>3. CASE ~(Registered(e) /\ e \notin bare)
      <3>1. got' = got /\ calling' = "no"
        BY <1>h, <2>3 DEF HandUp, LeavesLoop, StaysIn
      <3> QED
        BY <1>0, <1>1, <1>2, <1>3, <2>1, <2>3, <3>1 DEF Handled, Registered, Built
    <2> QED
      BY <2>2, <2>3
  <1>10. CASE p.kind = "data" /\ HandleData(e, p.seq)
    BY <1>10, <1>h DEF HandleData
  <1>11. CASE p.kind = "fin" /\ HandleFin(e, p.seq)
    BY <1>11, <1>h DEF HandleFin
  <1>12. CASE p.kind = "rst" /\ HandleRst(e)
    <2>1. /\ UNCHANGED <<born, connect, sent, netVars, got>> /\ finishing' = finishing \ {e}
          /\ bare' = bare \ {e} /\ draining' = e /\ calling' # "factory"
      BY <1>12 DEF HandleRst, StaysIn
    <2>2. CASE Registered(e)
      <3>1. stream' = [stream EXCEPT ![e] = "closed"]
        BY <1>12, <2>2 DEF HandleRst
      <3>2. /\ stream' \in [Ends -> {"none", "open", "closing", "closed"}] /\ stream'[e] = "closed"
            /\ \A f \in Ends \ {e} : stream'[f] = stream[f]
        BY <1>0, <3>1
      <3> QED
        BY <1>0, <1>2, <2>1, <3>2 DEF Handled, Registered
    <2>3. CASE ~Registered(e)
      <3>1. stream' = stream
        BY <1>12, <2>3 DEF HandleRst
      <3> QED
        BY <1>0, <1>1, <1>2, <2>1, <2>3, <3>1 DEF Handled, Registered, Built
    <2> QED
      BY <2>2, <2>3
  <1> QED
    BY <1>8, <1>9, <1>10, <1>11, <1>12 DEF DispatchReady

\* One turn of the push loop keeps the invariant, whatever it hands up.
LEMMA DispatchKept ==
    ASSUME NetInv, NEW e \in Ends, NEW p \in early, Dispatch(e, p)
    PROVE  NetInv'
  <1>0. NetTypes /\ FlowInv /\ RestInv
    BY DEF NetInv, NetTypes, RestInv, RestTypes
  <1>1. /\ p \in Ready(e) /\ DispatchReady(e, p)
        /\ early' = early \ {p} /\ next' = [next EXCEPT ![e] = @ + 1]
        /\ UNCHANGED <<hostVars, nextConn, where, crashed, leftBehind>>
    BY DEF Dispatch
  <1>2. Handled(e)
    BY <1>1, HandlersDo
  <1>3. InUse(e) /\ e[1] \in Conns
    <2>1. p.to = e /\ PacketFits(p)
      BY <1>1 DEF Ready, NetInv, FlowInv, PacketsFit, Pool
    <2> QED
      BY <2>1, EndFacts DEF PacketFits
  <1>u. /\ nextConn' = nextConn /\ where' = where /\ life' = life /\ alive' = alive
        /\ cuts' = cuts /\ \A f : InUse(f)' <=> InUse(f)
    BY <1>1 DEF hostVars, InUse
  <1>n. next'[e] = next[e] + 1 /\ next[e] \in Nat /\ \A f \in Ends \ {e} : next'[f] = next[f]
    BY <1>0, <1>1 DEF NetTypes
  <1>4. FlowTypes' /\ FlowInv'
    <2>1. Takes(e)
      BY <1>1 DEF Takes
    <2>2. FlowStep(e)
      BY <1>1, <1>2, <1>3, <1>u, <2>1 DEF FlowStep, Handled
    <2> QED
      BY <1>0, <2>2, FlowKept
  <1>5. \A f \in Ends \ {e} : sent'[f] = sent[f]
    <2>1. CASE UNCHANGED <<sent, netVars>>
      BY <2>1
    <2>2. CASE Sends(e)
      <3>1. PICK kind \in Kinds : Send(e, kind)
        BY <2>2 DEF Sends
      <3> QED
        BY <1>0, <3>1, SendFacts
    <2> QED
      BY <1>2, <2>1, <2>2 DEF Handled
  <1>6. NetTypes'
    BY <1>0, <1>2, <1>4, <1>u DEF NetTypes, FlowTypes, Handled
  <1>7. Untouched'
    <2> SUFFICES ASSUME NEW f \in Ends, ~InUse(f)
                 PROVE  /\ stream'[f] = "none" /\ sent'[f] = 0 /\ next'[f] = 0
                        /\ connect'[f[1]] = "none"
      BY <1>u DEF Untouched
    <2>1. stream[f] = "none" /\ sent[f] = 0 /\ next[f] = 0 /\ connect[f[1]] = "none"
      BY DEF NetInv, Untouched
    <2>2. f # e /\ f[1] # e[1] /\ f[1] \in Conns
      BY <1>3, EndFacts DEF InUse
    <2>3. connect'[f[1]] = connect[f[1]]
      <3>1. e # Client(f[1])
        BY <2>2, EndFacts
      <3> QED
        BY <1>2, <2>2, <3>1 DEF Handled
    <2> QED
      BY <1>2, <1>5, <1>n, <2>1, <2>2, <2>3 DEF Handled
  <1>8. LifeInv'
    <2>1. WaitsInItsLife'
      <3> SUFFICES ASSUME NEW c \in Conns, connect'[c] = "pending"
                   PROVE  born'[Client(c)] = life[where[Client(c)]]
        BY <1>u DEF WaitsInItsLife
      <3>1. connect[c] = "pending"
        BY <1>2 DEF Handled
      <3>2. Client(c) \in Ends /\ Client(c)[2] = "client"
        BY EndFacts
      <3>3. born'[Client(c)] = born[Client(c)]
        BY <1>2, <3>2 DEF Handled
      <3> QED
        BY <3>1, <3>3 DEF NetInv, LifeInv, WaitsInItsLife
    <2>2. NoResurrection'
      <3> SUFFICES ASSUME NEW f \in Ends, Registered(f)'
                   PROVE  born'[f] = life[where[f]] \/ f \in leftBehind
        BY <1>1, <1>u DEF NoResurrection
      <3>1. CASE f = e
        BY <1>2, <3>1 DEF Handled
      <3>2. CASE f # e
        BY <1>2, <3>2 DEF Handled, Registered, NetInv, LifeInv, NoResurrection
      <3> QED
        BY <3>1, <3>2
    <2> QED
      BY <2>1, <2>2 DEF LifeInv
  <1>9. OrderInv'
    <2>1. BuiltByFirst'
      <3> SUFFICES ASSUME NEW f \in Ends PROVE Built(f)'
        BY DEF BuiltByFirst
      <3>0. Built(f)
        BY DEF NetInv, OrderInv, BuiltByFirst
      <3>1. CASE f = e
        <4>1. stream'[e] = "none" => got'[e] = <<>> /\ e \notin finishing'
          BY <1>2 DEF Handled
        <4>2. next'[e] >= 1 /\ next'[e] # 0
          BY <1>n
        <4>3. /\ Registered(e)' /\ e \notin bare' => Len(got'[e]) = next'[e] - 1
              /\ e \in bare' => got'[e] = <<>>
          BY <1>2, <1>n DEF Handled
        <4> QED
          BY <3>1, <4>1, <4>2, <4>3 DEF Built
      <3>2. CASE f # e
        <4>1. /\ stream'[f] = stream[f] /\ got'[f] = got[f] /\ next'[f] = next[f]
              /\ sent'[f] = sent[f] /\ (f \in finishing' => f \in finishing)
              /\ (f \in bare' <=> f \in bare)
          BY <1>2, <1>5, <1>n, <3>2 DEF Handled
        <4> QED
          BY <3>0, <4>1 DEF Built, Registered
      <3> QED
        BY <3>1, <3>2
    <2>2. AnsweredIsBuilt'
      <3> SUFFICES ASSUME NEW c \in Conns, connect'[c] \in {"answering", "answered", "doomed"}
                   PROVE  stream'[Client(c)] # "none"
        BY DEF AnsweredIsBuilt
      <3>0. Client(c) \in Ends
        BY EndFacts
      <3>1. CASE connect[c] \in {"answering", "answered", "doomed"}
        <4>1. stream[Client(c)] # "none"
          BY <3>1 DEF NetInv, OrderInv, AnsweredIsBuilt
        <4> QED
          BY <1>2, <3>0, <4>1 DEF Handled
      <3>2. CASE connect[c] \notin {"answering", "answered", "doomed"}
        BY <1>2, <3>2 DEF Handled
      <3> QED
        BY <3>1, <3>2
    <2>3. InOrder'
      <3> SUFFICES ASSUME NEW f \in Ends, NEW i \in 1 .. Len(got'[f]) PROVE got'[f][i] = i
        BY DEF InOrder
      <3>1. CASE f = e
        BY <1>2, <3>1 DEF Handled
      <3>2. CASE f # e
        BY <1>2, <3>2 DEF Handled, NetInv, OrderInv, InOrder
      <3> QED
        BY <3>1, <3>2
    <2>4. CallsInLoop'
      BY <1>2, <1>n DEF CallsInLoop, Handled
    <2> QED
      BY <2>1, <2>2, <2>3, <2>4 DEF OrderInv
  <1> QED
    BY <1>4, <1>6, <1>7, <1>8, <1>9 DEF NetInv

-----------------------------------------------------------------------------
(***************************************************************************)
(* Connects, crashes, and every step.                                      *)
(***************************************************************************)

\* A new connection starts from nothing, in the present life of its host.
LEMMA ConnectNew ==
    ASSUME NetInv, NEW h \in Hosts, NEW g \in Hosts, Connect(h, g)
    PROVE  NetInv'
  <1> PICK c : c = nextConn
    OBVIOUS
  <1>0. /\ NetTypes /\ Untouched /\ FlowInv
        /\ life \in [Hosts -> Nat] /\ born \in [Ends -> Nat]
        /\ connect \in [Conns -> Fates]
    BY DEF NetInv, NetTypes
  <1>1. /\ FlowTypes' /\ FlowInv'
        /\ c \in Conns /\ nextConn' = c + 1 /\ nextConn' \in 0 .. MaxConns
        /\ where' \in [Ends -> Hosts]
        /\ \A e \in Ends : InUse(e)' <=> InUse(e) \/ e[1] = c
        /\ \A e \in Ends : e[1] # c => where'[e] = where[e] /\ sent'[e] = sent[e]
        /\ sent'[Server(c)] = 0
    BY <1>0, ConnectKept
  <1>e. /\ \A e \in Ends : e[1] = c => e = Client(c) \/ e = Server(c)
        /\ \A e \in Ends : e[1] \in Conns
        /\ \A d \in Conns : Client(d) \in Ends /\ Client(d)[1] = d
        /\ Client(c)[2] = "client"
    BY <1>1, EndFacts
  <1>2. /\ born' = [born EXCEPT ![Client(c)] = life[h]]
        /\ connect' = [connect EXCEPT ![c] = "pending"]
        /\ where' = [where EXCEPT ![Client(c)] = h, ![Server(c)] = g]
        /\ UNCHANGED <<alive, life, stream, bare, finishing, next, draining, calling, got,
                       leftBehind>>
    BY DEF Connect, hostVars, queueVars
  <1>3. /\ born' \in [Ends -> Nat] /\ born'[Client(c)] = life[h]
        /\ \A e \in Ends : e # Client(c) => born'[e] = born[e]
        /\ connect' \in [Conns -> Fates]
        /\ connect'[c] = "pending" /\ \A d \in Conns \ {c} : connect'[d] = connect[d]
    BY <1>0, <1>1, <1>2, <1>e DEF Fates
  <1>4. where'[Client(c)] = h
    <2>1. Client(c) # Server(c) /\ where \in [Ends -> Hosts]
      BY <1>0 DEF Client, Server, NetTypes
    <2> QED
      BY <1>1, <1>2, <1>e, <2>1
  <1>5. NetTypes'
    BY <1>0, <1>1, <1>2, <1>3 DEF NetTypes, FlowTypes
  <1>n. \A e \in Ends : e[1] = c => ~InUse(e)
    BY DEF InUse, NetTypes, NetInv
  <1>6. \A e \in Ends : e[1] = c => stream[e] = "none" /\ next[e] = 0
    BY <1>0, <1>n DEF Untouched
  <1>7. Untouched'
    <2> SUFFICES ASSUME NEW e \in Ends, ~InUse(e)'
                 PROVE  /\ stream'[e] = "none" /\ sent'[e] = 0 /\ next'[e] = 0
                        /\ connect'[e[1]] = "none"
      BY DEF Untouched
    <2>1. ~InUse(e) /\ e[1] # c /\ e[1] \in Conns
      BY <1>1, <1>e
    <2> QED
      BY <1>0, <1>1, <1>2, <1>3, <2>1 DEF Untouched
  <1>8. LifeInv'
    <2>1. WaitsInItsLife'
      <3> SUFFICES ASSUME NEW d \in Conns, connect'[d] = "pending"
                   PROVE  born'[Client(d)] = life[where'[Client(d)]]
        BY <1>2 DEF WaitsInItsLife
      <3>1. CASE d = c
        BY <1>3, <1>4, <3>1
      <3>2. CASE d # c
        <4>1. connect[d] = "pending" /\ Client(d) # Client(c)
          BY <1>1, <1>3, <1>e, <3>2
        <4>2. born[Client(d)] = life[where[Client(d)]]
          BY <4>1 DEF NetInv, LifeInv, WaitsInItsLife
        <4> QED
          BY <1>1, <1>3, <1>e, <3>2, <4>1, <4>2
      <3> QED
        BY <3>1, <3>2
    <2>2. NoResurrection'
      <3> SUFFICES ASSUME NEW e \in Ends, Registered(e)
                   PROVE  born'[e] = life[where'[e]] \/ e \in leftBehind
        BY <1>2 DEF NoResurrection, Registered
      <3>1. e[1] # c /\ e # Client(c)
        BY <1>1, <1>6, <1>e DEF Registered
      <3> QED
        BY <1>1, <1>3, <3>1 DEF NetInv, LifeInv, NoResurrection
    <2> QED
      BY <2>1, <2>2 DEF LifeInv
  <1>9. OrderInv'
    <2>1. BuiltByFirst'
      <3> SUFFICES ASSUME NEW e \in Ends PROVE Built(e)'
        BY DEF BuiltByFirst
      <3>0. Built(e)
        BY DEF NetInv, OrderInv, BuiltByFirst
      <3>1. e[2] = "server" /\ next[e] = 0 => sent'[e] = 0
        <4>1. CASE e[1] # c
          BY <1>1, <3>0, <4>1 DEF Built
        <4>2. CASE e[1] = c
          <5>1. e[2] = "server" => e = Server(c)
            BY <1>e, <4>2
          <5> QED
            BY <1>1, <5>1
        <4> QED
          BY <4>1, <4>2
      <3> QED
        BY <1>2, <3>0, <3>1 DEF Built, Registered
    <2>2. AnsweredIsBuilt'
      <3> SUFFICES ASSUME NEW d \in Conns, connect'[d] \in {"answering", "answered", "doomed"}
                   PROVE  stream[Client(d)] # "none"
        BY <1>2 DEF AnsweredIsBuilt
      <3>1. connect[d] \in {"answering", "answered", "doomed"}
        BY <1>3
      <3> QED
        BY <3>1 DEF NetInv, OrderInv, AnsweredIsBuilt
    <2>3. InOrder' /\ CallsInLoop'
      BY <1>2 DEF NetInv, OrderInv, InOrder, CallsInLoop
    <2> QED
      BY <2>1, <2>2, <2>3 DEF OrderInv
  <1> QED
    BY <1>1, <1>5, <1>7, <1>8, <1>9 DEF NetInv

\* A crash ends its host's life together with every connect of it, and with
\* every transport it gets to.
LEMMA CrashEnds ==
    ASSUME NetInv, NEW h \in Hosts, NEW F, NEW S, Fells(h, S, F)
    PROVE  NetInv'
  <1>0. /\ NetTypes /\ FlowInv
        /\ life \in [Hosts -> Nat] /\ where \in [Ends -> Hosts]
        /\ connect \in [Conns -> Fates]
        /\ stream \in [Ends -> {"none", "open", "closing", "closed"}]
    BY DEF NetInv, NetTypes
  <1>1. /\ FlowTypes' /\ FlowInv'
        /\ \A e \in Ends : e \notin S => sent'[e] = sent[e]
        /\ S \subseteq On(h) /\ \A e \in S : stream[e] = "open"
    BY <1>0, CrashKept
  <1>2. /\ alive' = alive \ {h} /\ life' = [life EXCEPT ![h] = @ + 1]
        /\ stream' = [e \in Ends |-> IF e \in F THEN "closed"
                                     ELSE IF e \in S THEN "closing" ELSE stream[e]]
        /\ finishing' = (finishing \cup S) \ F /\ bare' = bare \ F
        /\ UNCHANGED <<nextConn, where, born, next, draining, calling, got>>
        /\ F \subseteq Ours(h) /\ leftBehind \cup (Ours(h) \ F) = leftBehind'
    BY DEF Fells, TakeDown, connVars, queueVars
  <1>c. connect' = [c \in Conns |->
                      IF where[Client(c)] # h THEN connect[c]
                      ELSE IF connect[c] \in Waiting THEN "gaveup"
                      ELSE IF connect[c] = "answered" THEN "doomed" ELSE connect[c]]
    BY DEF Fells, TakeDown
  <1>3. /\ life' \in [Hosts -> Nat] /\ \A k \in Hosts \ {h} : life'[k] = life[k]
        /\ connect' \in [Conns -> Fates]
        /\ \A c \in Conns : \/ connect'[c] = connect[c] /\ ~(connect[c] = "pending" /\ where[Client(c)] = h)
                            \/ connect'[c] = "gaveup" /\ connect[c] # "none"
                            \/ connect'[c] = "doomed" /\ connect[c] = "answered"
        /\ stream' \in [Ends -> {"none", "open", "closing", "closed"}]
    BY <1>0, <1>2, <1>c DEF Waiting, Fates
  <1>4. /\ \A e \in Ends : stream'[e] = "none" <=> stream[e] = "none"
        /\ \A e \in Ends : Registered(e)' => Registered(e) /\ e \notin F
    BY <1>1, <1>2 DEF Registered, Ours
  <1>u. \A e : InUse(e)' <=> InUse(e)
    BY <1>2 DEF InUse
  <1>5. NetTypes'
    BY <1>0, <1>1, <1>2, <1>3 DEF NetTypes, FlowTypes
  <1>6. Untouched'
    <2> SUFFICES ASSUME NEW e \in Ends, ~InUse(e)
                 PROVE  /\ stream'[e] = "none" /\ sent'[e] = 0 /\ next'[e] = 0
                        /\ connect'[e[1]] = "none"
      BY <1>u DEF Untouched
    <2>1. e \notin S /\ e[1] \in Conns
      BY <1>1, EndFacts DEF On
    <2>2. stream[e] = "none" /\ sent[e] = 0 /\ next[e] = 0 /\ connect[e[1]] = "none"
      BY DEF NetInv, Untouched
    <2> QED
      BY <1>1, <1>2, <1>3, <1>4, <2>1, <2>2
  <1>7. LifeInv'
    <2>1. WaitsInItsLife'
      <3> SUFFICES ASSUME NEW c \in Conns, connect'[c] = "pending"
                   PROVE  born[Client(c)] = life'[where[Client(c)]]
        BY <1>2 DEF WaitsInItsLife
      <3>1. connect[c] = "pending" /\ where[Client(c)] # h /\ Client(c) \in Ends
        BY <1>3, EndFacts
      <3>2. born[Client(c)] = life[where[Client(c)]] /\ where[Client(c)] \in Hosts \ {h}
        BY <1>0, <3>1 DEF NetInv, LifeInv, WaitsInItsLife
      <3> QED
        BY <1>3, <3>2
    <2>2. NoResurrection'
      <3> SUFFICES ASSUME NEW e \in Ends, Registered(e)', e \notin leftBehind'
                   PROVE  born[e] = life'[where[e]]
        BY <1>2 DEF NoResurrection
      <3>1. Registered(e) /\ e \notin Ours(h) /\ e \notin leftBehind
        BY <1>2, <1>4
      <3>2. InUse(e)
        BY <3>1 DEF NetInv, Untouched, Registered
      <3>3. born[e] = life[where[e]] /\ where[e] \in Hosts \ {h}
        BY <1>0, <3>1, <3>2 DEF NetInv, LifeInv, NoResurrection, On, Ours
      <3> QED
        BY <1>3, <3>3
    <2> QED
      BY <2>1, <2>2 DEF LifeInv
  <1>8. OrderInv'
    <2>1. BuiltByFirst'
      <3> SUFFICES ASSUME NEW e \in Ends PROVE Built(e)'
        BY DEF BuiltByFirst
      <3>0. Built(e)
        BY DEF NetInv, OrderInv, BuiltByFirst
      <3>1. e[2] = "server" /\ next[e] = 0 => sent'[e] = 0
        BY <1>0, <1>1, <3>0 DEF Built, NetTypes
      <3>2. /\ stream'[e] = "none" => got'[e] = <<>> /\ e \notin finishing'
            /\ stream'[e] # "none" => next'[e] >= 1
            /\ Registered(e)' /\ e \notin bare' => Len(got'[e]) = next'[e] - 1
            /\ e \in bare' => got'[e] = <<>>
        BY <1>1, <1>2, <1>4, <3>0 DEF Built
      <3> QED
        BY <1>2, <3>1, <3>2 DEF Built
    <2>2. AnsweredIsBuilt'
      <3> SUFFICES ASSUME NEW c \in Conns, connect'[c] \in {"answering", "answered", "doomed"}
                   PROVE  stream'[Client(c)] # "none"
        BY DEF AnsweredIsBuilt
      <3>1. connect[c] \in {"answering", "answered", "doomed"} /\ Client(c) \in Ends
        BY <1>3, EndFacts
      <3> QED
        BY <1>4, <3>1 DEF NetInv, OrderInv, AnsweredIsBuilt
    <2>3. InOrder' /\ CallsInLoop'
      BY <1>2 DEF NetInv, OrderInv, InOrder, CallsInLoop
    <2> QED
      BY <2>1, <2>2, <2>3 DEF OrderInv
  <1> QED
    BY <1>1, <1>5, <1>6, <1>7, <1>8 DEF NetInv

\* Steps that move packets, or none, leave the rest of the state as it was.
LEMMA MovesKept ==
    ASSUME NetInv, Quiet \/ Heal \/ \E p \in wire : Deliver(p)
    PROVE  NetInv'
  <1>0. NetTypes /\ FlowInv /\ RestInv
    BY DEF NetInv, NetTypes, RestInv, RestTypes
  <1>1. FlowTypes' /\ FlowInv'
    BY <1>0, QuietKept, HealKept, DeliverKept
  <1>2. /\ alive' \subseteq Hosts
        /\ LoopGoesOn
        /\ UNCHANGED <<life, nextConn, where, born, connect, stream, bare, sent, next, got,
                       finishing, leftBehind>>
    <2>1. CASE Quiet
      BY <2>1 DEF Quiet, connVars, endVars
    <2>2. CASE Heal
      BY <1>0, <2>2 DEF Heal, connVars, endVars, queueVars, histVars, NetTypes, LoopGoesOn
    <2>3. CASE \E p \in wire : Deliver(p)
      <3>1. calling' = calling /\ draining = Nobody
        BY <2>3 DEF Deliver
      <3>2. Nobody \notin Ends
        BY EndFacts DEF Nobody
      <3>3. calling = "no"
        BY <3>1, <3>2 DEF NetInv, OrderInv, CallsInLoop
      <3> QED
        BY <1>0, <2>3, <3>1, <3>3
        DEF Deliver, hostVars, connVars, endVars, histVars, NetTypes, LoopGoesOn
    <2> QED
      BY <2>1, <2>2, <2>3
  <1>3. RestInv'
    BY <1>0, <1>2, RestSame
  <1> QED
    BY <1>1, <1>3 DEF NetInv, NetTypes, FlowTypes, RestInv, RestTypes

\* Every step of the network, of user code or of a fault keeps the invariant.
LEMMA NetStep == NetInv /\ [Next]_vars => NetInv'
  <1> SUFFICES ASSUME NetInv, [Next]_vars PROVE NetInv'
    OBVIOUS
  <1> USE NetAssumption
  <1>0. /\ alive \subseteq Hosts
        /\ connect \in [Conns -> Fates]
        /\ stream \in [Ends -> {"none", "open", "closing", "closed"}]
    BY DEF NetInv, NetTypes
  <1>n. /\ \A e \in Ends : stream[e] # "none" => InUse(e)
        /\ \A c \in Conns : connect[c] # "none" => InUse(Client(c))
    BY EndFacts DEF NetInv, Untouched
  <1>s. \A e \in Ends : Fades(e) \/ stream' # stream
    BY DEF Fades
  <1>1. CASE \E p \in wire : Deliver(p)
    BY <1>1, MovesKept
  <1>2. CASE \E e \in Ends, p \in early : Dispatch(e, p)
    BY <1>2, DispatchKept
  <1>3. CASE PushEnds
    <2>1. Quiet
      BY <1>0, <1>3 DEF PushEnds, Quiet, LoopGoesOn, hostVars, endVars, netVars
    <2> QED
      BY <2>1, MovesKept
  <1>4. CASE \E e \in Ends : Finish(e)
    <2> PICK e \in Ends : Finish(e)
      BY <1>4
    <2>1. stream[e] # "none"
      BY DEF Finish, NetInv, OrderInv, BuiltByFirst, Built
    <2>2. /\ stream' = [stream EXCEPT ![e] = "closed"] /\ finishing' \subseteq finishing
          /\ bare' = bare \ {e} /\ LoopGoesOn
          /\ UNCHANGED <<hostVars, connVars, connect, sent, netVars, early, next, got, crashed,
                         leftBehind>>
      BY DEF Finish, LoopGoesOn, queueVars, histVars
    <2>3. /\ stream' \in [Ends -> {"none", "open", "closing", "closed"}]
          /\ stream'[e] = "closed" /\ \A f \in Ends \ {e} : stream'[f] = stream[f]
      BY <1>0, <2>2
    <2>4. \A f \in Ends : Fades(f)
      BY <2>1, <2>3 DEF Fades
    <2>5. Talks(e)
      BY <1>0, <1>n, <2>1, <2>2, <2>3, <2>4
      DEF Talks, EndActs, ConnectEnds, Registered, hostVars
    <2> QED
      BY <2>5, TalkKept
  <1>5. CASE \E r \in Routes : Listen(r[2]) \/ CloseServer(r[2])
    <2>1. Quiet
      BY <1>0, <1>5 DEF Listen, CloseServer, Quiet, LoopGoesOn, hostVars, endVars, netVars, queueVars, histVars
    <2> QED
      BY <2>1, MovesKept
  <1>6. CASE \E r \in Routes : Connect(r[1], r[2])
    <2> PICK r \in Routes : Connect(r[1], r[2])
      BY <1>6
    <2>1. r[1] \in Hosts /\ r[2] \in Hosts
      OBVIOUS
    <2> QED
      BY <2>1, ConnectNew
  <1>7. CASE \E c \in Conns : Resume(c)
    <2> PICK c \in Conns : Resume(c)
      BY <1>7
    <2>1. /\ connect[c] = "answered" /\ connect' = [connect EXCEPT ![c] = "connected"]
          /\ UNCHANGED <<hostVars, connVars, endVars, netVars, early, next, got, crashed,
                         leftBehind>>
          /\ LoopGoesOn
      BY DEF Resume, LoopGoesOn, queueVars, histVars
    <2>2. ConnectEnds
      BY <1>0, <2>1 DEF ConnectEnds, Fates
    <2>3. EndActs(Client(c)) /\ InUse(Client(c)) /\ Client(c) \in Ends
      BY <1>0, <1>n, <2>1, EndFacts DEF EndActs, endVars, Fades
    <2>4. Talks(Client(c))
      BY <2>1, <2>2, <2>3 DEF Talks, hostVars
    <2> QED
      BY <2>3, <2>4, TalkKept
  <1>8. CASE \E c \in Conns : GiveUp(c)
    <2> PICK c \in Conns : GiveUp(c)
      BY <1>8
    <2>1. /\ connect[c] \in Waiting \cup Answered
          /\ connect' = [connect EXCEPT ![c] = "gaveup"]
          /\ UNCHANGED <<hostVars, connVars, early, next, got, crashed, leftBehind>>
          /\ LoopGoesOn
      BY DEF GiveUp, LoopGoesOn, queueVars, histVars
    <2>c. connect[c] # "none"
      BY <2>1 DEF Waiting, Answered
    <2>2. ConnectEnds
      BY <1>0, <2>1, <2>c DEF ConnectEnds, Fates
    <2>3. InUse(Client(c)) /\ Client(c) \in Ends
      BY <1>n, <2>c, EndFacts
    <2>4. EndActs(Client(c))
      <3>1. CASE connect[c] \in Answered
        <4>1. ForceClose(Client(c)) /\ stream[Client(c)] # "none"
          BY <3>1 DEF GiveUp, Waiting, Answered, NetInv, OrderInv, AnsweredIsBuilt
        <4> QED
          BY <2>3, <4>1, ForceCloseActs
      <3>2. CASE connect[c] \notin Answered
        <4>1. UNCHANGED <<endVars, netVars>>
          BY <3>2 DEF GiveUp
        <4> QED
          BY <1>0, <4>1 DEF EndActs, endVars, Fades
      <3> QED
        BY <3>1, <3>2
    <2>5. Talks(Client(c))
      BY <2>1, <2>2, <2>3, <2>4 DEF Talks, hostVars
    <2> QED
      BY <2>3, <2>5, TalkKept
  <1>9. ASSUME NEW e \in Ends, EndActs(e), stream[e] # "none",
               UNCHANGED <<hostVars, connVars, connect, queueVars, got, crashed, leftBehind>>
        PROVE  NetInv'
    <2>1. Talks(e)
      BY <1>0, <1>9, <1>n DEF Talks, ConnectEnds, LoopGoesOn, hostVars, queueVars
    <2> QED
      BY <2>1, TalkKept
  <1>10. CASE \E e \in Ends : Write(e)
    <2> PICK e \in Ends : Write(e)
      BY <1>10
    <2>1. /\ stream[e] = "open" /\ Send(e, "data") /\ UNCHANGED <<stream, bare, finishing>>
          /\ UNCHANGED <<hostVars, connVars, connect, queueVars, got, crashed, leftBehind>>
      BY DEF Write, histVars
    <2>2. EndActs(e)
      BY <1>0, <2>1 DEF EndActs, Sends, Kinds, Opening, Fades
    <2> QED
      BY <1>9, <2>1, <2>2
  <1>11. CASE \E e \in Ends : WriteEof(e)
    <2> PICK e \in Ends : WriteEof(e)
      BY <1>11
    <2>1. /\ Registered(e) /\ SendFin(e) /\ UNCHANGED <<stream, bare, finishing>>
          /\ UNCHANGED <<hostVars, connVars, connect, queueVars, got, crashed, leftBehind>>
      BY DEF WriteEof, histVars
    <2>2. EndActs(e)
      BY <1>0, <2>1, SendFinActs DEF EndActs, Fades, Registered
    <2> QED
      BY <1>9, <2>1, <2>2 DEF Registered
  <1>12. CASE \E e \in Ends : Close(e)
    <2> PICK e \in Ends : Close(e)
      BY <1>12
    <2>1. /\ stream[e] = "open" /\ StartClosing(e)
          /\ UNCHANGED <<hostVars, connVars, connect, queueVars, got, crashed, leftBehind>>
      BY DEF Close, histVars
    <2> QED
      BY <1>9, <2>1, ClosingActs
  <1>13. CASE \E e \in Ends : Abort(e)
    <2> PICK e \in Ends : Abort(e)
      BY <1>13
    <2>1. /\ Registered(e) /\ ForceClose(e)
          /\ UNCHANGED <<hostVars, connVars, connect, queueVars, got, crashed, leftBehind>>
      BY DEF Abort, histVars
    <2>2. stream[e] # "none"
      BY <2>1 DEF Registered
    <2> QED
      BY <1>9, <2>1, <2>2, ForceCloseActs
  <1>14. CASE \E a, b \in Hosts : Partition(a, b)
    <2>1. Quiet
      BY <1>0, <1>14 DEF Partition, Quiet, LoopGoesOn, endVars, netVars, queueVars, histVars
    <2> QED
      BY <2>1, MovesKept
  <1>15. CASE Heal
    BY <1>15, MovesKept
  <1>16. CASE \E h \in Hosts :
                \/ \E S \in Reactions(h, Ours(h)) : Crash(h, S)
                \/ \E F \in SUBSET Ours(h) : \E S \in Reactions(h, F) : CrashCutShort(h, S, F)
    BY <1>16, CrashFells, CrashEnds
  <1>17. CASE \E h \in Hosts : Restart(h)
    <2>1. Quiet
      BY <1>0, <1>17 DEF Restart, Quiet, LoopGoesOn, endVars, netVars, queueVars, histVars
    <2> QED
      BY <2>1, MovesKept
  <1>18. CASE UNCHANGED vars
    <2>1. Quiet
      BY <1>0, <1>18 DEF vars, Quiet, LoopGoesOn, hostVars, endVars, netVars, queueVars, histVars
    <2> QED
      BY <2>1, MovesKept
  <1>l. ASSUME NEW e \in Ends, draining = e, calling # "no"
        PROVE  InUse(e) /\ next[e] \in Nat /\ (calling = "factory" => next[e] = 1)
    <2>1. next[e] \in Nat /\ next[e] >= 1 /\ (calling = "factory" => next[e] = 1)
      BY <1>l DEF NetInv, NetTypes, OrderInv, CallsInLoop
    <2> QED
      BY <2>1 DEF NetInv, Untouched
  <1>21. ASSUME NEW e \in Ends, FactoryReturns(e) PROVE NetInv'
    <2>1. /\ draining = e /\ calling = "factory" /\ bare' = bare \ {e}
          /\ UNCHANGED <<hostVars, connVars, connect, stream, sent, finishing, netVars, early,
                         next, got, crashed, leftBehind>>
          /\ LoopGoesOn
      BY <1>21 DEF FactoryReturns, LoopGoesOn, histVars
    <2>2. EndActs(e)
      BY <1>0, <1>l, <2>1 DEF EndActs, Fades
    <2>3. Talks(e)
      BY <1>0, <1>l, <2>1, <2>2 DEF Talks, ConnectEnds, hostVars
    <2> QED
      BY <2>3, TalkKept
  <1>22. ASSUME NEW e \in Ends, draining = e, calling # "no", calling' = "no", EndActs(e),
                ConnectEnds, UNCHANGED <<hostVars, connVars, early, next, got, crashed, leftBehind>>
         PROVE  NetInv'
    <2>1. Talks(e)
      BY <1>22, <1>l DEF Talks, LoopGoesOn, hostVars
    <2> QED
      BY <2>1, TalkKept
  <1>23. ASSUME NEW e \in Ends, MadeReturns(e) \/ CallbackRaises(e) PROVE NetInv'
    <2>1. /\ draining = e /\ calling # "no" /\ calling' = "no"
          /\ UNCHANGED <<hostVars, connVars, endVars, netVars, early, next, got, crashed,
                         leftBehind>>
      BY <1>23 DEF MadeReturns, CallbackRaises, StaysIn, LeavesLoop
    <2>2. EndActs(e)
      BY <1>0, <2>1 DEF EndActs, Fades, endVars
    <2>3. ConnectEnds
      <3>1. CASE MadeReturns(e)
        <4>1. connect' = connect \/ /\ connect[e[1]] = "answering"
                                    /\ connect' = [connect EXCEPT ![e[1]] = "answered"]
          BY <3>1 DEF MadeReturns
        <4> QED
          BY <1>0, <4>1 DEF ConnectEnds, Fates
      <3>2. CASE CallbackRaises(e)
        <4>1. connect' = [c \in Conns |-> IF c = e[1] /\ connect[c] = "answering" /\ e[2] = "client"
                                         THEN "botched" ELSE connect[c]]
          BY <3>2 DEF CallbackRaises
        <4> QED
          BY <1>0, <4>1 DEF ConnectEnds, Fates
      <3> QED
        BY <1>23, <3>1, <3>2
    <2> QED
      BY <1>22, <2>1, <2>2, <2>3
  <1>24. ASSUME NEW e \in Ends, CallbackReturns(e) PROVE NetInv'
    <2>1. /\ draining = e /\ calling # "no" /\ calling' = "no"
          /\ UNCHANGED <<hostVars, connVars, connect, early, next, got, crashed, leftBehind>>
      BY <1>24 DEF CallbackReturns, StaysIn
    <2>2. CASE UNCHANGED <<endVars, netVars>>
      BY <1>0, <1>22, <2>1, <2>2 DEF EndActs, Fades, ConnectEnds, endVars
    <2>3. CASE stream[e] = "open" /\ StartClosing(e)
      BY <1>0, <1>22, <2>1, <2>3, ClosingActs DEF ConnectEnds
    <2> QED
      BY <1>24, <2>2, <2>3 DEF CallbackReturns
  <1>19. CASE Network
    BY <1>1, <1>2, <1>3, <1>4, <1>19, <1>21, <1>23, <1>24 DEF Network
  <1>20. CASE User
    BY <1>5, <1>6, <1>7, <1>8, <1>10, <1>11, <1>12, <1>13, <1>20 DEF User
  <1>25. CASE Faults
    BY <1>14, <1>15, <1>16, <1>17, <1>25 DEF Faults
  <1> QED
    BY <1>18, <1>19, <1>20, <1>25 DEF Next

\* The inductive invariant holds in every behaviour of the network.
THEOREM NetInvariant == Spec => []NetInv
  <1>1. Init => NetInv
    <2> SUFFICES ASSUME Init PROVE NetInv
      OBVIOUS
    <2> USE NetAssumption
    <2>1. NetTypes
      BY DEF Init, NetTypes, Fates
    <2>2. Pool = {} /\ wire = {} /\ held = {} /\ early = {}
      BY DEF Init, Pool
    <2>3. Untouched
      BY EndFacts DEF Init, Untouched
    <2>4. \A e \in Ends : ~InUse(e)
      BY EndFacts DEF Init, InUse, Conns
    <2>5. PacketsFit
      BY <2>2, EndFacts DEF Init, PacketsFit
    <2>6. FlowInv
      BY <2>2, <2>4, <2>5 DEF FlowInv, OnePlace, HeldAtCut, DownIsKnown, NoGap
    <2>7. LifeInv
      BY DEF Init, LifeInv, WaitsInItsLife, NoResurrection, Registered
    <2>8. OrderInv
      BY DEF Init, OrderInv, BuiltByFirst, Built, AnsweredIsBuilt, CallsInLoop, InOrder, Registered
    <2> QED
      BY <2>1, <2>3, <2>6, <2>7, <2>8 DEF NetInv
  <1> QED
    BY <1>1, NetStep, PTL DEF Spec

\* A protocol is handed its peer's bytes in the order written and with none
\* missing in between, whatever overtakes what, is cut or crashes
\* (_InOrder.push).
THEOREM ReadInOrder == Spec => []InOrder
  BY NetInvariant, PTL DEF NetInv, OrderInv

\* No connection outlives its machine: a transport belongs to the life of the
\* host that asked for it, except those a crash did not get to before the
\* exception of a connection_lost left it (crash, _dispatch_ready).
THEOREM NoneResurrected == Spec => []NoResurrection
  BY NetInvariant, PTL DEF NetInv, LifeInv

\* Exactly one of four things.
LEMMA OneOfFour ==
    ASSUME NEW w \in BOOLEAN, NEW d \in BOOLEAN, NEW y \in BOOLEAN, NEW u \in BOOLEAN,
           w \/ d \/ y \/ u, u => ~w /\ ~d /\ ~y, ~(w /\ d) /\ ~(w /\ y) /\ ~(d /\ y)
    PROVE  \E i \in 1 .. 4 : <<w, d, y, u>> = [k \in 1 .. 4 |-> k = i]
  <1>1. ASSUME NEW i \in 1 .. 4, \A k \in 1 .. 4 : (k = i) = <<w, d, y, u>>[k]
        PROVE  <<w, d, y, u>> = [k \in 1 .. 4 |-> k = i]
    <2>1. [k \in 1 .. 4 |-> k = i] = [k \in 1 .. 4 |-> <<w, d, y, u>>[k]]
      BY <1>1, Zenon
    <2>2. <<w, d, y, u>> = [k \in 1 .. 4 |-> <<w, d, y, u>>[k]]
      OBVIOUS
    <2> QED
      BY <2>1, <2>2
  <1>2. /\ \A k \in 1 .. 4 : k = 1 \/ k = 2 \/ k = 3 \/ k = 4
        /\ 1 \in 1 .. 4 /\ 2 \in 1 .. 4 /\ 3 \in 1 .. 4 /\ 4 \in 1 .. 4
    BY SMT
  <1>3. /\ <<w, d, y, u>>[1] = w /\ <<w, d, y, u>>[2] = d
        /\ <<w, d, y, u>>[3] = y /\ <<w, d, y, u>>[4] = u
    OBVIOUS
  <1>4. CASE w
    <2>1. w = TRUE /\ d = FALSE /\ y = FALSE /\ u = FALSE
      BY <1>4
    <2>2. \A k \in 1 .. 4 : (k = 1) = <<w, d, y, u>>[k]
      BY <1>2, <1>3, <2>1
    <2> QED
      BY <1>1, <1>2, <2>2
  <1>5. CASE d
    <2>1. w = FALSE /\ d = TRUE /\ y = FALSE /\ u = FALSE
      BY <1>5
    <2>2. \A k \in 1 .. 4 : (k = 2) = <<w, d, y, u>>[k]
      BY <1>2, <1>3, <2>1
    <2> QED
      BY <1>1, <1>2, <2>2
  <1>6. CASE y
    <2>1. w = FALSE /\ d = FALSE /\ y = TRUE /\ u = FALSE
      BY <1>6
    <2>2. \A k \in 1 .. 4 : (k = 3) = <<w, d, y, u>>[k]
      BY <1>2, <1>3, <2>1
    <2> QED
      BY <1>1, <1>2, <2>2
  <1>7. CASE u
    <2>1. w = FALSE /\ d = FALSE /\ y = FALSE /\ u = TRUE
      BY <1>7
    <2>2. \A k \in 1 .. 4 : (k = 4) = <<w, d, y, u>>[k]
      BY <1>2, <1>3, <2>1
    <2> QED
      BY <1>1, <1>2, <2>2
  <1> QED
    BY <1>4, <1>5, <1>6, <1>7

\* Between two machines that stay up, each packet sent is in exactly one
\* place: on the wire, behind a cut that stands, waiting for an earlier one,
\* or handed up (_blackhole, heal).
THEOREM NoneDropped == Spec => []NothingDropped
  <1>1. NetInv => NothingDropped
    <2> SUFFICES ASSUME NetInv, NEW e \in Ends, InUse(e), e[1] \notin crashed,
                        NEW n \in 0 .. sent[Other(e)] - 1
                 PROVE  LET at == <<In(wire, e, n), In(held, e, n) /\ IsCut(e),
                                    In(early, e, n), n < next[e]>>
                        IN \E i \in 1 .. 4 : at = [k \in 1 .. 4 |-> k = i]
      BY DEF NothingDropped
    <2>0. /\ next[e] \in Nat /\ sent[Other(e)] \in Nat /\ n \in Nat /\ n < sent[Other(e)]
      <3>1. Other(e) \in Ends /\ next \in [Ends -> Nat] /\ sent \in [Ends -> Nat]
        BY EndFacts DEF NetInv, NetTypes
      <3> QED
        BY <3>1
    <2>1. PICK w \in BOOLEAN : w = In(wire, e, n)
      BY DEF In
    <2>2. PICK d \in BOOLEAN : d = (In(held, e, n) /\ IsCut(e))
      BY DEF In
    <2>3. PICK y \in BOOLEAN : y = In(early, e, n)
      BY DEF In
    <2>4. PICK u \in BOOLEAN : u = (n < next[e])
      <3>1. CASE n < next[e]
        <4>1. (n < next[e]) = TRUE
          BY <3>1
        <4> QED
          BY <4>1, Zenon
      <3>2. CASE ~(n < next[e])
        <4>1. (n < next[e]) = FALSE
          BY <3>2
        <4> QED
          BY <4>1, Zenon
      <3> QED
        BY <3>1, <3>2
    <2>5. In(held, e, n) => IsCut(e)
      BY DEF In, NetInv, FlowInv, HeldAtCut
    <2>6. w \/ d \/ y \/ u
      <3>1. CASE n < next[e]
        BY <2>4, <3>1
      <3>2. CASE ~(n < next[e])
        <4>1. n \in next[e] .. sent[Other(e)] - 1
          BY <2>0, <3>2
        <4>2. In(Pool, e, n)
          BY <4>1 DEF NetInv, FlowInv, NoGap
        <4> QED
          BY <2>1, <2>2, <2>3, <2>5, <4>2 DEF In, Pool
      <3> QED
        BY <3>1, <3>2
    <2>7. ASSUME u PROVE ~w /\ ~d /\ ~y
      <3>1. n < next[e]
        BY <2>4, <2>7
      <3>2. \A q \in Pool : ~(q.to = e /\ q.seq = n)
        <4> SUFFICES ASSUME NEW q \in Pool, q.to = e, q.seq = n PROVE FALSE
          OBVIOUS
        <4>1. next[q.to] <= q.seq
          BY DEF NetInv, FlowInv, PacketsFit, PacketFits
        <4> QED
          BY <2>0, <3>1, <4>1
      <3> QED
        BY <2>1, <2>2, <2>3, <3>2 DEF In, Pool
    <2>8. ~(w /\ d) /\ ~(w /\ y) /\ ~(d /\ y)
      BY <2>1, <2>2, <2>3 DEF In, Pool, NetInv, FlowInv, OnePlace
    <2>9. \E i \in 1 .. 4 : <<w, d, y, u>> = [k \in 1 .. 4 |-> k = i]
      BY <2>6, <2>7, <2>8, OneOfFour
    <2> QED
      BY <2>1, <2>2, <2>3, <2>4, <2>9, Zenon
  <1> QED
    BY <1>1, NetInvariant, PTL
=============================================================================
