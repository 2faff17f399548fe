--------------------------- MODULE RaftNodeProofs ---------------------------
(***************************************************************************)
(* Election safety, log matching and leader completeness of the raft       *)
(* example, and what it lacks for state machine safety, for any number of  *)
(* nodes, any elections, clients, restarts and lost or late messages.      *)
(*                                                                         *)
(* Election safety.  A campaign counts votes, it does not remember whose,  *)
(* and a voter that has moved on to a later term forgets whom it voted     *)
(* for.  So the inductive invariant says that there is a set of ballots    *)
(* <<voter, term, candidate>>, one per voter and term, that accounts for   *)
(* every vote counted, every vote on its way to be counted and every       *)
(* leader elected (BallotInv).  Each step adds the votes it casts.         *)
(*                                                                         *)
(* Log matching.  Likewise there is, for every term that had a leader, one *)
(* log, the leader's own, such that every log and every slice of a log in  *)
(* flight agrees with it wherever it holds an entry of that term (LogInv). *)
(* Election safety is what keeps a second node from adding to it.          *)
(*                                                                         *)
(* Leader completeness.  Nothing remembers who acknowledged an entry       *)
(* either, so CommitInv adds a set of acknowledgements <<node, term,       *)
(* index>>: while in that term, the node held its log up to that index.    *)
(* An index of a term is lost once a majority has moved on to later        *)
(* terms without having acknowledged it.  Unless it is lost, the log of    *)
(* every later term shares it (Safe), a node that acknowledged it keeps    *)
(* it (AcksHeld), and such a node votes only for a candidate whose log is  *)
(* as fresh (VotesSafe).  What a leader counted is acknowledged by a       *)
(* majority, so it is never lost (Counted).                                *)
(*                                                                         *)
(* State machine safety.  A commit mark is settled when the log it is a    *)
(* mark of has, up to there, entries that some leader has counted.  The    *)
(* marks of nodes and of requests stay settled (SettledInv) until a push   *)
(* task sends a request out of office (Strays), which may be of a log with *)
(* a mark that a later leader's request has moved.  So the code is safe up *)
(* to there: every violation comes after such a request.                   *)
(***************************************************************************)
EXTENDS RaftNode, FiniteSetTheorems, SequenceTheorems, WellFoundedInduction, TLAPS

Terms == {e[2] : e \in Elections}

Entries == [term : Nat, command : Commands \cup {Noop}]

NodeRecords ==
    [term : Nat, vote : Nodes \cup {Nobody}, log : Seq(Entries),
     role : {"follower", "candidate", "leader"}, commit : Nat]

VoteRequests ==
    [op : {"vote"}, from : Nodes, to : Nodes, term : Nat, index : Nat, last : Nat]
AppendRequests ==
    [op : {"append"}, from : Nodes, to : Nodes, term : Nat, prev : Nat, prevTerm : Nat,
     entries : Seq(Entries), commit : Nat]
Requests == VoteRequests \cup AppendRequests

Replies == [term : Nat, ok : BOOLEAN]
Waiting == [st : {"asked"}, req : Requests]
Replied == [st : {"answered"}, upTo : Nat, reply : Replies]
Calls == {Idle, Born, Over} \cup Waiting \cup Replied

\* Every variable but the record of what was applied has its type, and the disk
\* holds exactly what its node would resume with: every save is flushed.
TypeOK ==
    /\ node \in [Nodes -> NodeRecords]
    /\ disk = [n \in Nodes |-> <<State(node[n])>>]
    /\ doing \in [Nodes -> {"follow", "campaign", "lead"}]
    /\ mine \in [Nodes -> Nat] /\ granted \in [Nodes -> Nat]
    /\ nextIndex \in [Nodes -> [Nodes -> Nat \ {0}]]
    /\ matchIndex \in [Nodes -> [Nodes -> Nat]]
    /\ call \in [Nodes -> [Nodes -> Calls]]
    /\ late \subseteq Requests
    /\ env \in [log : Nat, open : Nat, faults : Nat]
    /\ elected \in [Terms -> SUBSET Nodes]

-----------------------------------------------------------------------------
\* The coroutine a node is in, the term it began in and the calls it makes.
TaskFits(n) ==
    /\ call[n][n] = Over
    /\ doing[n] = "follow" => \A p \in Nodes : call[n][p] = Over
    /\ doing[n] = "campaign" =>
          /\ mine[n] \in Terms /\ mine[n] <= node[n].term
          /\ \A p \in Nodes : call[n][p].st = "asked" =>
                /\ call[n][p].req.op = "vote" /\ call[n][p].req.from = n
                /\ call[n][p].req.to = p /\ call[n][p].req.term = mine[n]
    /\ doing[n] = "lead" =>
          /\ mine[n] \in Terms /\ mine[n] <= node[n].term /\ n \in elected[mine[n]]
          /\ \A p \in Nodes : call[n][p].st = "asked" => call[n][p].req.op = "append"
    /\ node[n].role = "candidate" => doing[n] = "campaign" /\ mine[n] = node[n].term
    /\ node[n].role = "leader" => doing[n] = "lead" /\ mine[n] = node[n].term

\* Having led a term, a node is never again a candidate of it.
ElectedOnce ==
    \A t \in Terms : \A n \in elected[t] :
        t <= node[n].term /\ (t = node[n].term => node[n].role # "candidate")

\* Entries are sent, if late, by one who led the term they are sent under.
FromLeader(m) ==
    m.op = "append" => m.term \in Terms /\ m.from \in elected[m.term] /\ m.to # m.from

SentByLeaders ==
    /\ \A m \in late : FromLeader(m)
    /\ \A n, p \in Nodes : call[n][p].st = "asked" => FromLeader(call[n][p].req)

TaskInv == (\A n \in Nodes : TaskFits(n)) /\ ElectedOnce /\ SentByLeaders

-----------------------------------------------------------------------------
\* Ballots: a set of <<voter, term, candidate>>.
Votes == {<<p, node[p].term, node[p].vote>> : p \in {q \in Nodes : node[q].vote # Nobody}}

\* One ballot per voter and term, none of a term to come; that of the present
\* term is the one the voter remembers.
BallotsFair(B) ==
    /\ B \subseteq Nodes \X Nat \X Nodes
    /\ \A p, n, q \in Nodes, t \in Nat : <<p, t, n>> \in B /\ <<p, t, q>> \in B => n = q
    /\ \A p, n \in Nodes, t \in Nat :
          <<p, t, n>> \in B => t < node[p].term \/ (t = node[p].term /\ node[p].vote = n)
    /\ Votes \subseteq B

\* Every leader had a majority.
LeadersElected(B) ==
    \A t \in Terms : \A n \in elected[t] :
        \E Q \in SUBSET Nodes : Cardinality(Q) >= Quorum /\ \A p \in Q : <<p, t, n>> \in B

\* Every vote a campaign has counted was cast for it, by a different voter each,
\* and whose call is over.
VotesCounted(B) ==
    \A n \in Nodes : doing[n] = "campaign" =>
        \E C \in SUBSET Nodes :
            /\ granted[n] <= Cardinality(C)
            /\ \A p \in C : <<p, mine[n], n>> \in B /\ call[n][p] = Over

\* And so was every vote on its way back to it.
VotesReturning(B) ==
    \A n, p \in Nodes :
        doing[n] = "campaign" /\ call[n][p].st = "answered" /\ call[n][p].reply.ok =>
            <<p, mine[n], n>> \in B

Ballots(B) ==
    BallotsFair(B) /\ LeadersElected(B) /\ VotesCounted(B) /\ VotesReturning(B)

BallotInv == \E B \in SUBSET (Nodes \X Nat \X Nodes) : Ballots(B)

-----------------------------------------------------------------------------
\* Leaders' logs: one log L[t] for every term t that had a leader.

\* The log g agrees with the leaders' logs of its entries' terms.
Agrees(g, L) ==
    \A i \in DOMAIN g :
        LET t == g[i].term
        IN /\ t \in Terms /\ elected[t] # {}
           /\ i <= Len(L[t]) /\ \A j \in 1 .. i : g[j] = L[t][j]

\* The slice a push carries, after the entry it claims to follow, likewise.
SliceAgrees(m, L) ==
    /\ m.prev > 0 => /\ m.prevTerm \in Terms /\ elected[m.prevTerm] # {}
                     /\ m.prev <= Len(L[m.prevTerm])
    /\ \A i \in DOMAIN m.entries :
          LET t == m.entries[i].term
          IN /\ t \in Terms /\ elected[t] # {}
             /\ m.prev + i <= Len(L[t])
             /\ \A j \in 1 .. m.prev : L[t][j] = L[m.prevTerm][j]
             /\ \A j \in 1 .. i : L[t][m.prev + j] = m.entries[j]

\* What a leader in office sends and counts on is within its log.
OfficeFits(n) ==
    node[n].role = "leader" =>
        \A p \in Nodes :
            /\ nextIndex[n][p] <= Len(node[n].log) + 1
            /\ call[n][p].st = "asked" =>
                  call[n][p].req.prev + Len(call[n][p].req.entries) <= Len(node[n].log)
            /\ call[n][p].st = "answered" => call[n][p].upTo <= Len(node[n].log)

LogsAgree(L) ==
    /\ \A n \in Nodes : Agrees(node[n].log, L)
    /\ \A n \in Nodes : node[n].role = "leader" => node[n].log = L[node[n].term]
    /\ \A m \in late : m.op = "append" => SliceAgrees(m, L)
    /\ \A n, p \in Nodes :
          call[n][p].st = "asked" /\ call[n][p].req.op = "append" =>
              SliceAgrees(call[n][p].req, L)

LogInv ==
    /\ \A n \in Nodes : OfficeFits(n)
    /\ \E L \in [Terms -> Seq(Entries)] : LogsAgree(L)

\* The inductive invariant.
RaftInv == TypeOK /\ TaskInv /\ BallotInv /\ LogInv

-----------------------------------------------------------------------------
\* What a step does to ballots and leaders' logs, whichever they are: it adds the
\* votes it leaves, and only a leader in office after it adds to its log.
BallotStep ==
    \A B \in SUBSET (Nodes \X Nat \X Nodes) :
        Ballots(B) => \E D \in SUBSET (Nodes \X Nat \X Nodes) :
                          D = B \cup Votes' /\ Ballots(D)'

\* A leader's log is added to at its end, and more leaders have one.
Extends(L, M) ==
    \A t \in Terms :
        /\ elected[t] \subseteq elected'[t]
        /\ elected[t] # {} =>
              Len(L[t]) <= Len(M[t]) /\ \A j \in 1 .. Len(L[t]) : M[t][j] = L[t][j]

Grown(L, M) ==
    \A t \in Terms :
        M[t] = L[t] \/ \E q \in Nodes : node'[q].role = "leader" /\ node'[q].term = t

LogStep ==
    /\ \A n \in Nodes : OfficeFits(n)'
    /\ \A L \in [Terms -> Seq(Entries)] :
          LogsAgree(L) => \E M \in [Terms -> Seq(Entries)] :
                              Extends(L, M) /\ Grown(L, M) /\ LogsAgree(M)'

RaftStep == TypeOK' /\ TaskInv' /\ BallotStep /\ LogStep

-----------------------------------------------------------------------------
(***************************************************************************)
(* Records, requests and calls.                                            *)
(***************************************************************************)

LEMMA FollowerIs ==
    ASSUME NEW s \in NodeRecords, NEW t \in Nat
    PROVE  /\ BecomeFollower(s, t) \in NodeRecords
           /\ BecomeFollower(s, t).term = t /\ BecomeFollower(s, t).vote = Nobody
           /\ BecomeFollower(s, t).role = "follower"
           /\ BecomeFollower(s, t).log = s.log /\ BecomeFollower(s, t).commit = s.commit
BY Zenon DEF BecomeFollower, NodeRecords

LEMMA SavedIs ==
    ASSUME NEW d, NEW s
    PROVE  Saved(d, s, TRUE) = <<State(s)>>
BY DEF Saved, persist_before_reply

LEMMA LastTermIs ==
    ASSUME NEW s \in NodeRecords
    PROVE  LastTerm(s) \in Nat
<1>1. s.log \in Seq(Entries)
  BY DEF NodeRecords
<1>2. s.log # <<>> => Len(s.log) \in DOMAIN s.log
  BY <1>1
<1>3. s.log # <<>> => s.log[Len(s.log)] \in Entries
  BY <1>1, <1>2
<1>4. s.log # <<>> => s.log[Len(s.log)].term \in Nat
  BY <1>3 DEF Entries
<1> QED BY <1>4 DEF LastTerm

LEMMA CallShapes ==
    ASSUME NEW x \in Calls
    PROVE  /\ x.st = "asked" => x \in Waiting /\ x.req \in Requests /\ x = Asked(x.req)
           /\ x.st = "answered" => x \in Replied /\ x.reply \in Replies /\ x.upTo \in Nat
<1>1. CASE x \in {Idle, Born, Over}
  BY <1>1 DEF Idle, Born, Over
<1>2. CASE x \in Waiting
  BY <1>2 DEF Waiting, Asked
<1>3. CASE x \in Replied
  BY <1>3 DEF Replied
<1> QED BY <1>1, <1>2, <1>3 DEF Calls

LEMMA ConstantCalls ==
    /\ Idle \in Calls /\ Born \in Calls /\ Over \in Calls
    /\ Idle.st = "idle" /\ Born.st = "born" /\ Over.st = "over"
BY DEF Calls, Idle, Born, Over

LEMMA AskedIs ==
    ASSUME NEW m \in Requests
    PROVE  Asked(m) \in Calls /\ Asked(m).st = "asked" /\ Asked(m).req = m /\ Asked(m) # Over
BY DEF Asked, Calls, Waiting, Over

LEMMA AnsweredIs ==
    ASSUME NEW u \in Nat, NEW r \in Replies
    PROVE  /\ Answered(u, r) \in Calls /\ Answered(u, r).st = "answered"
           /\ Answered(u, r).upTo = u /\ Answered(u, r).reply = r
BY DEF Answered, Calls, Replied

LEMMA RequestShapes ==
    ASSUME NEW m \in Requests
    PROVE  /\ m.from \in Nodes /\ m.to \in Nodes /\ m.term \in Nat
           /\ m.op = "vote" => m \in VoteRequests
           /\ m.op = "append" => m \in AppendRequests
           /\ m.op \in {"vote", "append"}
<1>1. CASE m \in VoteRequests
  BY <1>1 DEF VoteRequests
<1>2. CASE m \in AppendRequests
  BY <1>2 DEF AppendRequests
<1> QED BY <1>1, <1>2 DEF Requests

LEMMA InFlightIs ==
    ASSUME TypeOK, NEW m \in InFlight
    PROVE  /\ m \in Requests
           /\ m \in late \/ \E n, p \in Nodes : call[n][p].st = "asked" /\ m = call[n][p].req
<1>1. CASE m \in late
  BY <1>1 DEF TypeOK
<1>2. CASE m \notin late
  <2>1. PICK x \in Nodes \X Nodes : call[x[1]][x[2]].st = "asked" /\ m = call[x[1]][x[2]].req
    BY <1>2 DEF InFlight
  <2>2. PICK n \in Nodes, p \in Nodes : n = x[1] /\ p = x[2]
    OBVIOUS
  <2>3. call[n][p] \in Calls
    BY DEF TypeOK
  <2> QED BY <2>1, <2>2, <2>3, CallShapes
<1> QED BY <1>1, <1>2

LEMMA TermsAreNumbers ==
    Terms \subseteq Nat
<1>1. \A e \in Nodes \X Nat : e[2] \in Nat
  OBVIOUS
<1> QED BY <1>1, RaftAssumption DEF Terms

\* Least and greatest members.
LEMMA MinIn ==
    ASSUME NEW S \in SUBSET Nat, S # {}
    PROVE  Min(S) \in S /\ \A q \in S : Min(S) <= q
<1>1. PICK p \in S : \A q \in S : <<q, p>> \notin OpToRel(<, Nat)
  BY NatLessThanWellFounded, WFMin
<1>2. ASSUME NEW q \in S, q < p PROVE FALSE
  <2>1. <<q, p>> \in Nat \X Nat /\ <<q, p>>[1] < <<q, p>>[2]
    BY <1>2
  <2>2. <<q, p>> \in OpToRel(<, Nat)
    BY <2>1, Zenon DEF OpToRel
  <2> QED BY <1>1, <2>2
<1>3. \A q \in S : p <= q
  BY <1>2
<1> QED BY <1>3 DEF Min

LEMMA MaxIn ==
    ASSUME NEW k \in Nat, NEW S \in SUBSET (0 .. k), S # {}
    PROVE  Max(S) \in S
<1> DEFINE R == {k - i : i \in S}
<1>1. R \in SUBSET Nat /\ R # {}
  <2>1. \A i \in S : k - i \in Nat
    OBVIOUS
  <2> QED BY <2>1
<1>2. Min(R) \in R /\ \A q \in R : Min(R) <= q
  BY <1>1, MinIn
<1>3. PICK m \in S : Min(R) = k - m
  BY <1>2
<1>4. \A i \in S : k - m <= k - i
  BY <1>2, <1>3
<1>5. \A i \in S : m >= i
  BY <1>4
<1> QED BY <1>5 DEF Max

\* Only one node's record changes.
LEMMA NodeSet ==
    ASSUME TypeOK, NEW n \in Nodes, NEW s \in NodeRecords, node' = [node EXCEPT ![n] = s]
    PROVE  /\ node' \in [Nodes -> NodeRecords] /\ node'[n] = s
           /\ \A q \in Nodes \ {n} : node'[q] = node[q]
BY DEF TypeOK

\* The disk follows its node.
LEMMA DiskFollows ==
    ASSUME TypeOK, NEW n \in Nodes, \A q \in Nodes \ {n} : node'[q] = node[q],
           \/ disk' = [disk EXCEPT ![n] = <<State(node'[n])>>]
           \/ disk' = disk /\ State(node'[n]) = State(node[n])
    PROVE  disk' = [q \in Nodes |-> <<State(node'[q])>>]
<1> DEFINE D == [q \in Nodes |-> <<State(node[q])>>]
<1>1. disk = D
  BY DEF TypeOK
<1>2. \A q \in Nodes \ {n} : <<State(node'[q])>> = <<State(node[q])>>
  OBVIOUS
<1>3. CASE disk' = [disk EXCEPT ![n] = <<State(node'[n])>>]
  BY <1>1, <1>2, <1>3
<1>4. CASE disk' = disk /\ State(node'[n]) = State(node[n])
  BY <1>1, <1>2, <1>4
<1> QED BY <1>3, <1>4

-----------------------------------------------------------------------------
(***************************************************************************)
(* What every step but the start of a campaign and the start of a          *)
(* leadership comes to, as far as elections are concerned.                 *)
(***************************************************************************)

\* A term never falls, a vote is never changed within a term.
VotesKept ==
    \A q \in Nodes :
        /\ node'[q].term >= node[q].term
        /\ node'[q].term = node[q].term => node[q].vote \in {Nobody, node'[q].vote}

\* Nobody takes office or stands.
RolesKept ==
    \A q \in Nodes : \/ node'[q].role = "follower"
                     \/ node'[q].role = node[q].role /\ node'[q].term = node[q].term

\* A task that is over stays so, and a request fits the coroutine it is sent from.
RequestFits(n, p, m) ==
    /\ m.from = n /\ m.to = p /\ m.term = mine[n] /\ p # n
    /\ \/ doing[n] = "campaign" /\ m.op = "vote"
       \/ doing[n] = "lead" /\ m.op = "append"

CallMoves(n) ==
    \A p \in Nodes :
        \/ call'[n][p] = call[n][p]
        \/ /\ call[n][p] # Over
           /\ call'[n][p].st = "asked" => RequestFits(n, p, call'[n][p].req)

\* A vote is counted when its call ends.
Counts(n) ==
    \/ granted'[n] = granted[n]
    \/ \E p \in Nodes : /\ call[n][p].st = "answered" /\ call[n][p].reply.ok
                        /\ call'[n][p] = Over /\ granted'[n] = granted[n] + 1

\* An answer is new only if its voter's vote is in it.
AnswersHonest(n) ==
    \A p \in Nodes :
        call'[n][p].st = "answered" /\ call'[n][p].reply.ok =>
            \/ call'[n][p] = call[n][p]
            \/ doing[n] = "campaign" => node'[p].term = mine[n] /\ node'[p].vote = n

GoesOn(n) ==
    /\ doing'[n] = doing[n] /\ mine'[n] = mine[n]
    /\ CallMoves(n) /\ Counts(n) /\ AnswersHonest(n)

GoesBack(n) ==
    doing'[n] = "follow" /\ node'[n].role = "follower" /\ \A p \in Nodes : call'[n][p] = Over

\* Only requests that were sent are left behind.
LateMoves ==
    \A m \in late' : m \in late \/ \E n, p \in Nodes : call[n][p].st = "asked" /\ call[n][p].req = m

Quiet ==
    /\ VotesKept /\ RolesKept /\ LateMoves /\ elected' = elected
    /\ \A n \in Nodes : GoesOn(n) \/ GoesBack(n)

\* The ballots after a step: those before it and the votes it leaves.
LEMMA BallotsGrow ==
    ASSUME TypeOK, TypeOK', VotesKept, NEW B \in SUBSET (Nodes \X Nat \X Nodes), BallotsFair(B)
    PROVE  \E V \in SUBSET (Nodes \X Nat \X Nodes) : V = Votes' /\ BallotsFair(B \cup V)'
<1>1. PICK V : V = Votes'
  OBVIOUS
<1>2. \A q \in Nodes : node[q] \in NodeRecords /\ node'[q] \in NodeRecords
  BY DEF TypeOK
<1>3. \A q \in Nodes : /\ node[q].term \in Nat /\ node'[q].term \in Nat
                       /\ node[q].vote \in Nodes \cup {Nobody} /\ node'[q].vote \in Nodes \cup {Nobody}
  BY <1>2 DEF NodeRecords
<1>4. V \subseteq Nodes \X Nat \X Nodes
  BY <1>1, <1>3 DEF Votes
<1>5. \A p, n \in Nodes, t \in Nat :
         <<p, t, n>> \in V => t = node'[p].term /\ node'[p].vote = n
  BY <1>1 DEF Votes
<1>6. \A p, n \in Nodes, t \in Nat :
         <<p, t, n>> \in B => t < node'[p].term \/ (t = node'[p].term /\ node'[p].vote = n)
  <2>1. SUFFICES ASSUME NEW p \in Nodes, NEW n \in Nodes, NEW t \in Nat, <<p, t, n>> \in B
                 PROVE  t < node'[p].term \/ (t = node'[p].term /\ node'[p].vote = n)
    OBVIOUS
  <2>2. t < node[p].term \/ (t = node[p].term /\ node[p].vote = n)
    BY <2>1 DEF BallotsFair
  <2>3. n # Nobody
    BY RaftAssumption
  <2> QED BY <1>3, <2>2, <2>3 DEF VotesKept
<1>7. \A p, n, q \in Nodes, t \in Nat :
         <<p, t, n>> \in B \cup V /\ <<p, t, q>> \in B \cup V => n = q
  <2>1. SUFFICES ASSUME NEW p \in Nodes, NEW n \in Nodes, NEW q \in Nodes, NEW t \in Nat,
                        <<p, t, n>> \in B \cup V, <<p, t, q>> \in B \cup V
                 PROVE  n = q
    OBVIOUS
  <2>2. CASE <<p, t, n>> \in B /\ <<p, t, q>> \in B
    BY <2>2 DEF BallotsFair
  <2>3. CASE <<p, t, n>> \in V
    BY <1>3, <1>5, <1>6, <2>1, <2>3
  <2>4. CASE <<p, t, q>> \in V
    BY <1>3, <1>5, <1>6, <2>1, <2>4
  <2> QED BY <2>1, <2>2, <2>3, <2>4
<1>8. \A p, n \in Nodes, t \in Nat :
         <<p, t, n>> \in B \cup V => t < node'[p].term \/ (t = node'[p].term /\ node'[p].vote = n)
  BY <1>5, <1>6
<1>9. (B \cup V) \in SUBSET (Nodes \X Nat \X Nodes)
  BY <1>4
<1>10. BallotsFair(B \cup V)'
  BY <1>1, <1>7, <1>8, <1>9 DEF BallotsFair
<1> QED BY <1>1, <1>4, <1>10

\* A vote a node has cast is among the ballots.
LEMMA VoteIsBallot ==
    ASSUME NEW p \in Nodes, NEW n \in Nodes, node'[p].vote = n
    PROVE  <<p, node'[p].term, n>> \in Votes'
<1>1. n # Nobody
  BY RaftAssumption
<1> QED BY <1>1 DEF Votes

\* What has been counted and elected stands, with the votes of the step added.
LEMMA QuietBallots ==
    ASSUME TypeOK, TypeOK', TaskInv, Quiet
    PROVE  BallotStep
<1> SUFFICES ASSUME NEW B \in SUBSET (Nodes \X Nat \X Nodes), Ballots(B)
             PROVE  \E D \in SUBSET (Nodes \X Nat \X Nodes) : D = B \cup Votes' /\ Ballots(D)'
  BY DEF BallotStep
<1>1. BallotsFair(B) /\ LeadersElected(B) /\ VotesCounted(B) /\ VotesReturning(B)
  BY DEF Ballots
<1>2. PICK V \in SUBSET (Nodes \X Nat \X Nodes) : V = Votes' /\ BallotsFair(B \cup V)'
  BY <1>1, BallotsGrow DEF Quiet
<1>3. PICK D \in SUBSET (Nodes \X Nat \X Nodes) : D = B \cup V
  OBVIOUS
<1>4. LeadersElected(D)'
  BY <1>1, <1>3 DEF LeadersElected, Quiet, Quorum
<1>5. ASSUME NEW n \in Nodes, doing'[n] = "campaign" PROVE GoesOn(n)
  BY <1>5 DEF Quiet, GoesBack
<1>6. VotesCounted(D)'
  <2>1. SUFFICES ASSUME NEW n \in Nodes, doing'[n] = "campaign"
                 PROVE  \E C \in SUBSET Nodes :
                           /\ granted'[n] <= Cardinality(C)
                           /\ \A p \in C : <<p, mine'[n], n>> \in D /\ call'[n][p] = Over
    BY DEF VotesCounted
  <2>2. doing[n] = "campaign" /\ mine'[n] = mine[n] /\ CallMoves(n) /\ Counts(n)
    BY <1>5, <2>1 DEF GoesOn
  <2>3. PICK C \in SUBSET Nodes :
           /\ granted[n] <= Cardinality(C)
           /\ \A p \in C : <<p, mine[n], n>> \in B /\ call[n][p] = Over
    BY <1>1, <2>2 DEF VotesCounted
  <2>4. \A p \in C : <<p, mine'[n], n>> \in D /\ call'[n][p] = Over
    BY <1>3, <2>2, <2>3 DEF CallMoves
  <2>5. CASE granted'[n] = granted[n]
    BY <2>3, <2>4, <2>5
  <2>6. CASE \E p \in Nodes : /\ call[n][p].st = "answered" /\ call[n][p].reply.ok
                              /\ call'[n][p] = Over /\ granted'[n] = granted[n] + 1
    <3>1. PICK p \in Nodes : /\ call[n][p].st = "answered" /\ call[n][p].reply.ok
                             /\ call'[n][p] = Over /\ granted'[n] = granted[n] + 1
      BY <2>6
    <3>2. <<p, mine'[n], n>> \in D /\ p \notin C
      BY <1>1, <1>3, <2>2, <2>3, <3>1, ConstantCalls DEF VotesReturning
    <3>3. IsFiniteSet(C) /\ Cardinality(C) \in Nat
      BY RaftAssumption, FS_Subset, FS_CardinalityType
    <3>4. Cardinality(C \cup {p}) = Cardinality(C) + 1
      BY <3>2, <3>3, FS_AddElement
    <3>5. granted'[n] <= Cardinality(C \cup {p})
      BY <2>3, <3>1, <3>3, <3>4 DEF TypeOK
    <3>6. \A q \in C \cup {p} : <<q, mine'[n], n>> \in D /\ call'[n][q] = Over
      BY <2>4, <3>1, <3>2
    <3>7. (C \cup {p}) \in SUBSET Nodes
      OBVIOUS
    <3> QED BY <3>5, <3>6, <3>7
  <2> QED BY <2>2, <2>5, <2>6 DEF Counts
<1>7. VotesReturning(D)'
  <2>1. SUFFICES ASSUME NEW n \in Nodes, NEW p \in Nodes, doing'[n] = "campaign",
                        call'[n][p].st = "answered", call'[n][p].reply.ok
                 PROVE  <<p, mine'[n], n>> \in D
    BY DEF VotesReturning
  <2>2. doing[n] = "campaign" /\ mine'[n] = mine[n] /\ AnswersHonest(n)
    BY <1>5, <2>1 DEF GoesOn
  <2>3. CASE call'[n][p] = call[n][p]
    BY <1>1, <1>3, <2>1, <2>2, <2>3 DEF VotesReturning
  <2>4. CASE node'[p].term = mine[n] /\ node'[p].vote = n
    BY <1>2, <1>3, <2>2, <2>4, VoteIsBallot
  <2> QED BY <2>1, <2>2, <2>3, <2>4 DEF AnswersHonest
<1>8. BallotsFair(D)'
  BY <1>2, <1>3
<1> QED BY <1>2, <1>3, <1>4, <1>6, <1>7, <1>8 DEF Ballots

\* And every coroutine still has the calls that fit it.
LEMMA QuietTasks ==
    ASSUME TypeOK, TypeOK', TaskInv, Quiet
    PROVE  TaskInv'
<1>0. \A n \in Nodes : node[n].term \in Nat /\ node'[n].term \in Nat /\ mine[n] \in Nat
  <2>1. \A n \in Nodes : node[n] \in NodeRecords /\ node'[n] \in NodeRecords /\ mine[n] \in Nat
    BY DEF TypeOK
  <2> QED BY <2>1 DEF NodeRecords
<1>1. ASSUME NEW n \in Nodes PROVE TaskFits(n)'
  <2>1. TaskFits(n) /\ elected' = elected
    BY DEF TaskInv, Quiet
  <2>2. /\ node'[n].term >= node[n].term
        /\ \/ node'[n].role = "follower"
           \/ node'[n].role = node[n].role /\ node'[n].term = node[n].term
    BY DEF Quiet, VotesKept, RolesKept
  <2>3. CASE GoesOn(n)
    <3>1. doing'[n] = doing[n] /\ mine'[n] = mine[n] /\ CallMoves(n)
      BY <2>3 DEF GoesOn
    <3>2. call'[n][n] = Over /\ (doing[n] = "follow" => \A p \in Nodes : call'[n][p] = Over)
      BY <2>1, <3>1 DEF TaskFits, CallMoves
    <3>3. ASSUME doing[n] = "campaign", NEW p \in Nodes, call'[n][p].st = "asked"
          PROVE  /\ call'[n][p].req.op = "vote" /\ call'[n][p].req.from = n
                 /\ call'[n][p].req.to = p /\ call'[n][p].req.term = mine[n]
      BY <2>1, <3>1, <3>3 DEF TaskFits, CallMoves, RequestFits
    <3>4. ASSUME doing[n] = "lead", NEW p \in Nodes, call'[n][p].st = "asked"
          PROVE  call'[n][p].req.op = "append"
      BY <2>1, <3>1, <3>4 DEF TaskFits, CallMoves, RequestFits
    <3>5. doing[n] \in {"campaign", "lead"} => mine[n] \in Terms /\ mine[n] <= node'[n].term
      BY <1>0, <2>1, <2>2 DEF TaskFits
    <3> QED BY <2>1, <2>2, <3>1, <3>2, <3>3, <3>4, <3>5 DEF TaskFits
  <2>4. CASE GoesBack(n)
    BY <2>4, ConstantCalls DEF GoesBack, TaskFits
  <2> QED BY <2>3, <2>4 DEF Quiet
<1>2. ElectedOnce'
  <2>1. SUFFICES ASSUME NEW t \in Terms, NEW n \in elected[t]
                 PROVE  t <= node'[n].term /\ (t = node'[n].term => node'[n].role # "candidate")
    BY DEF ElectedOnce, Quiet
  <2>2. n \in Nodes /\ t \in Nat
    BY <2>1, TermsAreNumbers DEF TypeOK
  <2>3. t <= node[n].term /\ (t = node[n].term => node[n].role # "candidate")
    BY <2>1 DEF TaskInv, ElectedOnce
  <2>4. /\ node'[n].term >= node[n].term
        /\ \/ node'[n].role = "follower"
           \/ node'[n].role = node[n].role /\ node'[n].term = node[n].term
    BY <2>2 DEF Quiet, VotesKept, RolesKept
  <2> QED BY <1>0, <2>2, <2>3, <2>4
<1>3. SentByLeaders'
  <2>1. \A m : FromLeader(m)' <=> FromLeader(m)
    BY DEF FromLeader, Quiet
  <2>2. \A m \in late' : FromLeader(m)
    BY DEF TaskInv, SentByLeaders, Quiet, LateMoves
  <2>3. ASSUME NEW n \in Nodes, NEW p \in Nodes, call'[n][p].st = "asked"
        PROVE  FromLeader(call'[n][p].req)
    <3>1. CASE call'[n][p] = call[n][p]
      BY <2>3, <3>1 DEF TaskInv, SentByLeaders
    <3>2. CASE RequestFits(n, p, call'[n][p].req)
      BY <3>2 DEF RequestFits, FromLeader, TaskInv, TaskFits
    <3>3. GoesOn(n)
      BY <2>3, ConstantCalls DEF Quiet, GoesBack
    <3> QED BY <2>3, <3>1, <3>2, <3>3 DEF GoesOn, CallMoves
  <2> QED BY <2>1, <2>2, <2>3 DEF SentByLeaders
<1> QED BY <1>1, <1>2, <1>3 DEF TaskInv

-----------------------------------------------------------------------------
(***************************************************************************)
(* The start of a campaign.                                                *)
(***************************************************************************)

LEMMA CampaignIs ==
    ASSUME TypeOK, NEW n \in Nodes, Campaign(n)
    PROVE  /\ node' \in [Nodes -> NodeRecords] /\ \A q \in Nodes \ {n} : node'[q] = node[q]
           /\ node'[n].term = node[n].term + 1 /\ node'[n].vote = n
           /\ node'[n].role = "candidate" /\ node'[n].log = node[n].log
           /\ node'[n].commit = node[n].commit
           /\ disk' = [q \in Nodes |-> <<State(node'[q])>>]
           /\ doing' = [doing EXCEPT ![n] = "campaign"]
           /\ mine' = [mine EXCEPT ![n] = node[n].term + 1]
           /\ granted' = [granted EXCEPT ![n] = 1]
           /\ call' \in [Nodes -> [Nodes -> Calls]] /\ \A q \in Nodes \ {n} : call'[q] = call[q]
           /\ \A p \in Nodes : call'[n][p] = IF p = n THEN Over ELSE Born
           /\ nextIndex' = nextIndex /\ matchIndex' = matchIndex /\ elected' = elected
           /\ node[n].term + 1 \in Terms
<1> DEFINE s == [node[n] EXCEPT !.role = "candidate", !.vote = n, !.term = node[n].term + 1]
<1>1. node[n] \in NodeRecords /\ node[n].term + 1 \in Nat /\ call \in [Nodes -> [Nodes -> Calls]]
  <2>1. node[n] \in NodeRecords
    BY DEF TypeOK
  <2>2. node[n].term + 1 \in Nat
    BY <2>1 DEF NodeRecords
  <2>3. call \in [Nodes -> [Nodes -> Calls]]
    BY DEF TypeOK
  <2> QED BY <2>1, <2>2, <2>3
<1>2. /\ s \in NodeRecords /\ s.term = node[n].term + 1 /\ s.vote = n /\ s.role = "candidate"
      /\ s.log = node[n].log /\ s.commit = node[n].commit
  BY <1>1, Zenon DEF NodeRecords
<1>3. node' = [node EXCEPT ![n] = s]
  BY <1>1, Zenon DEF Campaign, TypeOK, NodeRecords
<1> HIDE DEF s
<1>4. /\ node' \in [Nodes -> NodeRecords] /\ node'[n] = s
      /\ \A q \in Nodes \ {n} : node'[q] = node[q]
  BY <1>2, <1>3, NodeSet
<1>5. disk' = [disk EXCEPT ![n] = <<State(node'[n])>>]
  BY SavedIs, Zenon DEF Campaign, Persist
<1>6. disk' = [q \in Nodes |-> <<State(node'[q])>>]
  BY <1>4, <1>5, DiskFollows
<1>7. /\ doing' = [doing EXCEPT ![n] = "campaign"]
      /\ mine' = [mine EXCEPT ![n] = node[n].term + 1]
      /\ granted' = [granted EXCEPT ![n] = 1]
      /\ call' = [call EXCEPT ![n] = [p \in Nodes |-> IF p = n THEN Over ELSE Born]]
      /\ nextIndex' = nextIndex /\ matchIndex' = matchIndex /\ elected' = elected
      /\ <<n, node[n].term + 1>> \in Elections
  BY Zenon DEF Campaign, leaderVars, histVars
<1>8. /\ call' \in [Nodes -> [Nodes -> Calls]] /\ \A q \in Nodes \ {n} : call'[q] = call[q]
      /\ \A p \in Nodes : call'[n][p] = IF p = n THEN Over ELSE Born
  BY <1>1, <1>7, ConstantCalls
<1>9. node[n].term + 1 \in Terms
  <2>1. <<n, node[n].term + 1>>[2] \in Terms
    BY <1>7 DEF Terms
  <2> QED BY <2>1
<1> QED BY <1>2, <1>4, <1>6, <1>7, <1>8, <1>9

LEMMA CampaignKeeps ==
    ASSUME TypeOK, TypeOK', TaskInv, NEW n \in Nodes, Campaign(n), LateMoves
    PROVE  TaskInv' /\ BallotStep
<1>0. \A q \in Nodes : node[q].term \in Nat /\ mine[q] \in Nat
  <2>1. \A q \in Nodes : node[q] \in NodeRecords /\ mine[q] \in Nat
    BY DEF TypeOK
  <2> QED BY <2>1 DEF NodeRecords
<1>1. /\ doing'[n] = "campaign" /\ mine'[n] = node[n].term + 1 /\ granted'[n] = 1
      /\ \A q \in Nodes \ {n} : /\ doing'[q] = doing[q] /\ mine'[q] = mine[q]
                                /\ granted'[q] = granted[q] /\ call'[q] = call[q]
                                /\ node'[q] = node[q]
  BY CampaignIs DEF TypeOK
<1>2. /\ call'[n][n] = Over
      /\ \A p \in Nodes : call'[n][p].st \in {"over", "born"}
  BY CampaignIs, ConstantCalls
<1>3. /\ node'[n].term = node[n].term + 1 /\ node'[n].vote = n /\ node'[n].role = "candidate"
      /\ elected' = elected /\ node[n].term + 1 \in Terms
  BY CampaignIs
<1>4. ASSUME NEW q \in Nodes PROVE TaskFits(q)'
  <2>1. CASE q = n
    BY <1>0, <1>1, <1>2, <1>3, <2>1 DEF TaskFits
  <2>2. CASE q # n
    <3>1. TaskFits(q)
      BY DEF TaskInv
    <3> QED BY <1>1, <1>3, <2>2, <3>1 DEF TaskFits
  <2> QED BY <2>1, <2>2
<1>5. ElectedOnce'
  <2>1. SUFFICES ASSUME NEW t \in Terms, NEW q \in elected[t]
                 PROVE  t <= node'[q].term /\ (t = node'[q].term => node'[q].role # "candidate")
    BY <1>3 DEF ElectedOnce
  <2>2. q \in Nodes /\ t \in Nat
    BY <2>1, TermsAreNumbers DEF TypeOK
  <2>3. t <= node[q].term /\ (t = node[q].term => node[q].role # "candidate")
    BY <2>1 DEF TaskInv, ElectedOnce
  <2>4. CASE q = n
    BY <1>0, <1>3, <2>2, <2>3, <2>4
  <2>5. CASE q # n
    BY <1>1, <2>2, <2>3, <2>5
  <2> QED BY <2>4, <2>5
<1>6. SentByLeaders'
  <2>1. \A m : FromLeader(m)' <=> FromLeader(m)
    BY <1>3 DEF FromLeader
  <2>2. \A m \in late' : FromLeader(m)
    BY DEF TaskInv, SentByLeaders, LateMoves
  <2>3. \A q, p \in Nodes : call'[q][p].st = "asked" => FromLeader(call'[q][p].req)
    BY <1>1, <1>2 DEF TaskInv, SentByLeaders
  <2> QED BY <2>1, <2>2, <2>3 DEF SentByLeaders
<1>a. TaskInv'
  BY <1>4, <1>5, <1>6 DEF TaskInv
<1> SUFFICES ASSUME NEW B \in SUBSET (Nodes \X Nat \X Nodes), Ballots(B)
             PROVE  \E D \in SUBSET (Nodes \X Nat \X Nodes) : D = B \cup Votes' /\ Ballots(D)'
  BY <1>a DEF BallotStep
<1>7. BallotsFair(B) /\ LeadersElected(B) /\ VotesCounted(B) /\ VotesReturning(B)
  BY DEF Ballots
<1>8. VotesKept
  BY <1>0, <1>1, <1>3 DEF VotesKept
<1>9. PICK V \in SUBSET (Nodes \X Nat \X Nodes) : V = Votes' /\ BallotsFair(B \cup V)'
  BY <1>7, <1>8, BallotsGrow
<1>10. PICK D \in SUBSET (Nodes \X Nat \X Nodes) : D = B \cup V
  OBVIOUS
<1>11. LeadersElected(D)'
  BY <1>3, <1>7, <1>10 DEF LeadersElected, Quorum
<1>12. <<n, mine'[n], n>> \in D
  BY <1>1, <1>3, <1>9, <1>10, VoteIsBallot
<1>13. VotesCounted(D)'
  <2>1. SUFFICES ASSUME NEW q \in Nodes, doing'[q] = "campaign"
                 PROVE  \E C \in SUBSET Nodes :
                           /\ granted'[q] <= Cardinality(C)
                           /\ \A p \in C : <<p, mine'[q], q>> \in D /\ call'[q][p] = Over
    BY DEF VotesCounted
  <2>2. CASE q = n
    <3>1. Cardinality({n}) = 1
      BY FS_Singleton
    <3>2. granted'[n] <= Cardinality({n}) /\ {n} \in SUBSET Nodes
      BY <1>1, <3>1
    <3>3. \A p \in {n} : <<p, mine'[n], n>> \in D /\ call'[n][p] = Over
      BY <1>2, <1>12
    <3> QED BY <2>2, <3>2, <3>3
  <2>3. CASE q # n
    BY <1>1, <1>7, <1>10, <2>1, <2>3 DEF VotesCounted
  <2> QED BY <2>2, <2>3
<1>14. VotesReturning(D)'
  BY <1>1, <1>2, <1>7, <1>10 DEF VotesReturning
<1>15. BallotsFair(D)'
  BY <1>9, <1>10
<1> QED BY <1>9, <1>10, <1>11, <1>13, <1>14, <1>15 DEF Ballots

-----------------------------------------------------------------------------
(***************************************************************************)
(* What the other steps do to the tasks.                                   *)
(***************************************************************************)

\* A node whose tasks a step leaves alone.
Still(q) ==
    doing'[q] = doing[q] /\ mine'[q] = mine[q] /\ granted'[q] = granted[q] /\ call'[q] = call[q]

LEMMA StillGoesOn ==
    ASSUME NEW q \in Nodes, Still(q)
    PROVE  GoesOn(q)
BY DEF Still, GoesOn, CallMoves, Counts, AnswersHonest

\* Only the solicit or push task for one peer moves.
LEMMA OneCallMoves ==
    ASSUME TypeOK, NEW n \in Nodes, NEW p \in Nodes, NEW x \in Calls,
           call' = [call EXCEPT ![n][p] = x]
    PROVE  /\ call' \in [Nodes -> [Nodes -> Calls]] /\ call'[n][p] = x
           /\ \A q \in Nodes \ {p} : call'[n][q] = call[n][q]
           /\ \A q \in Nodes \ {n} : call'[q] = call[q]
BY DEF TypeOK

LEMMA AbandonIs ==
    ASSUME TypeOK, NEW n \in Nodes, NEW ps \in SUBSET Nodes, Abandon(n, ps)
    PROVE  LateMoves /\ late' \subseteq Requests /\ env' \in [log : Nat, open : Nat, faults : Nat]
<1>1. CASE UNCHANGED <<late, env>>
  BY <1>1 DEF LateMoves, TypeOK
<1>2. CASE env.faults > 0 /\ env' = [env EXCEPT !.faults = @ - 1] /\ Outlives(n, ps)
  <2>1. env \in [log : Nat, open : Nat, faults : Nat]
    BY DEF TypeOK
  <2>2. env.faults - 1 \in Nat
    BY <1>2, <2>1
  <2>3. env' \in [log : Nat, open : Nat, faults : Nat]
    BY <1>2, <2>1, <2>2, Zenon
  <2>4. PICK p \in ps : call[n][p].st = "asked" /\ late' = late \cup {call[n][p].req}
    BY <1>2 DEF Outlives
  <2>5. call[n][p] \in Calls /\ late \subseteq Requests
    BY DEF TypeOK
  <2>6. call[n][p].req \in Requests
    BY <2>4, <2>5, CallShapes
  <2>7. LateMoves
    BY <2>4 DEF LateMoves
  <2> QED BY <2>3, <2>4, <2>5, <2>6, <2>7
<1> QED BY <1>1, <1>2 DEF Abandon

LEMMA BackToFollowIs ==
    ASSUME TypeOK, NEW n \in Nodes, BackToFollow(n)
    PROVE  /\ doing' \in [Nodes -> {"follow", "campaign", "lead"}] /\ doing'[n] = "follow"
           /\ mine' \in [Nodes -> Nat] /\ granted' \in [Nodes -> Nat]
           /\ nextIndex' \in [Nodes -> [Nodes -> Nat \ {0}]]
           /\ matchIndex' \in [Nodes -> [Nodes -> Nat]]
           /\ call' \in [Nodes -> [Nodes -> Calls]] /\ \A p \in Nodes : call'[n][p] = Over
           /\ \A q \in Nodes \ {n} : Still(q) /\ nextIndex'[q] = nextIndex[q]
<1>1. /\ call' \in [Nodes -> [Nodes -> Calls]] /\ \A p \in Nodes : call'[n][p] = Over
      /\ \A q \in Nodes \ {n} : call'[q] = call[q]
  BY ConstantCalls DEF TypeOK, BackToFollow, NoCalls
<1>2. /\ doing' \in [Nodes -> {"follow", "campaign", "lead"}] /\ doing'[n] = "follow"
      /\ mine' \in [Nodes -> Nat] /\ granted' \in [Nodes -> Nat]
      /\ \A q \in Nodes \ {n} : doing'[q] = doing[q] /\ mine'[q] = mine[q] /\ granted'[q] = granted[q]
  BY DEF TypeOK, BackToFollow
<1>3. /\ nextIndex' \in [Nodes -> [Nodes -> Nat \ {0}]]
      /\ matchIndex' \in [Nodes -> [Nodes -> Nat]]
      /\ \A q \in Nodes \ {n} : nextIndex'[q] = nextIndex[q]
  BY DEF TypeOK, BackToFollow
<1> QED BY <1>1, <1>2, <1>3 DEF Still

-----------------------------------------------------------------------------
(***************************************************************************)
(* Logs that agree with the leaders'.                                      *)
(***************************************************************************)

\* What is sent under a log that agrees, agrees.
LEMMA SliceOfLog ==
    ASSUME NEW L, NEW g \in Seq(Entries), Agrees(g, L), NEW m \in AppendRequests,
           NEW k \in 1 .. Len(g) + 1, m.prev = k - 1, k > 1 => m.prevTerm = g[k - 1].term,
           m.entries = SubSeq(g, k, Len(g))
    PROVE  SliceAgrees(m, L) /\ m.prev + Len(m.entries) = Len(g)
<1>1. Len(g) \in Nat /\ DOMAIN g = 1 .. Len(g) /\ k \in Nat
  OBVIOUS
<1>2. \A i \in k .. Len(g) : g[i] \in Entries
  BY <1>1
<1>3. /\ m.entries \in Seq(Entries)
      /\ Len(m.entries) = Len(g) - k + 1
      /\ \A i \in 1 .. Len(m.entries) : m.entries[i] = g[m.prev + i]
  <2>1. /\ Len(SubSeq(g, k, Len(g))) = IF k <= Len(g) THEN Len(g) - k + 1 ELSE 0
        /\ \A i \in 1 .. Len(g) - k + 1 : SubSeq(g, k, Len(g))[i] = g[k + i - 1]
    BY <1>1, <1>2, SubSeqProperties
  <2>2. m.entries \in Seq(Entries)
    BY DEF AppendRequests
  <2>3. Len(m.entries) = Len(g) - k + 1
    BY <1>1, <2>1
  <2>4. ASSUME NEW i \in 1 .. Len(m.entries) PROVE m.entries[i] = g[m.prev + i]
    <3>1. i \in 1 .. Len(g) - k + 1 /\ m.prev + i = k + i - 1
      BY <1>1, <2>3
    <3> QED BY <2>1, <3>1
  <2> QED BY <2>2, <2>3, <2>4
<1>4. ASSUME m.prev > 0
      PROVE  /\ m.prevTerm \in Terms /\ elected[m.prevTerm] # {}
             /\ m.prev <= Len(L[m.prevTerm]) /\ \A j \in 1 .. m.prev : g[j] = L[m.prevTerm][j]
  <2>1. m.prev \in DOMAIN g /\ m.prevTerm = g[m.prev].term
    BY <1>1, <1>4
  <2> QED BY <2>1 DEF Agrees
<1>5. ASSUME NEW i \in DOMAIN m.entries, NEW t, t = m.entries[i].term
      PROVE  /\ t \in Terms /\ elected[t] # {} /\ m.prev + i <= Len(L[t])
             /\ \A j \in 1 .. m.prev : L[t][j] = L[m.prevTerm][j]
             /\ \A j \in 1 .. i : L[t][m.prev + j] = m.entries[j]
  <2>1. i \in 1 .. Len(m.entries) /\ m.prev \in Nat
    BY <1>1, <1>3
  <2>2. m.prev + i \in DOMAIN g /\ t = g[m.prev + i].term
    BY <1>1, <1>3, <1>5, <2>1
  <2>3. /\ t \in Terms /\ elected[t] # {} /\ m.prev + i <= Len(L[t])
        /\ \A j \in 1 .. m.prev + i : g[j] = L[t][j]
    BY <2>2 DEF Agrees
  <2>4. ASSUME NEW j \in 1 .. m.prev PROVE L[t][j] = L[m.prevTerm][j]
    BY <1>4, <2>1, <2>3
  <2>5. ASSUME NEW j \in 1 .. i PROVE L[t][m.prev + j] = m.entries[j]
    <3>1. j \in 1 .. Len(m.entries) /\ m.prev + j \in 1 .. m.prev + i
      BY <2>1
    <3> QED BY <1>3, <2>3, <3>1
  <2> QED BY <2>3, <2>4, <2>5
<1>6. m.prev + Len(m.entries) = Len(g)
  BY <1>1, <1>3
<1>7. ASSUME NEW i \in DOMAIN m.entries
      PROVE  LET t == m.entries[i].term
             IN /\ t \in Terms /\ elected[t] # {} /\ m.prev + i <= Len(L[t])
                /\ \A j \in 1 .. m.prev : L[t][j] = L[m.prevTerm][j]
                /\ \A j \in 1 .. i : L[t][m.prev + j] = m.entries[j]
  BY <1>5
<1> QED BY <1>4, <1>6, <1>7 DEF SliceAgrees

\* A log has, by their terms, all the entries e after b; or it has those before the k-th,
\* and h is the log with the rest of them in their places.
HasAll(g, b, e) == \A i \in 1 .. Len(e) : b + i <= Len(g) /\ g[b + i].term = e[i].term

Spliced(g, b, e, h, k) ==
    /\ k \in 1 .. Len(e) /\ b + k - 1 <= Len(g)
    /\ b + k > Len(g) \/ g[b + k].term # e[k].term
    /\ \A i \in 1 .. k - 1 : b + i <= Len(g) /\ g[b + i].term = e[i].term
    /\ Len(h) = b + Len(e)
    /\ \A i \in 1 .. b + k - 1 : h[i] = g[i]
    /\ \A i \in b + k .. b + Len(e) : h[i] = e[i - b]

LEMMA MergedIs ==
    ASSUME NEW g \in Seq(Entries), NEW b \in Nat, NEW e \in Seq(Entries), b <= Len(g)
    PROVE  /\ Merged(g, b, e) \in Seq(Entries)
           /\ \/ Merged(g, b, e) = g /\ HasAll(g, b, e)
              \/ \E k \in Nat : Spliced(g, b, e, Merged(g, b, e), k)
<1> DEFINE new == {i \in 1 .. Len(e) : b + i > Len(g) \/ g[b + i].term # e[i].term}
<1>1. /\ Len(e) \in Nat /\ Len(g) \in Nat
      /\ DOMAIN g = 1 .. Len(g) /\ DOMAIN e = 1 .. Len(e) /\ new \in SUBSET Nat
  OBVIOUS
<1>2. CASE new = {}
  <2>1. Merged(g, b, e) = g
    BY <1>2 DEF Merged
  <2>2. \A i \in 1 .. Len(e) : ~(b + i > Len(g)) /\ g[b + i].term = e[i].term
    BY <1>2
  <2>3. \A i \in 1 .. Len(e) : b + i <= Len(g) /\ g[b + i].term = e[i].term
    BY <1>1, <2>2
  <2> QED BY <2>1, <2>3 DEF HasAll
<1>3. CASE new # {}
  <2>1. PICK k : k \in Nat /\ k \in 1 .. Len(e) /\ k = Min(new) /\ \A q \in new : k <= q
    <3>1. Min(new) \in new /\ \A q \in new : Min(new) <= q
      BY <1>1, <1>3, MinIn
    <3>2. Min(new) \in Nat /\ Min(new) \in 1 .. Len(e)
      BY <1>1, <3>1
    <3> HIDE DEF new
    <3> QED BY <3>1, <3>2
  <2>2. ASSUME NEW i \in 1 .. k - 1 PROVE b + i <= Len(g) /\ g[b + i].term = e[i].term
    <3>1. i \in 1 .. Len(e) /\ ~(k <= i)
      BY <1>1, <2>1
    <3>2. i \notin new
      BY <2>1, <3>1
    <3>3. ~(b + i > Len(g)) /\ g[b + i].term = e[i].term
      BY <3>1, <3>2
    <3> QED BY <1>1, <3>1, <3>3
  <2>3. b + k - 1 \in Nat /\ b + k - 1 <= Len(g)
    <3>1. CASE k = 1
      BY <1>1, <3>1
    <3>2. CASE k > 1
      <4>1. k - 1 \in 1 .. k - 1
        BY <2>1, <3>2
      <4>2. b + (k - 1) <= Len(g)
        BY <2>2, <4>1
      <4> QED BY <1>1, <2>1, <4>2
    <3> QED BY <2>1, <3>1, <3>2
  <2>a. PICK c \in Nat : c = b + k - 1
    BY <2>3
  <2> DEFINE a == SubSeq(g, 1, c)
             z == SubSeq(e, k, Len(e))
             h == a \o z
  <2>4. /\ a \in Seq(Entries) /\ Len(a) = b + k - 1
        /\ \A i \in 1 .. b + k - 1 : a[i] = g[i]
    <3>1. \A i \in 1 .. c : g[i] \in Entries
      BY <1>1, <2>3, <2>a
    <3>2. /\ a \in Seq(Entries)
          /\ Len(a) = IF 1 <= c THEN c - 1 + 1 ELSE 0
          /\ \A i \in 1 .. c - 1 + 1 : a[i] = g[1 + i - 1]
      BY <3>1, SubSeqProperties
    <3> QED BY <2>a, <3>2
  <2>5. /\ z \in Seq(Entries) /\ Len(z) = Len(e) - k + 1
        /\ \A i \in 1 .. Len(e) - k + 1 : z[i] = e[k + i - 1]
    <3>0. k \in Int /\ Len(e) \in Int
      BY <1>1, <2>1
    <3>1. \A i \in k .. Len(e) : e[i] \in Entries
      BY <1>1, <2>1
    <3>2. /\ z \in Seq(Entries)
          /\ Len(z) = IF k <= Len(e) THEN Len(e) - k + 1 ELSE 0
          /\ \A i \in 1 .. Len(e) - k + 1 : z[i] = e[k + i - 1]
      BY <3>0, <3>1, SubSeqProperties
    <3>3. k <= Len(e)
      BY <1>1, <2>1
    <3> QED BY <3>2, <3>3
  <2>b. /\ Len(a) = b + k - 1 /\ Len(z) = Len(e) - k + 1
        /\ b \in Nat /\ k \in Nat /\ Len(e) \in Nat /\ 1 <= k /\ k <= Len(e)
    BY <1>1, <2>1, <2>4, <2>5
  <2>6. Merged(g, b, e) = h
    BY <1>3, <2>1, <2>a DEF Merged
  <2> HIDE DEF a, z
  <2>7. /\ h \in Seq(Entries) /\ Len(h) = b + Len(e)
        /\ \A i \in 1 .. Len(a) + Len(z) : h[i] = IF i <= Len(a) THEN a[i] ELSE z[i - Len(a)]
    <3>1. h \in Seq(Entries) /\ Len(h) = Len(a) + Len(z)
      BY <2>4, <2>5, ConcatProperties
    <3>2. \A i \in 1 .. Len(a) + Len(z) : h[i] = IF i <= Len(a) THEN a[i] ELSE z[i - Len(a)]
      BY <2>4, <2>5, ConcatProperties
    <3>3. Len(a) + Len(z) = b + Len(e)
      BY <2>b
    <3> QED BY <3>1, <3>2, <3>3
  <2> HIDE DEF h
  <2>8. ASSUME NEW i \in 1 .. b + k - 1 PROVE h[i] = g[i]
    <3>1. i \in 1 .. Len(a) + Len(z) /\ i <= Len(a)
      BY <2>b
    <3> QED BY <2>4, <2>7, <3>1
  <2>9. ASSUME NEW i \in b + k .. b + Len(e) PROVE h[i] = e[i - b]
    <3>1. i \in 1 .. Len(a) + Len(z) /\ ~(i <= Len(a))
      BY <2>b
    <3>2. i - Len(a) \in 1 .. Len(e) - k + 1 /\ k + (i - Len(a)) - 1 = i - b
      BY <2>b
    <3> QED BY <2>5, <2>7, <3>1, <3>2
  <2>10. b + k > Len(g) \/ g[b + k].term # e[k].term
    <3>1. k \in new
      BY <1>1, <1>3, <2>1, MinIn
    <3> QED BY <3>1
  <2>11. Spliced(g, b, e, h, k)
    BY <2>1, <2>2, <2>3, <2>7, <2>8, <2>9, <2>10 DEF Spliced
  <2> QED BY <2>1, <2>6, <2>7, <2>11
<1> QED BY <1>2, <1>3

\* A log that agrees still does when a slice that does is merged into it.
LEMMA MergedAgrees ==
    ASSUME NEW L, NEW g \in Seq(Entries), Agrees(g, L), NEW m \in AppendRequests,
           SliceAgrees(m, L), m.prev <= Len(g), m.prev > 0 => g[m.prev].term = m.prevTerm
    PROVE  /\ Merged(g, m.prev, m.entries) \in Seq(Entries)
           /\ Agrees(Merged(g, m.prev, m.entries), L)
<1>0. PICK e, b, h : e = m.entries /\ b = m.prev /\ h = Merged(g, b, e)
  OBVIOUS
<1>1. /\ e \in Seq(Entries) /\ Len(e) \in Nat /\ b \in Nat /\ Len(g) \in Nat
      /\ DOMAIN g = 1 .. Len(g) /\ DOMAIN e = 1 .. Len(e)
  BY <1>0 DEF AppendRequests
<1>2. h \in Seq(Entries) /\ (h = g \/ \E k \in Nat : Spliced(g, b, e, h, k))
  BY <1>0, <1>1, MergedIs
<1>3. ASSUME NEW k \in Nat, Spliced(g, b, e, h, k)
      PROVE  Agrees(h, L)
  <2>1. k \in Nat /\ k \in 1 .. Len(e)
    BY <1>3 DEF Spliced
  <2>2. \A i \in 1 .. k - 1 : b + i <= Len(g) /\ g[b + i].term = e[i].term
    BY <1>3 DEF Spliced
  <2>3. b + k - 1 \in Nat /\ b + k - 1 <= Len(g)
    BY <1>1, <1>3, <2>1 DEF Spliced
  <2>7. h \in Seq(Entries) /\ Len(h) = b + Len(e)
    BY <1>2, <1>3 DEF Spliced
  <2>8. \A i \in 1 .. b + k - 1 : h[i] = g[i]
    BY <1>3 DEF Spliced
  <2>9. \A i \in b + k .. b + Len(e) : h[i] = e[i - b]
    BY <1>3 DEF Spliced
  <2>10. ASSUME NEW i \in 1 .. Len(e), NEW t, t = e[i].term
         PROVE  /\ t \in Terms /\ elected[t] # {} /\ b + i <= Len(L[t])
                /\ \A j \in 1 .. b : L[t][j] = L[m.prevTerm][j]
                /\ \A j \in 1 .. i : L[t][b + j] = e[j]
    BY <1>0, <1>1, <2>10 DEF SliceAgrees
  <2>11. ASSUME NEW i \in DOMAIN g, NEW t, t = g[i].term
         PROVE  /\ t \in Terms /\ elected[t] # {} /\ i <= Len(L[t])
                /\ \A j \in 1 .. i : g[j] = L[t][j]
    BY <2>11 DEF Agrees
  <2>12. ASSUME NEW i \in DOMAIN h, NEW t, t = h[i].term
         PROVE  /\ t \in Terms /\ elected[t] # {} /\ i <= Len(L[t])
                /\ \A j \in 1 .. i : h[j] = L[t][j]
    <3>1. i \in 1 .. b + Len(e)
      BY <1>1, <2>7
    <3>2. CASE i <= b + k - 1
      <4>1. i \in DOMAIN g /\ h[i] = g[i] /\ \A j \in 1 .. i : h[j] = g[j]
        BY <1>1, <2>1, <2>3, <2>8, <3>1, <3>2
      <4> QED BY <2>11, <2>12, <4>1
    <3>3. CASE i > b + k - 1
      <4>0. i \in b + k .. b + Len(e) /\ i - b \in 1 .. Len(e) /\ b + (i - b) = i
        BY <1>1, <2>1, <3>1, <3>3
      <4>1. i - b \in 1 .. Len(e) /\ b + (i - b) = i /\ h[i] = e[i - b]
        BY <2>9, <4>0
      <4>2. /\ t \in Terms /\ elected[t] # {} /\ i <= Len(L[t])
            /\ \A j \in 1 .. b : L[t][j] = L[m.prevTerm][j]
            /\ \A j \in 1 .. i - b : L[t][b + j] = e[j]
        BY <2>10, <2>12, <4>1
      <4>3. ASSUME NEW j \in 1 .. i PROVE h[j] = L[t][j]
        <5>1. CASE j <= b
          <6>1. b > 0 /\ b \in DOMAIN g /\ m.prevTerm = g[b].term /\ j \in 1 .. b
            BY <1>0, <1>1, <5>1
          <6>2. g[j] = L[m.prevTerm][j]
            BY <2>11, <6>1
          <6>3. h[j] = g[j]
            BY <1>1, <2>1, <2>8, <6>1
          <6> QED BY <4>2, <6>1, <6>2, <6>3
        <5>2. CASE j > b /\ j <= b + k - 1
          <6>1. /\ j - b \in 1 .. k - 1 /\ j - b \in 1 .. i - b /\ j - b \in 1 .. Len(e)
                /\ b + (j - b) = j /\ j \in 1 .. b + k - 1
            BY <1>1, <2>1, <4>1, <5>2
          <6>2. j \in DOMAIN g /\ g[j].term = e[j - b].term
            BY <1>1, <2>2, <6>1
          <6>3. j \in 1 .. j /\ j - b \in 1 .. j - b
            BY <1>1, <5>2
          <6>4. g[j] = L[e[j - b].term][j]
            BY <2>11, <6>2, <6>3
          <6>5. L[e[j - b].term][j] = e[j - b]
            BY <2>10, <6>1, <6>3
          <6>6. L[t][j] = e[j - b]
            BY <4>2, <6>1
          <6> QED BY <2>8, <6>1, <6>4, <6>5, <6>6
        <5>3. CASE j > b + k - 1
          <6>1. j \in b + k .. b + Len(e) /\ j - b \in 1 .. i - b /\ b + (j - b) = j
            BY <1>1, <2>1, <3>1, <5>3
          <6> QED BY <2>9, <4>2, <6>1
        <5> QED BY <1>1, <2>1, <5>1, <5>2, <5>3
      <4> QED BY <4>2, <4>3
    <3> QED BY <1>1, <2>1, <3>1, <3>2, <3>3
  <2>13. Agrees(h, L)
    BY <2>12 DEF Agrees
  <2> QED BY <2>13
<1> QED BY <1>0, <1>2, <1>3

LEMMA AgreesStill ==
    ASSUME NEW L \in [Terms -> Seq(Entries)], NEW M \in [Terms -> Seq(Entries)], Extends(L, M),
           NEW g \in Seq(Entries), Agrees(g, L)
    PROVE  Agrees(g, M)'
<1>1. SUFFICES ASSUME NEW i \in DOMAIN g
               PROVE  LET t == g[i].term
                      IN /\ t \in Terms /\ elected'[t] # {}
                         /\ i <= Len(M[t]) /\ \A j \in 1 .. i : g[j] = M[t][j]
  BY DEF Agrees
<1>2. PICK t : t = g[i].term
  OBVIOUS
<1>3. t \in Terms /\ elected[t] # {} /\ i <= Len(L[t]) /\ \A j \in 1 .. i : g[j] = L[t][j]
  BY <1>2 DEF Agrees
<1>4. /\ elected'[t] # {} /\ Len(L[t]) <= Len(M[t])
      /\ \A j \in 1 .. Len(L[t]) : M[t][j] = L[t][j]
  BY <1>3 DEF Extends
<1>5. i \in Nat /\ Len(L[t]) \in Nat /\ Len(M[t]) \in Nat
  BY <1>3
<1>6. i <= Len(M[t]) /\ \A j \in 1 .. i : j \in 1 .. Len(L[t])
  BY <1>3, <1>4, <1>5
<1> QED BY <1>2, <1>3, <1>4, <1>6

LEMMA SliceAgreesStill ==
    ASSUME NEW L \in [Terms -> Seq(Entries)], NEW M \in [Terms -> Seq(Entries)], Extends(L, M),
           NEW m \in AppendRequests, SliceAgrees(m, L)
    PROVE  SliceAgrees(m, M)'
<1>1. m.prev \in Nat /\ m.entries \in Seq(Entries)
  BY DEF AppendRequests
<1>2. ASSUME NEW t \in Terms, elected[t] # {}
      PROVE  /\ elected'[t] # {} /\ Len(L[t]) <= Len(M[t])
             /\ \A j \in 1 .. Len(L[t]) : M[t][j] = L[t][j]
             /\ Len(L[t]) \in Nat /\ Len(M[t]) \in Nat
  BY <1>2 DEF Extends
<1>3. ASSUME m.prev > 0
      PROVE  /\ m.prevTerm \in Terms /\ elected'[m.prevTerm] # {} /\ m.prev <= Len(M[m.prevTerm])
             /\ \A j \in 1 .. m.prev : M[m.prevTerm][j] = L[m.prevTerm][j]
  <2>1. m.prevTerm \in Terms /\ elected[m.prevTerm] # {} /\ m.prev <= Len(L[m.prevTerm])
    BY <1>3 DEF SliceAgrees
  <2>2. Len(L[m.prevTerm]) <= Len(M[m.prevTerm]) /\ elected'[m.prevTerm] # {}
    BY <1>2, <2>1
  <2>3. m.prev <= Len(M[m.prevTerm])
    BY <1>1, <1>2, <2>1, <2>2
  <2>4. \A j \in 1 .. m.prev : j \in 1 .. Len(L[m.prevTerm])
    BY <1>1, <1>2, <2>1
  <2> QED BY <1>2, <2>1, <2>2, <2>3, <2>4
<1>4. ASSUME NEW i \in DOMAIN m.entries
      PROVE  LET t == m.entries[i].term
             IN /\ t \in Terms /\ elected'[t] # {} /\ m.prev + i <= Len(M[t])
                /\ \A j \in 1 .. m.prev : M[t][j] = M[m.prevTerm][j]
                /\ \A j \in 1 .. i : M[t][m.prev + j] = m.entries[j]
  <2>1. PICK t : t = m.entries[i].term
    OBVIOUS
  <2>2. /\ t \in Terms /\ elected[t] # {} /\ m.prev + i <= Len(L[t])
        /\ \A j \in 1 .. m.prev : L[t][j] = L[m.prevTerm][j]
        /\ \A j \in 1 .. i : L[t][m.prev + j] = m.entries[j]
    BY <2>1 DEF SliceAgrees
  <2>3. /\ elected'[t] # {} /\ Len(L[t]) <= Len(M[t])
        /\ \A j \in 1 .. Len(L[t]) : M[t][j] = L[t][j]
        /\ Len(L[t]) \in Nat /\ Len(M[t]) \in Nat /\ i \in Nat
    <3>1. i \in Nat
      BY <1>1
    <3> QED BY <1>2, <2>2, <3>1
  <2>4. m.prev + i <= Len(M[t])
    BY <1>1, <2>2, <2>3
  <2>5. ASSUME NEW j \in 1 .. m.prev PROVE M[t][j] = M[m.prevTerm][j]
    <3>1. j \in 1 .. Len(L[t]) /\ m.prev > 0
      BY <1>1, <2>2, <2>3
    <3> QED BY <1>3, <2>2, <2>3, <3>1
  <2>6. ASSUME NEW j \in 1 .. i PROVE M[t][m.prev + j] = m.entries[j]
    <3>1. m.prev + j \in 1 .. Len(L[t])
      BY <1>1, <2>2, <2>3
    <3> QED BY <2>2, <2>3, <3>1
  <2> QED BY <2>1, <2>2, <2>3, <2>4, <2>5, <2>6
<1> QED BY <1>3, <1>4 DEF SliceAgrees

\* A new append carries the end of its sender's log.
SendsOwn(n) ==
    \A p \in Nodes :
        call'[n][p].st = "asked" /\ call'[n][p].req.op = "append" =>
            \/ call'[n][p] = call[n][p]
            \/ \E k \in 1 .. Len(node[n].log) + 1 : call'[n][p].req = AppendRequest(n, p, k)

\* A request of that form agrees, and ends where the log does.
OwnRequest(n, p, m) ==
    /\ m \in AppendRequests /\ m.op = "append"
    /\ m.from = n /\ m.to = p /\ m.term = mine[n]
    /\ m.prev + Len(m.entries) = Len(node[n].log)

LEMMA OwnSliceAgrees ==
    ASSUME TypeOK, NEW n \in Nodes, NEW p \in Nodes, NEW L, Agrees(node[n].log, L),
           NEW k \in 1 .. Len(node[n].log) + 1, NEW m, m = AppendRequest(n, p, k)
    PROVE  OwnRequest(n, p, m) /\ SliceAgrees(m, L)
<1>1. node[n] \in NodeRecords /\ mine[n] \in Nat
  BY DEF TypeOK
<1>2. PICK g \in Seq(Entries) : g = node[n].log
  BY <1>1 DEF NodeRecords
<1>3. node[n].commit \in Nat
  BY <1>1 DEF NodeRecords
<1>4. k \in Nat /\ k - 1 \in Nat /\ Len(g) \in Nat
  BY <1>2
<1>5. k > 1 => g[k - 1] \in Entries
  BY <1>2, <1>4
<1>6. k > 1 => g[k - 1].term \in Nat
  BY <1>5 DEF Entries
<1>7. SubSeq(g, k, Len(g)) \in Seq(Entries)
  <2>1. \A i \in k .. Len(g) : g[i] \in Entries
    BY <1>4
  <2> QED BY <1>4, <2>1, SubSeqProperties
<1>8. PICK pt \in Nat : pt = IF k > 1 THEN g[k - 1].term ELSE 0
  BY <1>6
<1>9. m = [op |-> "append", from |-> n, to |-> p, term |-> mine[n], prev |-> k - 1,
           prevTerm |-> pt, entries |-> SubSeq(g, k, Len(g)), commit |-> node[n].commit]
  BY <1>2, <1>8, Zenon DEF AppendRequest
<1>10. m \in AppendRequests
  BY <1>1, <1>3, <1>4, <1>7, <1>9 DEF AppendRequests
<1>11. /\ m.from = n /\ m.to = p /\ m.term = mine[n] /\ m.op = "append"
       /\ m.prev = k - 1 /\ m.prevTerm = pt /\ m.entries = SubSeq(g, k, Len(g))
  BY <1>9
<1>12. k > 1 => m.prevTerm = g[k - 1].term
  BY <1>8, <1>11
<1>13. k \in 1 .. Len(g) + 1 /\ Agrees(g, L)
  BY <1>2
<1>14. SliceAgrees(m, L) /\ m.prev + Len(m.entries) = Len(g)
  BY <1>10, <1>11, <1>12, <1>13, SliceOfLog
<1>15. OwnRequest(n, p, m)
  BY <1>2, <1>10, <1>11, <1>14 DEF OwnRequest
<1> QED BY <1>14, <1>15

\* What a step must show for the logs to agree after it.
LEMMA LogsCarry ==
    ASSUME TypeOK, TypeOK',
           NEW L \in [Terms -> Seq(Entries)], NEW M \in [Terms -> Seq(Entries)], Extends(L, M),
           LogsAgree(L), LateMoves,
           \A q \in Nodes : Agrees(node[q].log, M)',
           \A q \in Nodes : node'[q].role = "leader" => node'[q].log = M[node'[q].term],
           \A q \in Nodes : SendsOwn(q)
    PROVE  LogsAgree(M)'
<1>1. ASSUME NEW m \in late', m.op = "append" PROVE SliceAgrees(m, M)'
  <2>1. m \in AppendRequests
    BY <1>1, RequestShapes DEF TypeOK
  <2>2. SliceAgrees(m, L)
    BY <1>1 DEF LateMoves, LogsAgree
  <2> QED BY <2>1, <2>2, SliceAgreesStill
<1>2. ASSUME NEW n \in Nodes, NEW p \in Nodes, NEW m, m = call'[n][p].req,
             call'[n][p].st = "asked", m.op = "append"
      PROVE  SliceAgrees(m, M)'
  <2>1. call'[n][p] \in Calls
    BY DEF TypeOK
  <2>2. m \in AppendRequests
    BY <1>2, <2>1, CallShapes, RequestShapes
  <2>3. CASE call'[n][p] = call[n][p]
    <3>1. SliceAgrees(m, L)
      BY <1>2, <2>3 DEF LogsAgree
    <3> QED BY <2>2, <3>1, SliceAgreesStill
  <2>4. CASE \E k \in 1 .. Len(node[n].log) + 1 : m = AppendRequest(n, p, k)
    <3>1. Agrees(node[n].log, L)
      BY DEF LogsAgree
    <3>2. SliceAgrees(m, L)
      BY <2>4, <3>1, OwnSliceAgrees
    <3> QED BY <2>2, <3>2, SliceAgreesStill
  <2> QED BY <1>2, <2>3, <2>4 DEF SendsOwn
<1> QED BY <1>1, <1>2 DEF LogsAgree

\* A step that changes no log.
LogsKept ==
    /\ \A q \in Nodes : /\ node'[q].log = node[q].log
                        /\ node'[q].role = "leader" =>
                              node[q].role = "leader" /\ node'[q].term = node[q].term
    /\ \A q \in Nodes : SendsOwn(q)
    /\ elected' = elected

LEMMA QuietLogs ==
    ASSUME TypeOK, TypeOK', LogsKept, LateMoves, \A q \in Nodes : OfficeFits(q)'
    PROVE  LogStep
<1> SUFFICES ASSUME NEW L \in [Terms -> Seq(Entries)], LogsAgree(L)
             PROVE  \E M \in [Terms -> Seq(Entries)] :
                        Extends(L, M) /\ Grown(L, M) /\ LogsAgree(M)'
  BY DEF LogStep
<1>1. LogsAgree(L)
  OBVIOUS
<1>2. Extends(L, L)
  <2>1. \A t \in Terms : L[t] \in Seq(Entries)
    OBVIOUS
  <2> QED BY <2>1 DEF Extends, LogsKept
<1>3. ASSUME NEW q \in Nodes PROVE Agrees(node[q].log, L)'
  <2>1. PICK g \in Seq(Entries) : g = node[q].log /\ g = node'[q].log
    <3>1. node[q] \in NodeRecords
      BY DEF TypeOK
    <3> QED BY <3>1 DEF LogsKept, NodeRecords
  <2>2. Agrees(g, L)
    BY <1>1, <2>1 DEF LogsAgree
  <2>3. Agrees(g, L)'
    BY <1>2, <2>2, AgreesStill
  <2> QED BY <2>1, <2>3
<1>4. \A q \in Nodes : node'[q].role = "leader" => node'[q].log = L[node'[q].term]
  BY <1>1 DEF LogsAgree, LogsKept
<1>5. LogsAgree(L)'
  BY <1>1, <1>2, <1>3, <1>4, LogsCarry DEF LogsKept
<1> QED BY <1>2, <1>5 DEF Grown

-----------------------------------------------------------------------------
(***************************************************************************)
(* Elections are won by one node.                                          *)
(***************************************************************************)

LEMMA MajoritiesMeet ==
    ASSUME NEW Q \in SUBSET Nodes, NEW R \in SUBSET Nodes,
           Cardinality(Q) >= Quorum, Cardinality(R) >= Quorum
    PROVE  \E p \in Nodes : p \in Q /\ p \in R
<1>1. IsFiniteSet(Nodes)
  BY RaftAssumption
<1>2. Cardinality(Nodes) \in Nat /\ Cardinality(Q) \in Nat /\ Cardinality(R) \in Nat
  BY <1>1, FS_Subset, FS_CardinalityType
<1>3. Cardinality(Q) + Cardinality(R) > Cardinality(Nodes)
  BY <1>2 DEF Quorum
<1>4. Q \cap R # {}
  BY <1>1, <1>3, FS_MajoritiesIntersect
<1> QED BY <1>4

LEMMA OneLeader ==
    ASSUME TypeOK, BallotInv, NEW t \in Terms, NEW n \in elected[t], NEW q \in elected[t]
    PROVE  n = q
<1>1. PICK B \in SUBSET (Nodes \X Nat \X Nodes) : BallotsFair(B) /\ LeadersElected(B)
  BY DEF BallotInv, Ballots
<1>2. PICK Q \in SUBSET Nodes : Cardinality(Q) >= Quorum /\ \A p \in Q : <<p, t, n>> \in B
  BY <1>1 DEF LeadersElected
<1>3. PICK R \in SUBSET Nodes : Cardinality(R) >= Quorum /\ \A p \in R : <<p, t, q>> \in B
  BY <1>1 DEF LeadersElected
<1>4. PICK p \in Nodes : p \in Q /\ p \in R
  BY <1>2, <1>3, MajoritiesMeet
<1>5. n \in Nodes /\ q \in Nodes /\ t \in Nat
  BY TermsAreNumbers DEF TypeOK
<1> QED BY <1>1, <1>2, <1>3, <1>4, <1>5 DEF BallotsFair

\* Who wins a term wins it from the voters, and is the first to.
LEMMA WinnerIsFirst ==
    ASSUME TypeOK, TaskInv, BallotInv, NEW n \in Nodes, doing[n] = "campaign",
           granted[n] >= Quorum, node[n].role = "candidate", node[n].term = mine[n]
    PROVE  mine[n] \in Terms /\ elected[mine[n]] = {}
<1>1. mine[n] \in Terms /\ mine[n] \in Nat
  BY TermsAreNumbers DEF TaskInv, TaskFits
<1>2. SUFFICES ASSUME NEW q \in elected[mine[n]] PROVE FALSE
  BY <1>1
<1>3. PICK B \in SUBSET (Nodes \X Nat \X Nodes) :
         BallotsFair(B) /\ LeadersElected(B) /\ VotesCounted(B)
  BY DEF BallotInv, Ballots
<1>4. PICK Q \in SUBSET Nodes : Cardinality(Q) >= Quorum /\ \A p \in Q : <<p, mine[n], q>> \in B
  BY <1>1, <1>3 DEF LeadersElected
<1>5. PICK C \in SUBSET Nodes : granted[n] <= Cardinality(C) /\ \A p \in C : <<p, mine[n], n>> \in B
  BY <1>3 DEF VotesCounted
<1>6. Cardinality(C) >= Quorum
  <2>1. Cardinality(C) \in Nat /\ Cardinality(Nodes) \in Nat
    BY RaftAssumption, FS_Subset, FS_CardinalityType
  <2>2. granted[n] \in Nat
    BY DEF TypeOK
  <2> QED BY <1>5, <2>1, <2>2 DEF Quorum
<1>7. PICK p \in Nodes : p \in Q /\ p \in C
  BY <1>4, <1>6, MajoritiesMeet
<1>8. q \in Nodes
  BY <1>1, <1>2 DEF TypeOK
<1>9. q = n
  BY <1>1, <1>3, <1>4, <1>5, <1>7, <1>8 DEF BallotsFair
<1> QED BY <1>1, <1>2, <1>9 DEF TaskInv, ElectedOnce

LEMMA BecomeLeaderIs ==
    ASSUME TypeOK, TaskInv, BallotInv, NEW n \in Nodes, BecomeLeader(n)
    PROVE  /\ TypeOK' /\ LateMoves
           /\ \A q \in Nodes \ {n} : node'[q] = node[q] /\ Still(q) /\ nextIndex'[q] = nextIndex[q]
           /\ node'[n].term = node[n].term /\ node'[n].vote = node[n].vote
           /\ node'[n].role = "leader" /\ node'[n].commit = node[n].commit
           /\ node'[n].log = Append(node[n].log, Entry(node[n].term, Noop))
           /\ doing'[n] = "lead" /\ mine'[n] = mine[n] /\ mine[n] = node[n].term
           /\ \A p \in Nodes : /\ call'[n][p] \in {Idle, Over}
                               /\ nextIndex'[n][p] = Len(node[n].log) + 1
           /\ call'[n][n] = Over
           /\ mine[n] \in Terms /\ elected[mine[n]] = {}
           /\ elected' = [elected EXCEPT ![mine[n]] = {n}]
<1>1. node[n] \in NodeRecords
  BY DEF TypeOK
<1>2. node[n].term \in Nat /\ node[n].log \in Seq(Entries)
  BY <1>1 DEF NodeRecords
<1>3. Entry(node[n].term, Noop) \in Entries
  BY <1>2 DEF Entry, Entries
<1>4. PICK g \in Seq(Entries) : g = Append(node[n].log, Entry(node[n].term, Noop))
  BY <1>2, <1>3, AppendProperties
<1> DEFINE s == [node[n] EXCEPT !.role = "leader", !.log = g]
<1>5. /\ s \in NodeRecords /\ s.term = node[n].term /\ s.vote = node[n].vote
      /\ s.role = "leader" /\ s.log = g /\ s.commit = node[n].commit
  BY <1>1, Zenon DEF NodeRecords
<1>6. node' = [node EXCEPT ![n] = s]
  BY <1>1, <1>4, Zenon DEF BecomeLeader, TypeOK, NodeRecords, leader_noop
<1> HIDE DEF s
<1>7. /\ node' \in [Nodes -> NodeRecords] /\ node'[n] = s
      /\ \A q \in Nodes \ {n} : node'[q] = node[q]
  BY <1>5, <1>6, NodeSet
<1>8. disk' = [disk EXCEPT ![n] = <<State(node'[n])>>]
  BY SavedIs, Zenon DEF BecomeLeader, Persist
<1>9. disk' = [q \in Nodes |-> <<State(node'[q])>>]
  BY <1>7, <1>8, DiskFollows
<1>10. /\ doing[n] = "campaign" /\ granted[n] >= Quorum
       /\ node[n].role = "candidate" /\ node[n].term = mine[n]
       /\ nextIndex' = [nextIndex EXCEPT ![n] = [p \in Nodes |-> Len(node[n].log) + 1]]
       /\ matchIndex' = [matchIndex EXCEPT ![n] = [p \in Nodes |-> 0]]
       /\ doing' = [doing EXCEPT ![n] = "lead"]
       /\ call' = [call EXCEPT ![n] = [p \in Nodes |-> IF p = n THEN Over ELSE Idle]]
       /\ Abandon(n, Peers(n))
       /\ granted' = [granted EXCEPT ![n] = 0]
       /\ mine' = mine
       /\ elected' = [elected EXCEPT ![node[n].term] = @ \cup {n}]
  BY Zenon DEF BecomeLeader
<1>11. mine[n] \in Terms /\ elected[mine[n]] = {}
  BY <1>10, WinnerIsFirst
<1>12. elected \in [Terms -> SUBSET Nodes]
  BY DEF TypeOK
<1>13. elected' = [elected EXCEPT ![mine[n]] = {n}] /\ elected' \in [Terms -> SUBSET Nodes]
  BY <1>10, <1>11, <1>12
<1>14. Peers(n) \in SUBSET Nodes
  BY DEF Peers
<1>15. LateMoves /\ late' \subseteq Requests /\ env' \in [log : Nat, open : Nat, faults : Nat]
  BY <1>10, <1>14, AbandonIs
<1>16. /\ call' \in [Nodes -> [Nodes -> Calls]] /\ \A q \in Nodes \ {n} : call'[q] = call[q]
       /\ \A p \in Nodes : call'[n][p] \in {Idle, Over}
       /\ call'[n][n] = Over
  BY <1>10, ConstantCalls DEF TypeOK
<1>17. /\ doing' \in [Nodes -> {"follow", "campaign", "lead"}] /\ doing'[n] = "lead"
       /\ granted' \in [Nodes -> Nat] /\ mine' \in [Nodes -> Nat]
       /\ \A q \in Nodes \ {n} : doing'[q] = doing[q] /\ granted'[q] = granted[q] /\ mine'[q] = mine[q]
  BY <1>10 DEF TypeOK
<1>18. /\ nextIndex' \in [Nodes -> [Nodes -> Nat \ {0}]]
       /\ \A q \in Nodes \ {n} : nextIndex'[q] = nextIndex[q]
       /\ \A p \in Nodes : nextIndex'[n][p] = Len(node[n].log) + 1
  <2>1. PICK k \in Nat \ {0} : k = Len(node[n].log) + 1
    BY <1>2
  <2>2. nextIndex' = [nextIndex EXCEPT ![n] = [p \in Nodes |-> k]]
    BY <1>10, <2>1, Zenon
  <2> QED BY <2>1, <2>2 DEF TypeOK
<1>19. matchIndex' \in [Nodes -> [Nodes -> Nat]]
  BY <1>10 DEF TypeOK
<1>20. TypeOK'
  BY <1>7, <1>9, <1>13, <1>15, <1>16, <1>17, <1>18, <1>19 DEF TypeOK
<1>21. \A q \in Nodes \ {n} : Still(q)
  BY <1>16, <1>17 DEF Still
<1> QED BY <1>4, <1>5, <1>7, <1>10, <1>11, <1>13, <1>15, <1>16, <1>17, <1>18, <1>20, <1>21

LEMMA BecomeLeaderKeepsTasks ==
    ASSUME TypeOK, TaskInv, BallotInv, NEW n \in Nodes, BecomeLeader(n)
    PROVE  TaskInv'
<1>0. \A q \in Nodes : node[q].term \in Nat /\ mine[q] \in Nat
  <2>1. \A q \in Nodes : node[q] \in NodeRecords /\ mine[q] \in Nat
    BY DEF TypeOK
  <2> QED BY <2>1 DEF NodeRecords
<1>1. /\ \A q \in Nodes \ {n} : node'[q] = node[q] /\ Still(q)
      /\ node'[n].term = node[n].term /\ node'[n].role = "leader"
      /\ doing'[n] = "lead" /\ mine'[n] = mine[n] /\ mine[n] = node[n].term
      /\ \A p \in Nodes : call'[n][p] \in {Idle, Over}
      /\ call'[n][n] = Over /\ mine[n] \in Terms /\ LateMoves
  BY BecomeLeaderIs
<1>2. elected[mine[n]] = {} /\ elected' = [elected EXCEPT ![mine[n]] = {n}]
  BY BecomeLeaderIs
<1>3. elected'[mine[n]] = {n} /\ \A t \in Terms \ {mine[n]} : elected'[t] = elected[t]
  BY <1>1, <1>2 DEF TypeOK
<1>4. \A t \in Terms : elected[t] \subseteq elected'[t]
  BY <1>2, <1>3
<1>5. ASSUME NEW q \in Nodes PROVE TaskFits(q)'
  <2>1. CASE q = n
    <3>1. \A p \in Nodes : call'[n][p].st # "asked"
      BY <1>1, ConstantCalls
    <3> QED BY <1>0, <1>1, <1>3, <2>1, <3>1 DEF TaskFits
  <2>2. CASE q # n
    <3>1. TaskFits(q)
      BY DEF TaskInv
    <3>2. node'[q] = node[q] /\ doing'[q] = doing[q] /\ mine'[q] = mine[q] /\ call'[q] = call[q]
      BY <1>1, <2>2 DEF Still
    <3> QED BY <1>4, <3>1, <3>2 DEF TaskFits
  <2> QED BY <2>1, <2>2
<1>6. ElectedOnce'
  <2>1. SUFFICES ASSUME NEW t \in Terms, NEW q \in elected'[t]
                 PROVE  t <= node'[q].term /\ (t = node'[q].term => node'[q].role # "candidate")
    BY DEF ElectedOnce
  <2>2. CASE q = n
    <3>1. CASE t = mine[n]
      BY <1>0, <1>1, <2>2, <3>1
    <3>2. CASE t # mine[n]
      <4>1. n \in elected[t]
        BY <1>3, <2>1, <2>2, <3>2
      <4>2. t <= node[n].term
        BY <4>1 DEF TaskInv, ElectedOnce
      <4> QED BY <1>1, <2>2, <4>2
    <3> QED BY <3>1, <3>2
  <2>3. CASE q # n
    <3>1. q \in elected[t]
      BY <1>3, <2>1, <2>3
    <3>2. q \in Nodes
      BY <3>1 DEF TypeOK
    <3> QED BY <1>1, <2>3, <3>1, <3>2 DEF TaskInv, ElectedOnce
  <2> QED BY <2>2, <2>3
<1>7. SentByLeaders'
  <2>1. \A m : FromLeader(m) => FromLeader(m)'
    BY <1>4 DEF FromLeader
  <2>2. \A m \in late' : FromLeader(m)
    BY <1>1 DEF TaskInv, SentByLeaders, LateMoves
  <2>3. ASSUME NEW q \in Nodes, NEW p \in Nodes, call'[q][p].st = "asked"
        PROVE  FromLeader(call'[q][p].req)
    <3>1. q # n
      BY <1>1, <2>3, ConstantCalls
    <3>2. call'[q] = call[q]
      BY <1>1, <3>1 DEF Still
    <3> QED BY <2>3, <3>2 DEF TaskInv, SentByLeaders
  <2> QED BY <2>1, <2>2, <2>3 DEF SentByLeaders
<1> QED BY <1>5, <1>6, <1>7 DEF TaskInv

LEMMA BecomeLeaderKeepsBallots ==
    ASSUME TypeOK, TaskInv, BallotInv, NEW n \in Nodes, BecomeLeader(n)
    PROVE  BallotStep
<1> SUFFICES ASSUME NEW B \in SUBSET (Nodes \X Nat \X Nodes), Ballots(B)
             PROVE  \E D \in SUBSET (Nodes \X Nat \X Nodes) : D = B \cup Votes' /\ Ballots(D)'
  BY DEF BallotStep
<1>0. TypeOK' /\ \A q \in Nodes : node[q].term \in Nat
  <2>1. \A q \in Nodes : node[q] \in NodeRecords
    BY DEF TypeOK
  <2> QED BY <2>1, BecomeLeaderIs DEF NodeRecords
<1>1. /\ \A q \in Nodes \ {n} : node'[q] = node[q] /\ Still(q)
      /\ node'[n].term = node[n].term /\ node'[n].vote = node[n].vote
      /\ doing'[n] = "lead" /\ mine[n] \in Terms
      /\ elected' = [elected EXCEPT ![mine[n]] = {n}]
  BY BecomeLeaderIs
<1>2. elected'[mine[n]] = {n} /\ \A t \in Terms \ {mine[n]} : elected'[t] = elected[t]
  BY <1>1 DEF TypeOK
<1>3. BallotsFair(B) /\ LeadersElected(B) /\ VotesCounted(B) /\ VotesReturning(B)
  BY DEF Ballots
<1>4. VotesKept
  BY <1>0, <1>1 DEF VotesKept
<1>5. PICK V \in SUBSET (Nodes \X Nat \X Nodes) : V = Votes' /\ BallotsFair(B \cup V)'
  BY <1>0, <1>3, <1>4, BallotsGrow
<1>6. PICK D \in SUBSET (Nodes \X Nat \X Nodes) : D = B \cup V
  OBVIOUS
<1>7. PICK C \in SUBSET Nodes : granted[n] <= Cardinality(C) /\ \A p \in C : <<p, mine[n], n>> \in B
  BY <1>3 DEF VotesCounted, BecomeLeader
<1>8. Cardinality(C) >= Quorum
  <2>1. Cardinality(C) \in Nat /\ Cardinality(Nodes) \in Nat
    BY RaftAssumption, FS_Subset, FS_CardinalityType
  <2>2. granted[n] \in Nat /\ granted[n] >= Quorum
    BY DEF TypeOK, BecomeLeader
  <2> QED BY <1>7, <2>1, <2>2 DEF Quorum
<1>9. LeadersElected(D)'
  <2>1. SUFFICES ASSUME NEW t \in Terms, NEW q \in elected'[t]
                 PROVE  \E Q \in SUBSET Nodes :
                           Cardinality(Q) >= Quorum /\ \A p \in Q : <<p, t, q>> \in D
    BY DEF LeadersElected, Quorum
  <2>2. CASE t = mine[n]
    BY <1>2, <1>6, <1>7, <1>8, <2>1, <2>2
  <2>3. CASE t # mine[n]
    BY <1>2, <1>3, <1>6, <2>1, <2>3 DEF LeadersElected
  <2> QED BY <2>2, <2>3
<1>10. \A q \in Nodes : doing'[q] = "campaign" =>
          /\ q # n /\ doing[q] = "campaign" /\ mine'[q] = mine[q]
          /\ granted'[q] = granted[q] /\ call'[q] = call[q]
  BY <1>1 DEF Still
<1>11. VotesCounted(D)'
  <2>1. SUFFICES ASSUME NEW q \in Nodes, doing'[q] = "campaign"
                 PROVE  \E R \in SUBSET Nodes :
                           /\ granted'[q] <= Cardinality(R)
                           /\ \A p \in R : <<p, mine'[q], q>> \in D /\ call'[q][p] = Over
    BY DEF VotesCounted
  <2>2. PICK R \in SUBSET Nodes :
           granted[q] <= Cardinality(R) /\ \A p \in R : <<p, mine[q], q>> \in B /\ call[q][p] = Over
    BY <1>3, <1>10, <2>1 DEF VotesCounted
  <2> QED BY <1>6, <1>10, <2>1, <2>2
<1>12. VotesReturning(D)'
  BY <1>3, <1>6, <1>10 DEF VotesReturning
<1>13. BallotsFair(D)'
  BY <1>5, <1>6
<1> QED BY <1>5, <1>6, <1>9, <1>11, <1>12, <1>13 DEF Ballots

\* The leader of a term alone adds to that term's log.
LEMMA LeaderAppends ==
    ASSUME TypeOK, TypeOK', LateMoves, NEW n \in Nodes, NEW t \in Terms, NEW e \in Entries,
           e.term = t, node'[n].term = t, node'[n].role = "leader",
           node'[n].log = Append(node[n].log, e),
           \A q \in Nodes \ {n} : node'[q] = node[q],
           \A q \in Nodes \ {n} :
               node[q].role = "leader" => node[q].term # t /\ node[q].term \in Terms,
           \A u \in Terms \ {t} : elected'[u] = elected[u],
           n \in elected'[t],
           elected[t] = {} \/ (elected'[t] = elected[t] /\ node[n].role = "leader" /\ node[n].term = t),
           \A q \in Nodes : SendsOwn(q),
           \A q \in Nodes : OfficeFits(q)'
    PROVE  LogStep
<1> SUFFICES ASSUME NEW L \in [Terms -> Seq(Entries)], LogsAgree(L)
             PROVE  \E M \in [Terms -> Seq(Entries)] :
                        Extends(L, M) /\ Grown(L, M) /\ LogsAgree(M)'
  BY DEF LogStep
<1>1. LogsAgree(L)
  OBVIOUS
<1>2. node[n] \in NodeRecords /\ \A q \in Nodes : node[q] \in NodeRecords
  BY DEF TypeOK
<1>3. PICK g \in Seq(Entries) : g = node[n].log
  BY <1>2 DEF NodeRecords
<1>4. PICK h \in Seq(Entries) : h = Append(g, e)
  BY AppendProperties
<1>5. /\ Len(g) \in Nat /\ Len(h) = Len(g) + 1 /\ h[Len(g) + 1] = e
      /\ \A i \in 1 .. Len(g) : h[i] = g[i]
      /\ DOMAIN g = 1 .. Len(g) /\ DOMAIN h = 1 .. Len(g) + 1
  BY <1>4, AppendProperties
<1>6. PICK M \in [Terms -> Seq(Entries)] : M[t] = h /\ \A u \in Terms \ {t} : M[u] = L[u]
  <2>1. [L EXCEPT ![t] = h] \in [Terms -> Seq(Entries)]
    OBVIOUS
  <2>2. [L EXCEPT ![t] = h][t] = h /\ \A u \in Terms \ {t} : [L EXCEPT ![t] = h][u] = L[u]
    OBVIOUS
  <2> QED BY <2>1, <2>2
<1>7. elected[t] # {} => L[t] = g
  BY <1>1, <1>3 DEF LogsAgree
<1>8. Extends(L, M)
  <2>1. ASSUME NEW u \in Terms
        PROVE  /\ elected[u] \subseteq elected'[u]
               /\ elected[u] # {} =>
                     Len(L[u]) <= Len(M[u]) /\ \A j \in 1 .. Len(L[u]) : M[u][j] = L[u][j]
    <3>1. CASE u = t
      <4>1. elected[u] \subseteq elected'[u]
        BY <3>1
      <4>2. ASSUME elected[u] # {}
            PROVE  Len(L[u]) <= Len(M[u]) /\ \A j \in 1 .. Len(L[u]) : M[u][j] = L[u][j]
        <5>1. L[u] = g /\ M[u] = h
          BY <1>6, <1>7, <3>1, <4>2
        <5>2. Len(g) <= Len(h)
          BY <1>5
        <5> QED BY <1>5, <5>1, <5>2
      <4> QED BY <4>1, <4>2
    <3>2. CASE u # t
      <4>1. elected'[u] = elected[u] /\ M[u] = L[u] /\ L[u] \in Seq(Entries)
        BY <1>6, <3>2
      <4>2. Len(L[u]) \in Nat
        BY <4>1
      <4> QED BY <4>1, <4>2
    <3> QED BY <3>1, <3>2
  <2> QED BY <2>1 DEF Extends
<1>9. Agrees(h, M)'
  <2>1. Agrees(g, L)
    BY <1>1, <1>3 DEF LogsAgree
  <2>2. Agrees(g, M)'
    BY <1>8, <2>1, AgreesStill
  <2>3. SUFFICES ASSUME NEW i \in DOMAIN h
                 PROVE  LET u == h[i].term
                        IN /\ u \in Terms /\ elected'[u] # {}
                           /\ i <= Len(M[u]) /\ \A j \in 1 .. i : h[j] = M[u][j]
    BY DEF Agrees
  <2>4. CASE i \in 1 .. Len(g)
    <3>1. h[i] = g[i] /\ i \in DOMAIN g /\ \A j \in 1 .. i : h[j] = g[j]
      BY <1>5, <2>4
    <3>2. PICK u : u = g[i].term
      OBVIOUS
    <3>3. u \in Terms /\ elected'[u] # {} /\ i <= Len(M[u]) /\ \A j \in 1 .. i : g[j] = M[u][j]
      BY <2>2, <3>1, <3>2 DEF Agrees
    <3> QED BY <3>1, <3>2, <3>3
  <2>5. CASE i = Len(g) + 1
    <3>1. h[i].term = t /\ M[t] = h /\ i <= Len(h)
      BY <1>5, <1>6, <2>5
    <3> QED BY <3>1
  <2> QED BY <1>5, <2>3, <2>4, <2>5
<1>10. ASSUME NEW q \in Nodes PROVE Agrees(node[q].log, M)'
  <2>1. CASE q = n
    BY <1>3, <1>4, <1>9, <2>1
  <2>2. CASE q # n
    <3>1. PICK f \in Seq(Entries) : f = node[q].log /\ f = node'[q].log
      BY <1>2, <2>2 DEF NodeRecords
    <3>2. Agrees(f, L)
      BY <1>1, <3>1 DEF LogsAgree
    <3>3. Agrees(f, M)'
      BY <1>8, <3>2, AgreesStill
    <3> QED BY <3>1, <3>3
  <2> QED BY <2>1, <2>2
<1>11. ASSUME NEW q \in Nodes, node'[q].role = "leader"
       PROVE  node'[q].log = M[node'[q].term]
  <2>1. CASE q = n
    BY <1>3, <1>4, <1>6, <2>1
  <2>2. CASE q # n
    <3>1. /\ node'[q] = node[q] /\ node[q].term # t /\ node[q].term \in Terms
          /\ node[q].log = L[node[q].term]
      BY <1>1, <1>11, <2>2 DEF LogsAgree
    <3> QED BY <1>6, <3>1
  <2> QED BY <2>1, <2>2
<1>12. LogsAgree(M)'
  BY <1>1, <1>8, <1>10, <1>11, LogsCarry
<1>13. Grown(L, M)
  BY <1>6 DEF Grown
<1> QED BY <1>8, <1>12, <1>13

\* A leader's term is one that it won.
LEMMA LeaderLed ==
    ASSUME TypeOK, TaskInv, NEW q \in Nodes, node[q].role = "leader"
    PROVE  /\ doing[q] = "lead" /\ mine[q] = node[q].term
           /\ node[q].term \in Terms /\ q \in elected[node[q].term]
BY DEF TaskInv, TaskFits

LEMMA BecomeLeaderKeepsLogs ==
    ASSUME TypeOK, TaskInv, BallotInv, LogInv, NEW n \in Nodes, BecomeLeader(n)
    PROVE  LogStep
<1>1. /\ TypeOK' /\ LateMoves
      /\ \A q \in Nodes \ {n} : node'[q] = node[q] /\ Still(q) /\ nextIndex'[q] = nextIndex[q]
      /\ node'[n].term = node[n].term /\ node'[n].role = "leader"
      /\ node'[n].log = Append(node[n].log, Entry(node[n].term, Noop))
      /\ mine[n] = node[n].term /\ mine[n] \in Terms
      /\ \A p \in Nodes : /\ call'[n][p] \in {Idle, Over}
                          /\ nextIndex'[n][p] = Len(node[n].log) + 1
      /\ elected[mine[n]] = {} /\ elected' = [elected EXCEPT ![mine[n]] = {n}]
  BY BecomeLeaderIs
<1>2. node[n].log \in Seq(Entries) /\ node[n].term \in Nat
  <2>1. node[n] \in NodeRecords
    BY DEF TypeOK
  <2> QED BY <2>1 DEF NodeRecords
<1>3. PICK e \in Entries : e = Entry(node[n].term, Noop) /\ e.term = node[n].term
  <2>1. /\ Entry(node[n].term, Noop) \in Entries
        /\ Entry(node[n].term, Noop).term = node[n].term
    BY <1>2 DEF Entry, Entries
  <2> QED BY <2>1
<1>4. PICK t \in Terms : t = mine[n]
  BY <1>1
<1>5. elected'[t] = {n} /\ \A u \in Terms \ {t} : elected'[u] = elected[u]
  BY <1>1, <1>4 DEF TypeOK
<1>6. \A q \in Nodes \ {n} : node[q].role = "leader" => node[q].term # t /\ node[q].term \in Terms
  BY <1>1, <1>4, LeaderLed
<1>7. \A q \in Nodes : SendsOwn(q)
  <2>1. \A p \in Nodes : call'[n][p].st # "asked"
    BY <1>1, ConstantCalls
  <2> QED BY <1>1, <2>1 DEF SendsOwn, Still
<1>8. ASSUME NEW q \in Nodes PROVE OfficeFits(q)'
  <2>1. CASE q = n
    <3>1. Len(node'[n].log) = Len(node[n].log) + 1 /\ Len(node[n].log) \in Nat
      BY <1>1, <1>2, <1>3, AppendProperties
    <3>2. \A p \in Nodes : call'[n][p].st # "asked" /\ call'[n][p].st # "answered"
      BY <1>1, ConstantCalls
    <3>3. \A p \in Nodes : nextIndex'[n][p] <= Len(node'[n].log) + 1
      BY <1>1, <3>1
    <3> QED BY <2>1, <3>2, <3>3 DEF OfficeFits
  <2>2. CASE q # n
    <3>1. OfficeFits(q) /\ node'[q] = node[q] /\ call'[q] = call[q] /\ nextIndex'[q] = nextIndex[q]
      BY <1>1, <2>2 DEF LogInv, Still
    <3> QED BY <3>1 DEF OfficeFits
  <2> QED BY <2>1, <2>2
<1>9. node'[n].term = t /\ e.term = t /\ node'[n].log = Append(node[n].log, e)
  BY <1>1, <1>3, <1>4
<1>10. n \in elected'[t] /\ elected[t] = {}
  BY <1>1, <1>4, <1>5
<1> QED BY <1>1, <1>5, <1>6, <1>7, <1>8, <1>9, <1>10, LeaderAppends

-----------------------------------------------------------------------------
(***************************************************************************)
(* A client's proposal.                                                    *)
(***************************************************************************)

\* A leader that is handed a command adds it to its log.
LEMMA ProposedIs ==
    ASSUME TypeOK, NEW n \in Nodes, NEW c \in Commands, HandlePropose(n, c)
    PROVE  /\ node' \in [Nodes -> NodeRecords] /\ \A q \in Nodes \ {n} : node'[q] = node[q]
           /\ node'[n].term = node[n].term /\ node'[n].vote = node[n].vote
           /\ node'[n].role = node[n].role /\ node'[n].commit = node[n].commit
           /\ \E e \in Entries :
                 e.term = node[n].term /\ node'[n].log = Append(node[n].log, e)
<1>1. node[n] \in NodeRecords
  BY DEF TypeOK
<1>2. node[n].term \in Nat /\ node[n].log \in Seq(Entries)
  BY <1>1 DEF NodeRecords
<1>3. PICK e \in Entries : e = Entry(node[n].term, c) /\ e.term = node[n].term
  <2>1. /\ Entry(node[n].term, c) \in Entries
        /\ Entry(node[n].term, c).term = node[n].term
    BY <1>2 DEF Entry, Entries
  <2> QED BY <2>1
<1>4. PICK g \in Seq(Entries) : g = Append(node[n].log, e)
  BY <1>2, AppendProperties
<1> DEFINE s == [node[n] EXCEPT !.log = g]
<1>5. /\ s \in NodeRecords /\ s.term = node[n].term /\ s.vote = node[n].vote
      /\ s.role = node[n].role /\ s.log = g /\ s.commit = node[n].commit
  BY <1>1, Zenon DEF NodeRecords
<1>6. node' = [node EXCEPT ![n] = s]
  BY <1>1, <1>3, <1>4, Zenon DEF HandlePropose, TypeOK, NodeRecords
<1> HIDE DEF s
<1>7. /\ node' \in [Nodes -> NodeRecords] /\ node'[n] = s
      /\ \A q \in Nodes \ {n} : node'[q] = node[q]
  BY <1>5, <1>6, NodeSet
<1> QED BY <1>3, <1>4, <1>5, <1>7

LEMMA ProposeIs ==
    ASSUME TypeOK, TaskInv, BallotInv, LogInv, NEW n \in Nodes, NEW c \in Commands,
           HandlePropose(n, c)
    PROVE  TypeOK' /\ Quiet /\ LogStep
<1>1. node[n] \in NodeRecords
  BY DEF TypeOK
<1>2. node[n].term \in Nat /\ node[n].log \in Seq(Entries)
  BY <1>1 DEF NodeRecords
<1>3. PICK e \in Entries : e.term = node[n].term /\ node'[n].log = Append(node[n].log, e)
  BY ProposedIs
<1>4. PICK g \in Seq(Entries) : g = Append(node[n].log, e)
  BY <1>2, AppendProperties
<1>5. PICK s \in NodeRecords :
         /\ s = node'[n] /\ s.term = node[n].term /\ s.vote = node[n].vote
         /\ s.role = node[n].role /\ s.log = g
  BY <1>3, <1>4, ProposedIs
<1>6. /\ node' \in [Nodes -> NodeRecords] /\ node'[n] = s
      /\ \A q \in Nodes \ {n} : node'[q] = node[q]
  BY <1>5, ProposedIs
<1>7. disk' = [disk EXCEPT ![n] = <<State(node'[n])>>]
  BY SavedIs, Zenon DEF HandlePropose, Persist
<1>8. disk' = [q \in Nodes |-> <<State(node'[q])>>]
  BY <1>6, <1>7, DiskFollows
<1>9. /\ node[n].role = "leader"
       /\ doing' = doing /\ mine' = mine /\ granted' = granted /\ nextIndex' = nextIndex
       /\ matchIndex' = matchIndex /\ call' = call /\ late' = late /\ env' = env
       /\ elected' = elected
  BY DEF HandlePropose, leaderVars, histVars
<1>10. TypeOK'
  BY <1>6, <1>8, <1>9 DEF TypeOK
<1>11. Quiet
  <2>1. VotesKept /\ RolesKept
    <3>1. \A q \in Nodes : node[q].term \in Nat
      <4>1. \A q \in Nodes : node[q] \in NodeRecords
        BY DEF TypeOK
      <4> QED BY <4>1 DEF NodeRecords
    <3> QED BY <1>5, <1>6, <3>1 DEF VotesKept, RolesKept
  <2>2. \A q \in Nodes : GoesOn(q)
    BY <1>9, StillGoesOn DEF Still
  <2> QED BY <1>9, <2>1, <2>2 DEF Quiet, LateMoves
<1>12. PICK t \in Terms : t = node[n].term /\ n \in elected[t]
  BY <1>9, LeaderLed
<1>13. \A q \in Nodes \ {n} : node[q].role = "leader" => node[q].term # t /\ node[q].term \in Terms
  BY <1>12, LeaderLed, OneLeader
<1>14. ASSUME NEW q \in Nodes PROVE OfficeFits(q)'
  <2>1. OfficeFits(q)
    BY DEF LogInv
  <2>2. CASE q = n
    <3>1. Len(node'[n].log) = Len(node[n].log) + 1 /\ Len(node[n].log) \in Nat
      BY <1>2, <1>4, <1>5, <1>6, AppendProperties
    <3>2. ASSUME NEW p \in Nodes
          PROVE  /\ nextIndex'[n][p] <= Len(node'[n].log) + 1
                 /\ call'[n][p].st = "asked" =>
                       call'[n][p].req.prev + Len(call'[n][p].req.entries) <= Len(node'[n].log)
                 /\ call'[n][p].st = "answered" => call'[n][p].upTo <= Len(node'[n].log)
      <4>1. nextIndex[n][p] \in Nat /\ call[n][p] \in Calls
        BY DEF TypeOK
      <4>2. nextIndex'[n][p] <= Len(node'[n].log) + 1
        BY <1>9, <2>1, <2>2, <3>1, <4>1 DEF OfficeFits
      <4>3. ASSUME call[n][p].st = "asked"
            PROVE  call[n][p].req.prev + Len(call[n][p].req.entries) <= Len(node'[n].log)
        <5>1. call[n][p].req.op = "append"
          BY <1>9, <4>3, LeaderLed DEF TaskInv, TaskFits
        <5>2. call[n][p].req \in AppendRequests
          BY <4>1, <4>3, <5>1, CallShapes, RequestShapes
        <5>3. call[n][p].req.prev \in Nat /\ call[n][p].req.entries \in Seq(Entries)
          BY <5>2 DEF AppendRequests
        <5>4. call[n][p].req.prev + Len(call[n][p].req.entries) <= Len(node[n].log)
          BY <1>9, <2>1, <2>2, <4>3 DEF OfficeFits
        <5>5. Len(call[n][p].req.entries) \in Nat
          BY <5>3
        <5>6. \A a, b, d \in Nat : a + b <= d => a + b <= d + 1
          OBVIOUS
        <5> QED BY <3>1, <5>3, <5>4, <5>5, <5>6
      <4>4. ASSUME call[n][p].st = "answered" PROVE call[n][p].upTo <= Len(node'[n].log)
        <5>1. call[n][p].upTo \in Nat
          BY <4>1, <4>4, CallShapes
        <5>2. call[n][p].upTo <= Len(node[n].log)
          BY <1>9, <2>1, <2>2, <4>4 DEF OfficeFits
        <5> QED BY <3>1, <5>1, <5>2
      <4> QED BY <1>9, <4>2, <4>3, <4>4
    <3> QED BY <2>2, <3>2 DEF OfficeFits
  <2>3. CASE q # n
    BY <1>6, <1>9, <2>1, <2>3 DEF OfficeFits
  <2> QED BY <2>2, <2>3
<1>15. \A q \in Nodes : SendsOwn(q)
  BY <1>9 DEF SendsOwn
<1>16. /\ e.term = t /\ node'[n].term = t /\ node'[n].role = "leader"
       /\ node'[n].log = Append(node[n].log, e)
       /\ n \in elected'[t] /\ elected'[t] = elected[t] /\ node[n].term = t
       /\ \A u \in Terms \ {t} : elected'[u] = elected[u]
  BY <1>3, <1>4, <1>5, <1>6, <1>9, <1>12
<1>17. \A q \in Nodes \ {n} : node'[q] = node[q]
  BY <1>6
<1>18. LateMoves
  BY <1>11 DEF Quiet
<1>19. LogStep
  BY <1>9, <1>10, <1>13, <1>14, <1>15, <1>16, <1>17, <1>18, LeaderAppends
<1> QED BY <1>10, <1>11, <1>19

-----------------------------------------------------------------------------
(***************************************************************************)
(* Steps of one node's coroutine and its calls.                            *)
(***************************************************************************)

\* A step that settles nothing: no log changes and nobody takes office or stands.
QuietStep == RaftStep /\ Quiet /\ LogsKept

LEMMA OneNodeStep ==
    ASSUME RaftInv, TypeOK', LateMoves, elected' = elected, NEW n \in Nodes,
           \A q \in Nodes \ {n} : node'[q] = node[q] /\ Still(q) /\ nextIndex'[q] = nextIndex[q],
           node'[n].log = node[n].log, node'[n].term >= node[n].term,
           node'[n].term = node[n].term => node[n].vote \in {Nobody, node'[n].vote},
           \/ node'[n].role = "follower"
           \/ node'[n].role = node[n].role /\ node'[n].term = node[n].term,
           GoesOn(n) \/ GoesBack(n), SendsOwn(n), OfficeFits(n)'
    PROVE  QuietStep
<1>1. \A q \in Nodes : node[q].term \in Nat
  <2>1. \A q \in Nodes : node[q] \in NodeRecords
    BY DEF RaftInv, TypeOK
  <2> QED BY <2>1 DEF NodeRecords
<1>2. VotesKept
  BY <1>1 DEF VotesKept
<1>3. RolesKept
  BY DEF RolesKept
<1>4. \A q \in Nodes : GoesOn(q) \/ GoesBack(q)
  BY StillGoesOn
<1>5. Quiet
  BY <1>2, <1>3, <1>4 DEF Quiet
<1>6. \A q \in Nodes : SendsOwn(q)
  BY DEF SendsOwn, Still
<1>7. LogsKept
  BY <1>6 DEF LogsKept
<1>8. \A q \in Nodes : OfficeFits(q)'
  <2>1. ASSUME NEW q \in Nodes \ {n} PROVE OfficeFits(q)'
    BY DEF RaftInv, LogInv, OfficeFits, Still
  <2> QED BY <2>1
<1>9. TaskInv' /\ BallotStep
  BY <1>5, QuietTasks, QuietBallots DEF RaftInv
<1>10. LogStep
  BY <1>7, <1>8, QuietLogs DEF RaftInv
<1> QED BY <1>5, <1>7, <1>9, <1>10 DEF RaftStep, QuietStep

LEMMA CampaignStep ==
    ASSUME RaftInv, NEW n \in Nodes, Campaign(n), LateMoves, late' \subseteq Requests,
           env' \in [log : Nat, open : Nat, faults : Nat]
    PROVE  RaftStep
<1>0. TypeOK /\ TaskInv /\ BallotInv /\ LogInv
  BY DEF RaftInv
<1>1. /\ node' \in [Nodes -> NodeRecords] /\ \A q \in Nodes \ {n} : node'[q] = node[q]
      /\ node'[n].role = "candidate" /\ node'[n].log = node[n].log
      /\ disk' = [q \in Nodes |-> <<State(node'[q])>>]
      /\ doing' = [doing EXCEPT ![n] = "campaign"]
      /\ mine' = [mine EXCEPT ![n] = node[n].term + 1]
      /\ granted' = [granted EXCEPT ![n] = 1]
      /\ call' \in [Nodes -> [Nodes -> Calls]] /\ \A q \in Nodes \ {n} : call'[q] = call[q]
      /\ \A p \in Nodes : call'[n][p] = IF p = n THEN Over ELSE Born
      /\ nextIndex' = nextIndex /\ matchIndex' = matchIndex /\ elected' = elected
  BY <1>0, CampaignIs
<1>2. node[n].term + 1 \in Nat
  <2>1. node[n] \in NodeRecords
    BY <1>0 DEF TypeOK
  <2> QED BY <2>1 DEF NodeRecords
<1>3. /\ doing' \in [Nodes -> {"follow", "campaign", "lead"}]
      /\ mine' \in [Nodes -> Nat] /\ granted' \in [Nodes -> Nat]
  BY <1>0, <1>1, <1>2 DEF TypeOK
<1>4. TypeOK'
  BY <1>0, <1>1, <1>3 DEF TypeOK
<1>5. TaskInv' /\ BallotStep
  BY <1>0, <1>4, CampaignKeeps
<1>6. \A p \in Nodes : call'[n][p].st \in {"over", "born"}
  BY <1>1, ConstantCalls
<1>7. LogsKept
  <2>1. \A q \in Nodes : SendsOwn(q)
    BY <1>1, <1>6 DEF SendsOwn
  <2> QED BY <1>1, <2>1 DEF LogsKept
<1>8. \A q \in Nodes : OfficeFits(q)'
  <2>1. OfficeFits(n)'
    BY <1>1 DEF OfficeFits
  <2>2. ASSUME NEW q \in Nodes \ {n} PROVE OfficeFits(q)'
    BY <1>0, <1>1 DEF LogInv, OfficeFits
  <2> QED BY <2>1, <2>2
<1>9. LogStep
  BY <1>0, <1>4, <1>7, <1>8, QuietLogs
<1> QED BY <1>4, <1>5, <1>9 DEF RaftStep

LEMMA FollowTimesOutStep ==
    ASSUME RaftInv, NEW n \in Nodes, FollowTimesOut(n)
    PROVE  RaftStep /\ Campaign(n) /\ LateMoves /\ elected' = elected
<1>1. late' = late /\ env' = env /\ TypeOK /\ Campaign(n)
  BY DEF FollowTimesOut, RaftInv
<1>2. LateMoves /\ late' \subseteq Requests /\ env' \in [log : Nat, open : Nat, faults : Nat]
  BY <1>1 DEF LateMoves, TypeOK
<1>3. elected' = elected
  BY <1>1, CampaignIs
<1> QED BY <1>1, <1>2, <1>3, CampaignStep

LEMMA BackToFollowStep ==
    ASSUME RaftInv, NEW n \in Nodes, BackToFollow(n), LateMoves, elected' = elected,
           node' \in [Nodes -> NodeRecords], \A q \in Nodes \ {n} : node'[q] = node[q],
           disk' = [q \in Nodes |-> <<State(node'[q])>>],
           node'[n].log = node[n].log, node'[n].term = node[n].term,
           node'[n].vote = node[n].vote, node'[n].role = "follower",
           late' \subseteq Requests, env' \in [log : Nat, open : Nat, faults : Nat]
    PROVE  QuietStep
<1>0. TypeOK
  BY DEF RaftInv
<1>1. /\ doing' \in [Nodes -> {"follow", "campaign", "lead"}] /\ doing'[n] = "follow"
      /\ mine' \in [Nodes -> Nat] /\ granted' \in [Nodes -> Nat]
      /\ nextIndex' \in [Nodes -> [Nodes -> Nat \ {0}]]
      /\ matchIndex' \in [Nodes -> [Nodes -> Nat]]
      /\ call' \in [Nodes -> [Nodes -> Calls]] /\ \A p \in Nodes : call'[n][p] = Over
      /\ \A q \in Nodes \ {n} : Still(q) /\ nextIndex'[q] = nextIndex[q]
  BY <1>0, BackToFollowIs
<1>2. TypeOK'
  BY <1>0, <1>1 DEF TypeOK
<1>3. GoesBack(n) /\ OfficeFits(n)' /\ SendsOwn(n)
  BY <1>1, ConstantCalls DEF GoesBack, OfficeFits, SendsOwn
<1>4. node[n].term \in Nat
  <2>1. node[n] \in NodeRecords
    BY <1>0 DEF TypeOK
  <2> QED BY <2>1 DEF NodeRecords
<1> QED BY <1>1, <1>2, <1>3, <1>4, OneNodeStep

LEMMA CampaignEndsStep ==
    ASSUME RaftInv, NEW n \in Nodes, CampaignEnds(n)
    PROVE  QuietStep \/ (RaftStep /\ Campaign(n) /\ LateMoves)
<1>0. TypeOK /\ Peers(n) \in SUBSET Nodes
  BY DEF RaftInv, Peers
<1>1. LateMoves /\ late' \subseteq Requests /\ env' \in [log : Nat, open : Nat, faults : Nat]
  BY <1>0, AbandonIs DEF CampaignEnds
<1>2. CASE Campaign(n)
  BY <1>1, <1>2, CampaignStep
<1>3. CASE /\ node[n].role = "follower" /\ BackToFollow(n) /\ node' = node /\ disk' = disk
           /\ elected' = elected
  BY <1>0, <1>1, <1>3, BackToFollowStep DEF TypeOK
<1> QED BY <1>2, <1>3 DEF CampaignEnds, histVars

LEMMA RestartStep ==
    ASSUME RaftInv, NEW n \in Nodes, NEW i \in DOMAIN disk[n], Restart(n, disk[n][i])
    PROVE  QuietStep
<1>0. TypeOK
  BY DEF RaftInv
<1>1. disk[n] = <<State(node[n])>> /\ node[n] \in NodeRecords
  BY <1>0 DEF TypeOK
<1>2. i = 1 /\ disk[n][i] = State(node[n])
  BY <1>1
<1>3. PICK d : d = State(node[n])
  OBVIOUS
<1>4. /\ d.term = node[n].term /\ d.vote = node[n].vote /\ d.log = node[n].log
      /\ d = [term |-> node[n].term, vote |-> node[n].vote, log |-> node[n].log]
  BY <1>3 DEF State
<1>5. /\ Boot(d) \in NodeRecords /\ Boot(d).log = d.log /\ Boot(d).term = d.term
      /\ Boot(d).vote = d.vote /\ Boot(d).role = "follower" /\ State(Boot(d)) = d
  BY <1>1, <1>4 DEF Boot, NodeRecords, State
<1>6. /\ env.faults > 0 /\ env' = [env EXCEPT !.faults = @ - 1]
      /\ node' = [node EXCEPT ![n] = Boot(d)] /\ disk' = [disk EXCEPT ![n] = <<d>>]
      /\ BackToFollow(n) /\ late' = late /\ elected' = elected
  BY <1>2, <1>3 DEF Restart, histVars
<1>7. /\ node' \in [Nodes -> NodeRecords] /\ node'[n] = Boot(d)
      /\ \A q \in Nodes \ {n} : node'[q] = node[q]
  BY <1>0, <1>5, <1>6, NodeSet
<1>8. disk' = [q \in Nodes |-> <<State(node'[q])>>]
  BY <1>0, <1>5, <1>6, <1>7, DiskFollows
<1>9. env' \in [log : Nat, open : Nat, faults : Nat]
  <2>1. env \in [log : Nat, open : Nat, faults : Nat]
    BY <1>0 DEF TypeOK
  <2>2. env.faults - 1 \in Nat
    BY <1>6, <2>1
  <2> QED BY <1>6, <2>1, <2>2, Zenon
<1>10. LateMoves /\ late' \subseteq Requests
  BY <1>0, <1>6 DEF LateMoves, TypeOK
<1> QED BY <1>4, <1>5, <1>6, <1>7, <1>8, <1>9, <1>10, BackToFollowStep

LEMMA LeadEndsStep ==
    ASSUME RaftInv, NEW n \in Nodes, LeadEnds(n)
    PROVE  QuietStep
<1>0. TypeOK /\ TaskInv /\ Peers(n) \in SUBSET Nodes
  BY DEF RaftInv, Peers
<1>1. /\ doing[n] = "lead" /\ ~InOffice(n) /\ Abandon(n, Peers(n)) /\ BackToFollow(n)
      /\ node' = node /\ disk' = disk /\ elected' = elected
  BY DEF LeadEnds, histVars
<1>2. LateMoves /\ late' \subseteq Requests /\ env' \in [log : Nat, open : Nat, faults : Nat]
  BY <1>0, <1>1, AbandonIs
<1>3. node[n].role = "follower"
  <2>1. node[n] \in NodeRecords
    BY <1>0 DEF TypeOK
  <2>2. node[n].role \in {"follower", "candidate", "leader"}
    BY <2>1 DEF NodeRecords
  <2> QED BY <1>0, <1>1, <2>2 DEF TaskInv, TaskFits, InOffice
<1> QED BY <1>0, <1>1, <1>2, <1>3, BackToFollowStep DEF TypeOK

LEMMA SolicitStep ==
    ASSUME RaftInv, NEW n \in Nodes, NEW p \in Peers(n), Solicit(n, p)
    PROVE  QuietStep
<1>0. TypeOK /\ TaskInv /\ LogInv /\ p \in Nodes /\ p # n
  BY DEF RaftInv, Peers
<1> DEFINE m == [op |-> "vote", from |-> n, to |-> p, term |-> mine[n],
                 index |-> Len(node[n].log), last |-> LastTerm(node[n])]
<1>1. node[n] \in NodeRecords /\ mine[n] \in Nat
  BY <1>0 DEF TypeOK
<1>2. LastTerm(node[n]) \in Nat /\ Len(node[n].log) \in Nat
  BY <1>1, LastTermIs DEF NodeRecords
<1>3. m \in VoteRequests
  BY <1>0, <1>1, <1>2 DEF VoteRequests
<1>4. m \in Requests /\ m.op = "vote" /\ m.from = n /\ m.to = p /\ m.term = mine[n]
  BY <1>3 DEF Requests
<1>5. /\ doing[n] = "campaign" /\ call[n][p] = Born
      /\ call' = [call EXCEPT ![n][p] = Asked(m)]
      /\ node' = node /\ disk' = disk /\ doing' = doing /\ mine' = mine /\ granted' = granted
      /\ nextIndex' = nextIndex /\ matchIndex' = matchIndex /\ late' = late /\ env' = env
      /\ elected' = elected
  BY DEF Solicit, leaderVars, histVars
<1> HIDE DEF m
<1>6. Asked(m) \in Calls /\ Asked(m).st = "asked" /\ Asked(m).req = m
  BY <1>4, AskedIs
<1>7. /\ call' \in [Nodes -> [Nodes -> Calls]] /\ call'[n][p] = Asked(m)
      /\ \A q \in Nodes \ {p} : call'[n][q] = call[n][q]
      /\ \A q \in Nodes \ {n} : call'[q] = call[q]
  BY <1>0, <1>5, <1>6, OneCallMoves
<1>8. TypeOK'
  BY <1>0, <1>5, <1>7 DEF TypeOK
<1>9. GoesOn(n)
  <2>1. CallMoves(n)
    <3>1. call[n][p] # Over
      BY <1>5, ConstantCalls
    <3>2. RequestFits(n, p, m)
      BY <1>0, <1>4, <1>5 DEF RequestFits
    <3> QED BY <1>6, <1>7, <3>1, <3>2 DEF CallMoves
  <2>2. AnswersHonest(n)
    BY <1>6, <1>7 DEF AnswersHonest
  <2> QED BY <1>5, <2>1, <2>2 DEF GoesOn, Counts
<1>10. SendsOwn(n)
  BY <1>4, <1>6, <1>7 DEF SendsOwn
<1>11. OfficeFits(n)'
  <2>1. node[n].role # "leader"
    BY <1>0, <1>5 DEF TaskInv, TaskFits
  <2> QED BY <1>5, <2>1 DEF OfficeFits
<1>12. \A q \in Nodes \ {n} : node'[q] = node[q] /\ Still(q) /\ nextIndex'[q] = nextIndex[q]
  BY <1>5, <1>7 DEF Still
<1>13. LateMoves
  BY <1>5 DEF LateMoves
<1>14. node'[n] = node[n] /\ node[n].term >= node[n].term
  <2>1. node[n].term \in Nat
    BY <1>1 DEF NodeRecords
  <2> QED BY <1>5, <2>1
<1>15. elected' = elected
  BY <1>5
<1> QED BY <1>8, <1>9, <1>10, <1>11, <1>12, <1>13, <1>14, <1>15, OneNodeStep

\* A peer of a later term deposes a node.
LEMMA Deposed ==
    ASSUME TypeOK, NEW n \in Nodes, NEW t \in Nat, t > node[n].term,
           node' = [node EXCEPT ![n] = BecomeFollower(@, t)], Persist(n)
    PROVE  /\ node' \in [Nodes -> NodeRecords] /\ \A q \in Nodes \ {n} : node'[q] = node[q]
           /\ disk' = [q \in Nodes |-> <<State(node'[q])>>]
           /\ node'[n].log = node[n].log /\ node'[n].term > node[n].term
           /\ node'[n].term \in Nat /\ node[n].term \in Nat
           /\ node'[n].role = "follower"
<1>1. node[n] \in NodeRecords
  BY DEF TypeOK
<1>2. PICK s \in NodeRecords : s = BecomeFollower(node[n], t) /\ s.term = t
                               /\ s.role = "follower" /\ s.log = node[n].log
  BY <1>1, FollowerIs
<1>3. node' = [node EXCEPT ![n] = s]
  BY <1>2, Zenon
<1>4. /\ node' \in [Nodes -> NodeRecords] /\ node'[n] = s
      /\ \A q \in Nodes \ {n} : node'[q] = node[q]
  BY <1>3, NodeSet
<1>5. disk' = [disk EXCEPT ![n] = <<State(node'[n])>>]
  BY SavedIs, Zenon DEF Persist
<1>6. disk' = [q \in Nodes |-> <<State(node'[q])>>]
  BY <1>4, <1>5, DiskFollows
<1>7. node[n].term \in Nat
  BY <1>1 DEF NodeRecords
<1> QED BY <1>2, <1>4, <1>6, <1>7

LEMMA SolicitRepliedStep ==
    ASSUME RaftInv, NEW n \in Nodes, NEW p \in Peers(n), SolicitReplied(n, p)
    PROVE  QuietStep
<1>0. TypeOK /\ TaskInv /\ LogInv /\ p \in Nodes /\ p # n
  BY DEF RaftInv, Peers
<1>1. PICK r : r = call[n][p].reply
  OBVIOUS
<1>2. /\ doing[n] = "campaign" /\ call[n][p].st = "answered"
      /\ call' = [call EXCEPT ![n][p] = Over]
      /\ doing' = doing /\ mine' = mine /\ nextIndex' = nextIndex /\ matchIndex' = matchIndex
      /\ late' = late /\ env' = env /\ elected' = elected
      /\ \/ /\ r.term > node[n].term /\ node' = [node EXCEPT ![n] = BecomeFollower(@, r.term)]
            /\ Persist(n) /\ granted' = granted
         \/ /\ granted' = granted \/ (r.ok /\ granted' = [granted EXCEPT ![n] = @ + 1])
            /\ node' = node /\ disk' = disk
  BY <1>1 DEF SolicitReplied, leaderVars, histVars
<1>3. call[n][p] \in Calls
  BY <1>0 DEF TypeOK
<1>4. r \in Replies /\ r.term \in Nat
  BY <1>1, <1>2, <1>3, CallShapes DEF Replies
<1>5. /\ call' \in [Nodes -> [Nodes -> Calls]] /\ call'[n][p] = Over
      /\ \A q \in Nodes \ {p} : call'[n][q] = call[n][q]
      /\ \A q \in Nodes \ {n} : call'[q] = call[q]
  BY <1>0, <1>2, ConstantCalls, OneCallMoves
<1>6. /\ granted' \in [Nodes -> Nat] /\ \A q \in Nodes \ {n} : granted'[q] = granted[q]
      /\ granted'[n] = granted[n] \/ (r.ok /\ granted'[n] = granted[n] + 1)
  <2>1. granted \in [Nodes -> Nat]
    BY <1>0 DEF TypeOK
  <2>2. CASE granted' = granted
    BY <2>1, <2>2
  <2>3. CASE r.ok /\ granted' = [granted EXCEPT ![n] = @ + 1]
    BY <2>1, <2>3
  <2> QED BY <1>2, <2>2, <2>3
<1>7. /\ node' \in [Nodes -> NodeRecords] /\ \A q \in Nodes \ {n} : node'[q] = node[q]
      /\ disk' = [q \in Nodes |-> <<State(node'[q])>>]
      /\ node'[n].log = node[n].log /\ node'[n].term >= node[n].term
      /\ node'[n].term = node[n].term => node'[n] = node[n]
      /\ node'[n].role = "follower" \/ node'[n] = node[n]
  <2>1. CASE /\ r.term > node[n].term /\ node' = [node EXCEPT ![n] = BecomeFollower(@, r.term)]
             /\ Persist(n)
    <3>1. /\ node' \in [Nodes -> NodeRecords] /\ \A q \in Nodes \ {n} : node'[q] = node[q]
          /\ disk' = [q \in Nodes |-> <<State(node'[q])>>]
          /\ node'[n].log = node[n].log /\ node'[n].term > node[n].term
          /\ node'[n].term \in Nat /\ node[n].term \in Nat
          /\ node'[n].role = "follower"
      BY <1>0, <1>4, <2>1, Deposed
    <3>2. node'[n].term >= node[n].term /\ node'[n].term # node[n].term
      BY <3>1
    <3> QED BY <3>1, <3>2
  <2>2. CASE node' = node /\ disk' = disk
    <3>1. node \in [Nodes -> NodeRecords] /\ disk' = [q \in Nodes |-> <<State(node'[q])>>]
      BY <1>0, <2>2 DEF TypeOK
    <3>2. node[n].term \in Nat
      BY <3>1 DEF NodeRecords
    <3> QED BY <2>2, <3>1, <3>2
  <2> QED BY <1>2, <2>1, <2>2
<1>8. TypeOK'
  BY <1>0, <1>2, <1>5, <1>6, <1>7 DEF TypeOK
<1>9. GoesOn(n)
  <2>1. CallMoves(n)
    <3>1. call[n][p] # Over /\ Over.st # "asked"
      BY <1>2, ConstantCalls
    <3> QED BY <1>5, <3>1 DEF CallMoves
  <2>2. AnswersHonest(n)
    BY <1>5, ConstantCalls DEF AnswersHonest
  <2>3. Counts(n)
    BY <1>0, <1>1, <1>2, <1>5, <1>6 DEF Counts
  <2> QED BY <1>2, <2>1, <2>2, <2>3 DEF GoesOn
<1>10. SendsOwn(n)
  BY <1>5, ConstantCalls DEF SendsOwn
<1>11. OfficeFits(n)'
  <2>1. node[n].role # "leader"
    BY <1>0, <1>2 DEF TaskInv, TaskFits
  <2> QED BY <1>7, <2>1 DEF OfficeFits
<1>12. \A q \in Nodes \ {n} : node'[q] = node[q] /\ Still(q) /\ nextIndex'[q] = nextIndex[q]
  BY <1>2, <1>5, <1>6, <1>7 DEF Still
<1>13. LateMoves
  BY <1>2 DEF LateMoves
<1>14. elected' = elected
  BY <1>2
<1> QED BY <1>7, <1>8, <1>9, <1>10, <1>11, <1>12, <1>13, <1>14, OneNodeStep

LEMMA CallFailsStep ==
    ASSUME RaftInv, NEW n \in Nodes, NEW p \in Peers(n), CallFails(n, p)
    PROVE  QuietStep
<1>0. TypeOK /\ TaskInv /\ LogInv /\ p \in Nodes /\ p # n
  BY DEF RaftInv, Peers
<1>1. /\ call[n][p].st \in {"asked", "answered"} /\ env.faults > 0
      /\ env' = [env EXCEPT !.faults = @ - 1]
      /\ late' = late \/ Outlives(n, {p})
      /\ node' = node /\ disk' = disk /\ doing' = doing /\ mine' = mine /\ granted' = granted
      /\ nextIndex' = nextIndex /\ matchIndex' = matchIndex /\ elected' = elected
  BY DEF CallFails, leaderVars, histVars
<1>2. PICK x \in {Idle, Over} : call' = [call EXCEPT ![n][p] = x]
  BY DEF CallFails
<1>3. x \in Calls /\ x.st \in {"idle", "over"}
  BY ConstantCalls
<1>4. /\ call' \in [Nodes -> [Nodes -> Calls]] /\ call'[n][p] = x
      /\ \A q \in Nodes \ {p} : call'[n][q] = call[n][q]
      /\ \A q \in Nodes \ {n} : call'[q] = call[q]
  BY <1>0, <1>2, <1>3, OneCallMoves
<1>5. env' \in [log : Nat, open : Nat, faults : Nat]
  <2>1. env \in [log : Nat, open : Nat, faults : Nat]
    BY <1>0 DEF TypeOK
  <2>2. env.faults - 1 \in Nat
    BY <1>1, <2>1
  <2> QED BY <1>1, <2>1, <2>2, Zenon
<1>6. LateMoves /\ late' \subseteq Requests
  <2>1. CASE late' = late
    BY <1>0, <2>1 DEF LateMoves, TypeOK
  <2>2. CASE Outlives(n, {p})
    <3>1. call[n][p].st = "asked" /\ late' = late \cup {call[n][p].req}
      BY <2>2 DEF Outlives
    <3>2. call[n][p] \in Calls /\ late \subseteq Requests
      BY <1>0 DEF TypeOK
    <3>3. call[n][p].req \in Requests
      BY <3>1, <3>2, CallShapes
    <3> QED BY <1>0, <3>1, <3>2, <3>3 DEF LateMoves
  <2> QED BY <1>1, <2>1, <2>2
<1>7. TypeOK'
  BY <1>0, <1>1, <1>4, <1>5, <1>6 DEF TypeOK
<1>8. GoesOn(n)
  <2>1. CallMoves(n)
    <3>1. call[n][p] # Over
      BY <1>1, ConstantCalls
    <3> QED BY <1>3, <1>4, <3>1 DEF CallMoves
  <2>2. AnswersHonest(n)
    BY <1>3, <1>4 DEF AnswersHonest
  <2> QED BY <1>1, <2>1, <2>2 DEF GoesOn, Counts
<1>9. SendsOwn(n)
  BY <1>3, <1>4 DEF SendsOwn
<1>10. OfficeFits(n)'
  <2>1. OfficeFits(n)
    BY <1>0 DEF LogInv
  <2>2. \A q \in Nodes : call'[n][q] = call[n][q] \/ call'[n][q].st \in {"idle", "over"}
    BY <1>3, <1>4
  <2> QED BY <1>1, <2>1, <2>2 DEF OfficeFits
<1>11. \A q \in Nodes \ {n} : node'[q] = node[q] /\ Still(q) /\ nextIndex'[q] = nextIndex[q]
  BY <1>1, <1>4 DEF Still
<1>12. node'[n] = node[n] /\ node[n].term >= node[n].term
  <2>1. node[n] \in NodeRecords
    BY <1>0 DEF TypeOK
  <2>2. node[n].term \in Nat
    BY <2>1 DEF NodeRecords
  <2> QED BY <1>1, <2>2
<1>13. elected' = elected
  BY <1>1
<1> QED BY <1>6, <1>7, <1>8, <1>9, <1>10, <1>11, <1>12, <1>13, OneNodeStep

LEMMA PushStep ==
    ASSUME RaftInv, NEW n \in Nodes, NEW p \in Peers(n), Push(n, p)
    PROVE  QuietStep
<1>0. TypeOK /\ TaskInv /\ LogInv /\ p \in Nodes /\ p # n
  BY DEF RaftInv, Peers
<1>1. node[n] \in NodeRecords /\ nextIndex[n][p] \in Nat \ {0}
  BY <1>0 DEF TypeOK
<1>2. node[n].log \in Seq(Entries) /\ node[n].term \in Nat
  BY <1>1 DEF NodeRecords
<1>3. PICK k \in Nat : k = nextIndex[n][p] /\ k > 0
  BY <1>1
<1>4. Len(node[n].log) \in Nat
  BY <1>2
<1>5. /\ doing[n] = "lead" /\ call[n][p] = Idle
      /\ node' = node /\ disk' = disk /\ doing' = doing /\ mine' = mine /\ granted' = granted
      /\ nextIndex' = nextIndex /\ matchIndex' = matchIndex /\ late' = late /\ env' = env
      /\ elected' = elected
  BY DEF Push, leaderVars, histVars
<1>6. PICK L \in [Terms -> Seq(Entries)] : LogsAgree(L)
  BY <1>0 DEF LogInv
<1>7. Agrees(node[n].log, L)
  BY <1>6 DEF LogsAgree
<1>8. PICK x : /\ x = Over \/ (k \in 1 .. Len(node[n].log) + 1 /\ x = Asked(AppendRequest(n, p, k)))
               /\ call' = [call EXCEPT ![n][p] = x]
  <2>1. CASE k - 1 > Len(node[n].log)
    BY <1>3, <2>1 DEF Push
  <2>2. CASE ~(k - 1 > Len(node[n].log))
    <3>1. k \in 1 .. Len(node[n].log) + 1
      BY <1>3, <1>4, <2>2
    <3> QED BY <1>3, <2>2, <3>1 DEF Push
  <2> QED BY <2>1, <2>2
<1>9. /\ x \in Calls
      /\ \/ x = Over
         \/ /\ x.st = "asked" /\ RequestFits(n, p, x.req) /\ x.req.op = "append"
            /\ k \in 1 .. Len(node[n].log) + 1 /\ x.req = AppendRequest(n, p, k)
            /\ x.req.prev + Len(x.req.entries) = Len(node[n].log)
  <2>1. CASE x = Over
    BY <2>1, ConstantCalls
  <2>2. CASE k \in 1 .. Len(node[n].log) + 1 /\ x = Asked(AppendRequest(n, p, k))
    <3>1. PICK m : m = AppendRequest(n, p, k)
      OBVIOUS
    <3>2. /\ m \in AppendRequests /\ m.from = n /\ m.to = p /\ m.term = mine[n] /\ m.op = "append"
          /\ m.prev + Len(m.entries) = Len(node[n].log)
      <4>1. OwnRequest(n, p, m)
        BY <1>0, <1>7, <2>2, <3>1, OwnSliceAgrees
      <4> QED BY <4>1 DEF OwnRequest
    <3>3. m \in Requests
      BY <3>2 DEF Requests
    <3>4. x \in Calls /\ x.st = "asked" /\ x.req = m
      BY <2>2, <3>1, <3>3, AskedIs
    <3> QED BY <1>0, <1>5, <2>2, <3>1, <3>2, <3>4 DEF RequestFits
  <2> QED BY <1>8, <2>1, <2>2
<1>10. /\ call' \in [Nodes -> [Nodes -> Calls]] /\ call'[n][p] = x
       /\ \A q \in Nodes \ {p} : call'[n][q] = call[n][q]
       /\ \A q \in Nodes \ {n} : call'[q] = call[q]
  BY <1>0, <1>8, <1>9, OneCallMoves
<1>11. TypeOK'
  BY <1>0, <1>5, <1>10 DEF TypeOK
<1>12. GoesOn(n)
  <2>1. CallMoves(n)
    <3>1. call[n][p] # Over /\ Over.st # "asked"
      BY <1>5, ConstantCalls
    <3> QED BY <1>9, <1>10, <3>1 DEF CallMoves
  <2>2. AnswersHonest(n)
    BY <1>5, <1>9, <1>10, ConstantCalls DEF AnswersHonest
  <2> QED BY <1>5, <2>1, <2>2 DEF GoesOn, Counts
<1>13. SendsOwn(n)
  BY <1>9, <1>10, ConstantCalls DEF SendsOwn
<1>14. OfficeFits(n)'
  <2>1. OfficeFits(n)
    BY <1>0 DEF LogInv
  <2>2. x.st = "asked" => x.req.prev + Len(x.req.entries) <= Len(node[n].log)
    BY <1>4, <1>9, ConstantCalls
  <2>3. x.st # "answered"
    BY <1>9, ConstantCalls
  <2> QED BY <1>5, <1>10, <2>1, <2>2, <2>3 DEF OfficeFits
<1>15. \A q \in Nodes \ {n} : node'[q] = node[q] /\ Still(q) /\ nextIndex'[q] = nextIndex[q]
  BY <1>5, <1>10 DEF Still
<1>16. LateMoves /\ elected' = elected /\ node'[n] = node[n] /\ node[n].term >= node[n].term
  BY <1>2, <1>5 DEF LateMoves
<1> QED BY <1>11, <1>12, <1>13, <1>14, <1>15, <1>16, OneNodeStep

\* An answer in the call of a leadership.
LEMMA PushEndsStep ==
    ASSUME RaftInv, NEW n \in Nodes, NEW p \in Peers(n), NEW x \in {Idle, Over},
           doing[n] = "lead", call[n][p].st = "answered", call' = [call EXCEPT ![n][p] = x],
           doing' = doing, mine' = mine, granted' = granted, late' = late, env' = env,
           elected' = elected,
           node' \in [Nodes -> NodeRecords], \A q \in Nodes \ {n} : node'[q] = node[q],
           disk' = [q \in Nodes |-> <<State(node'[q])>>],
           node'[n].log = node[n].log, node'[n].term >= node[n].term,
           node'[n].term = node[n].term => node'[n].vote = node[n].vote,
           \/ node'[n].role = "follower"
           \/ node'[n].role = node[n].role /\ node'[n].term = node[n].term,
           nextIndex' \in [Nodes -> [Nodes -> Nat \ {0}]],
           matchIndex' \in [Nodes -> [Nodes -> Nat]],
           \A q \in Nodes \ {n} : nextIndex'[q] = nextIndex[q],
           \A q \in Nodes : \/ nextIndex'[n][q] = nextIndex[n][q]
                            \/ q = p /\ nextIndex'[n][q] = call[n][p].upTo + 1
    PROVE  QuietStep
<1>0. TypeOK /\ TaskInv /\ LogInv /\ p \in Nodes /\ p # n
  BY DEF RaftInv, Peers
<1>1. x \in Calls /\ x.st \in {"idle", "over"}
  BY ConstantCalls
<1>2. /\ call' \in [Nodes -> [Nodes -> Calls]] /\ call'[n][p] = x
      /\ \A q \in Nodes \ {p} : call'[n][q] = call[n][q]
      /\ \A q \in Nodes \ {n} : call'[q] = call[q]
  BY <1>0, <1>1, OneCallMoves
<1>3. TypeOK'
  BY <1>0, <1>2 DEF TypeOK
<1>4. GoesOn(n)
  <2>1. CallMoves(n)
    <3>1. call[n][p] # Over
      BY ConstantCalls
    <3> QED BY <1>1, <1>2, <3>1 DEF CallMoves
  <2>2. AnswersHonest(n)
    BY <1>1, <1>2 DEF AnswersHonest
  <2> QED BY <2>1, <2>2 DEF GoesOn, Counts
<1>5. SendsOwn(n)
  BY <1>1, <1>2 DEF SendsOwn
<1>6. OfficeFits(n)'
  <2>1. OfficeFits(n)
    BY <1>0 DEF LogInv
  <2>2. SUFFICES ASSUME node'[n].role = "leader", NEW q \in Nodes
                 PROVE  /\ nextIndex'[n][q] <= Len(node'[n].log) + 1
                        /\ call'[n][q].st = "asked" =>
                              call'[n][q].req.prev + Len(call'[n][q].req.entries) <= Len(node'[n].log)
                        /\ call'[n][q].st = "answered" => call'[n][q].upTo <= Len(node'[n].log)
    BY DEF OfficeFits
  <2>3. node[n].role = "leader"
    BY <2>2
  <2>4. nextIndex'[n][q] <= Len(node[n].log) + 1
    <3>1. CASE nextIndex'[n][q] = nextIndex[n][q]
      BY <2>1, <2>3, <3>1 DEF OfficeFits
    <3>2. CASE nextIndex'[n][q] = call[n][p].upTo + 1
      <4>1. call[n][p].upTo <= Len(node[n].log)
        BY <1>0, <2>1, <2>3 DEF OfficeFits
      <4>2. call[n][p] \in Calls /\ node[n] \in NodeRecords
        BY <1>0 DEF TypeOK
      <4>3. call[n][p].upTo \in Nat /\ node[n].log \in Seq(Entries)
        BY <4>2, CallShapes DEF NodeRecords
      <4>4. Len(node[n].log) \in Nat
        BY <4>3
      <4>5. \A a, b \in Nat : a <= b => a + 1 <= b + 1
        OBVIOUS
      <4> QED BY <3>2, <4>1, <4>3, <4>4, <4>5
    <3> QED BY <3>1, <3>2
  <2>5. call'[n][q] = call[n][q] \/ call'[n][q].st \in {"idle", "over"}
    BY <1>1, <1>2
  <2> QED BY <2>1, <2>3, <2>4, <2>5 DEF OfficeFits
<1>7. \A q \in Nodes \ {n} : node'[q] = node[q] /\ Still(q) /\ nextIndex'[q] = nextIndex[q]
  BY <1>2 DEF Still
<1>8. LateMoves
  BY DEF LateMoves
<1> QED BY <1>3, <1>4, <1>5, <1>6, <1>7, <1>8, OneNodeStep

LEMMA CommitMarkIs ==
    ASSUME TypeOK, NEW n \in Nodes, NEW c, c = CommitMark(n)
    PROVE  /\ c \in Nat
           /\ \/ c = node[n].commit
              \/ /\ c \in 1 .. Len(node[n].log) /\ Replicas(n, c) >= Quorum
                 /\ node[n].log[c].term = mine[n]
<1>1. node[n] \in NodeRecords
  BY DEF TypeOK
<1>2. node[n].commit \in Nat /\ node[n].log \in Seq(Entries)
  BY <1>1 DEF NodeRecords
<1>3. PICK k \in Nat : k = Len(node[n].log)
  BY <1>2
<1>4. PICK S : S = {i \in node[n].commit + 1 .. Len(node[n].log) : Replicas(n, i) >= Quorum}
  OBVIOUS
<1>5. S \in SUBSET (0 .. k)
  BY <1>2, <1>3, <1>4
<1>6. CASE c = node[n].commit
  BY <1>2, <1>6
<1>7. CASE c # node[n].commit
  <2>1. S # {} /\ c = Max(S) /\ node[n].log[Max(S)].term = mine[n]
    BY <1>4, <1>7 DEF CommitMark, commit_own_term_only
  <2>2. c \in S
    BY <1>5, <2>1, MaxIn
  <2>3. c \in node[n].commit + 1 .. Len(node[n].log) /\ Replicas(n, c) >= Quorum
    BY <1>4, <2>2
  <2> QED BY <1>2, <1>3, <2>1, <2>3
<1> QED BY <1>6, <1>7

LEMMA PushAcceptedStep ==
    ASSUME RaftInv, NEW n \in Nodes, NEW p \in Peers(n), PushAccepted(n, p),
           doing[n] = "lead", call[n][p].st = "answered", disk' = disk,
           doing' = doing, mine' = mine, granted' = granted, late' = late, env' = env,
           elected' = elected
    PROVE  QuietStep
<1>0. TypeOK /\ p \in Nodes /\ p # n
  BY DEF RaftInv, Peers
<1>1. node[n] \in NodeRecords /\ call[n][p] \in Calls
  BY <1>0 DEF TypeOK
<1>2. PICK u \in Nat : u = call[n][p].upTo
  BY <1>1, CallShapes
<1>3. PICK k \in Nat : k = CommitMark(n)
  BY <1>0, CommitMarkIs
<1>4. /\ matchIndex' = [matchIndex EXCEPT ![n][p] = u]
      /\ nextIndex' = [nextIndex EXCEPT ![n][p] = u + 1]
      /\ call' = [call EXCEPT ![n][p] = Idle]
      /\ node' = [node EXCEPT ![n].commit = k]
  BY <1>2, <1>3 DEF PushAccepted
<1> DEFINE s == [node[n] EXCEPT !.commit = k]
<1>5. /\ s \in NodeRecords /\ s.term = node[n].term /\ s.vote = node[n].vote
      /\ s.role = node[n].role /\ s.log = node[n].log
  BY <1>1, Zenon DEF NodeRecords
<1>6. node' = [node EXCEPT ![n] = s]
  BY <1>0, <1>4, Zenon DEF TypeOK
<1> HIDE DEF s
<1>7. /\ node' \in [Nodes -> NodeRecords] /\ node'[n] = s
      /\ \A q \in Nodes \ {n} : node'[q] = node[q]
  BY <1>0, <1>5, <1>6, NodeSet
<1>8. State(node'[n]) = State(node[n])
  BY <1>5, <1>7 DEF State
<1>9. disk' = [q \in Nodes |-> <<State(node'[q])>>]
  BY <1>0, <1>7, <1>8, DiskFollows
<1>10. /\ nextIndex' \in [Nodes -> [Nodes -> Nat \ {0}]]
       /\ \A q \in Nodes \ {n} : nextIndex'[q] = nextIndex[q]
       /\ \A q \in Nodes : nextIndex'[n][q] = nextIndex[n][q] \/ (q = p /\ nextIndex'[n][q] = u + 1)
  <2>1. nextIndex \in [Nodes -> [Nodes -> Nat \ {0}]] /\ u + 1 \in Nat \ {0}
    BY <1>0 DEF TypeOK
  <2> QED BY <1>0, <1>4, <2>1
<1>11. matchIndex' \in [Nodes -> [Nodes -> Nat]]
  BY <1>0, <1>4 DEF TypeOK
<1>12. node[n].term >= node[n].term
  <2>1. node[n].term \in Nat
    BY <1>1 DEF NodeRecords
  <2> QED BY <2>1
<1> QED BY <1>2, <1>4, <1>5, <1>7, <1>9, <1>10, <1>11, <1>12, PushEndsStep

LEMMA PushRefusedStep ==
    ASSUME RaftInv, NEW n \in Nodes, NEW p \in Peers(n), PushRefused(n, p), InOffice(n),
           doing[n] = "lead", call[n][p].st = "answered", disk' = disk,
           doing' = doing, mine' = mine, granted' = granted, late' = late, env' = env,
           elected' = elected
    PROVE  QuietStep
<1>0. TypeOK /\ TaskInv /\ LogInv /\ p \in Nodes /\ p # n
  BY DEF RaftInv, Peers
<1>1. node[n] \in NodeRecords /\ nextIndex[n][p] \in Nat \ {0}
  BY <1>0 DEF TypeOK
<1>2. node[n].log \in Seq(Entries) /\ node[n].term \in Nat
  BY <1>1 DEF NodeRecords
<1>3. Len(node[n].log) \in Nat
  BY <1>2
<1>4. OfficeFits(n) /\ node[n].role = "leader"
  BY <1>0 DEF LogInv, InOffice
<1>5. nextIndex[n][p] <= Len(node[n].log) + 1
  BY <1>0, <1>4 DEF OfficeFits
<1>6. PICK k \in Nat \ {0} : /\ k = IF nextIndex[n][p] > 1 THEN nextIndex[n][p] - 1 ELSE 1
                             /\ k <= nextIndex[n][p]
  BY <1>1
<1>7. k \in 1 .. Len(node[n].log) + 1
  BY <1>1, <1>3, <1>5, <1>6
<1>8. PICK m : m = AppendRequest(n, p, k)
  OBVIOUS
<1>9. /\ nextIndex' = [nextIndex EXCEPT ![n][p] = k]
      /\ call' = [call EXCEPT ![n][p] = Asked(m)]
      /\ node' = node /\ matchIndex' = matchIndex
  BY <1>6, <1>8 DEF PushRefused
<1>10. PICK L \in [Terms -> Seq(Entries)] : LogsAgree(L)
  BY <1>0 DEF LogInv
<1>11. Agrees(node[n].log, L)
  BY <1>10 DEF LogsAgree
<1>12. /\ m \in AppendRequests /\ m.from = n /\ m.to = p /\ m.term = mine[n] /\ m.op = "append"
       /\ m.prev + Len(m.entries) = Len(node[n].log)
  <2>1. OwnRequest(n, p, m)
    BY <1>0, <1>7, <1>8, <1>11, OwnSliceAgrees
  <2> QED BY <2>1 DEF OwnRequest
<1>13. m \in Requests
  BY <1>12 DEF Requests
<1>14. Asked(m) \in Calls /\ Asked(m).st = "asked" /\ Asked(m).req = m
  BY <1>13, AskedIs
<1>15. /\ call' \in [Nodes -> [Nodes -> Calls]] /\ call'[n][p] = Asked(m)
       /\ \A q \in Nodes \ {p} : call'[n][q] = call[n][q]
       /\ \A q \in Nodes \ {n} : call'[q] = call[q]
  BY <1>0, <1>9, <1>14, OneCallMoves
<1>16. /\ nextIndex' \in [Nodes -> [Nodes -> Nat \ {0}]] /\ nextIndex'[n][p] = k
       /\ \A q \in Nodes \ {p} : nextIndex'[n][q] = nextIndex[n][q]
       /\ \A q \in Nodes \ {n} : nextIndex'[q] = nextIndex[q]
  BY <1>0, <1>9 DEF TypeOK
<1>17. TypeOK'
  BY <1>0, <1>9, <1>15, <1>16 DEF TypeOK
<1>18. GoesOn(n)
  <2>1. CallMoves(n)
    <3>1. call[n][p] # Over
      BY ConstantCalls
    <3>2. RequestFits(n, p, m)
      BY <1>0, <1>12 DEF RequestFits
    <3> QED BY <1>14, <1>15, <3>1, <3>2 DEF CallMoves
  <2>2. AnswersHonest(n)
    BY <1>14, <1>15 DEF AnswersHonest
  <2> QED BY <2>1, <2>2 DEF GoesOn, Counts
<1>19. SendsOwn(n)
  BY <1>7, <1>8, <1>14, <1>15 DEF SendsOwn
<1>20. OfficeFits(n)'
  <2>1. k <= Len(node[n].log) + 1 /\ m.prev + Len(m.entries) <= Len(node[n].log)
    BY <1>3, <1>7, <1>12
  <2>2. SUFFICES ASSUME NEW q \in Nodes
                 PROVE  /\ nextIndex'[n][q] <= Len(node[n].log) + 1
                        /\ call'[n][q].st = "asked" =>
                              call'[n][q].req.prev + Len(call'[n][q].req.entries) <= Len(node[n].log)
                        /\ call'[n][q].st = "answered" => call'[n][q].upTo <= Len(node[n].log)
    BY <1>9 DEF OfficeFits
  <2>3. CASE q = p
    BY <1>14, <1>15, <1>16, <2>1, <2>3
  <2>4. CASE q # p
    BY <1>4, <1>15, <1>16, <2>4 DEF OfficeFits
  <2> QED BY <2>3, <2>4
<1>21. \A q \in Nodes \ {n} : node'[q] = node[q] /\ Still(q) /\ nextIndex'[q] = nextIndex[q]
  BY <1>9, <1>15, <1>16 DEF Still
<1>22. LateMoves /\ node'[n] = node[n] /\ node[n].term >= node[n].term
  BY <1>2, <1>9 DEF LateMoves
<1> QED BY <1>17, <1>18, <1>19, <1>20, <1>21, <1>22, OneNodeStep

LEMMA PushRepliedStep ==
    ASSUME RaftInv, NEW n \in Nodes, NEW p \in Peers(n), PushReplied(n, p)
    PROVE  QuietStep
<1>0. TypeOK /\ p \in Nodes
  BY DEF RaftInv, Peers
<1>1. PICK r : r = call[n][p].reply
  OBVIOUS
<1>2. /\ doing[n] = "lead" /\ call[n][p].st = "answered"
      /\ doing' = doing /\ mine' = mine /\ granted' = granted
      /\ late' = late /\ env' = env /\ elected' = elected
  BY DEF PushReplied
<1>3. node[n] \in NodeRecords /\ call[n][p] \in Calls
  BY <1>0 DEF TypeOK
<1>4. r.term \in Nat /\ node[n].term \in Nat
  <2>1. r \in Replies
    BY <1>1, <1>2, <1>3, CallShapes
  <2> QED BY <1>3, <2>1 DEF Replies, NodeRecords
<1>5. CASE /\ r.term > node[n].term /\ node' = [node EXCEPT ![n] = BecomeFollower(@, r.term)]
           /\ Persist(n) /\ call' = [call EXCEPT ![n][p] = Over]
           /\ nextIndex' = nextIndex /\ matchIndex' = matchIndex
  <2>1. /\ node' \in [Nodes -> NodeRecords] /\ \A q \in Nodes \ {n} : node'[q] = node[q]
        /\ disk' = [q \in Nodes |-> <<State(node'[q])>>]
        /\ node'[n].log = node[n].log /\ node'[n].term > node[n].term
        /\ node'[n].term \in Nat /\ node'[n].role = "follower"
    BY <1>0, <1>4, <1>5, Deposed
  <2>2. node'[n].term >= node[n].term /\ node'[n].term # node[n].term
    BY <1>4, <2>1
  <2>3. nextIndex' \in [Nodes -> [Nodes -> Nat \ {0}]] /\ matchIndex' \in [Nodes -> [Nodes -> Nat]]
    BY <1>0, <1>5 DEF TypeOK
  <2> QED BY <1>2, <1>5, <2>1, <2>2, <2>3, PushEndsStep
<1>6. CASE /\ call' = [call EXCEPT ![n][p] = Over] /\ node' = node /\ disk' = disk
           /\ nextIndex' = nextIndex /\ matchIndex' = matchIndex
  <2>1. /\ node' \in [Nodes -> NodeRecords] /\ disk' = [q \in Nodes |-> <<State(node'[q])>>]
        /\ nextIndex' \in [Nodes -> [Nodes -> Nat \ {0}]] /\ matchIndex' \in [Nodes -> [Nodes -> Nat]]
    BY <1>0, <1>6 DEF TypeOK
  <2>2. node'[n].term >= node[n].term
    BY <1>4, <1>6
  <2> QED BY <1>2, <1>6, <2>1, <2>2, PushEndsStep
<1>7. CASE PushAccepted(n, p) /\ disk' = disk
  BY <1>2, <1>7, PushAcceptedStep
<1>8. CASE PushRefused(n, p) /\ InOffice(n) /\ disk' = disk
  BY <1>2, <1>8, PushRefusedStep
<1> QED BY <1>1, <1>5, <1>6, <1>7, <1>8 DEF PushReplied, leaderVars

-----------------------------------------------------------------------------
(***************************************************************************)
(* Requests.                                                               *)
(***************************************************************************)

\* What the answer to m does to the call of q for p.
Answers(m, r, q, p) ==
    /\ q = m.from /\ p = m.to /\ call[q][p] = Asked(m)
    /\ call'[q][p].st = "answered" /\ call'[q][p].reply = r
    /\ call'[q][p].upTo = IF m.op = "append" THEN m.prev + Len(m.entries) ELSE 0

LEMMA ReplyIs ==
    ASSUME TypeOK, NEW m \in Requests, NEW r \in Replies, Reply(m, r)
    PROVE  /\ call' \in [Nodes -> [Nodes -> Calls]] /\ late' \subseteq late
           /\ \A q, p \in Nodes : call'[q][p] = call[q][p] \/ Answers(m, r, q, p)
<1>1. m.from \in Nodes /\ m.to \in Nodes
  BY RequestShapes
<1>2. PICK u : u = IF m.op = "append" THEN m.prev + Len(m.entries) ELSE 0
  OBVIOUS
<1>3. u \in Nat
  <2>1. CASE m.op = "append"
    <3>1. m \in AppendRequests
      BY <2>1, RequestShapes
    <3>2. m.prev \in Nat /\ m.entries \in Seq(Entries)
      BY <3>1 DEF AppendRequests
    <3>3. Len(m.entries) \in Nat
      BY <3>2
    <3> QED BY <1>2, <2>1, <3>2, <3>3
  <2>2. CASE m.op # "append"
    BY <1>2, <2>2
  <2> QED BY <2>1, <2>2
<1>4. /\ Answered(u, r) \in Calls /\ Answered(u, r).st = "answered"
      /\ Answered(u, r).upTo = u /\ Answered(u, r).reply = r
  BY <1>3, AnsweredIs
<1>5. CASE m \in late /\ late' = late \ {m} /\ call' = call
  BY <1>5 DEF TypeOK
<1>6. CASE /\ call[m.from][m.to] = Asked(m) /\ late' = late
           /\ call' = [call EXCEPT ![m.from][m.to] = Answered(u, r)]
  <2>1. /\ call' \in [Nodes -> [Nodes -> Calls]] /\ call'[m.from][m.to] = Answered(u, r)
        /\ \A q \in Nodes \ {m.to} : call'[m.from][q] = call[m.from][q]
        /\ \A q \in Nodes \ {m.from} : call'[q] = call[q]
    BY <1>1, <1>4, <1>6, OneCallMoves
  <2>2. Answers(m, r, m.from, m.to)
    BY <1>2, <1>4, <1>6, <2>1 DEF Answers
  <2>3. \A q, p \in Nodes : call'[q][p] = call[q][p] \/ (q = m.from /\ p = m.to)
    BY <1>1, <2>1
  <2> QED BY <1>6, <2>1, <2>2, <2>3
<1> QED BY <1>2, <1>5, <1>6 DEF Reply

LEMMA HandlerStep ==
    ASSUME RaftInv, NEW m \in InFlight, NEW r \in Replies, Reply(m, r),
           NEW s \in NodeRecords, node' = [node EXCEPT ![m.to] = s],
           disk' = [disk EXCEPT ![m.to] = <<State(s)>>],
           s.term >= node[m.to].term,
           s.term = node[m.to].term => node[m.to].vote \in {Nobody, s.vote},
           s.role = "follower" \/ (s.role = node[m.to].role /\ s.term = node[m.to].term),
           s.role = "leader" => s.log = node[m.to].log,
           \A L \in [Terms -> Seq(Entries)] : LogsAgree(L) => Agrees(s.log, L),
           m.op = "vote" /\ r.ok => s.term = m.term /\ s.vote = m.from,
           doing' = doing, mine' = mine, granted' = granted, env' = env, elected' = elected,
           nextIndex' = nextIndex, matchIndex' = matchIndex
    PROVE  RaftStep /\ Quiet /\ (s.log = node[m.to].log => LogsKept)
<1>0. TypeOK /\ TaskInv /\ BallotInv /\ LogInv
  BY DEF RaftInv
<1>1. m \in Requests
  BY <1>0, InFlightIs
<1>2. m.from \in Nodes /\ m.to \in Nodes /\ m.term \in Nat /\ m.op \in {"vote", "append"}
  BY <1>1, RequestShapes
<1>3. /\ call' \in [Nodes -> [Nodes -> Calls]] /\ late' \subseteq late
      /\ \A q, p \in Nodes : call'[q][p] = call[q][p] \/ Answers(m, r, q, p)
  BY <1>0, <1>1, ReplyIs
<1>4. /\ node' \in [Nodes -> NodeRecords] /\ node'[m.to] = s
      /\ \A q \in Nodes \ {m.to} : node'[q] = node[q]
  BY <1>0, <1>2, NodeSet
<1>5. disk' = [q \in Nodes |-> <<State(node'[q])>>]
  BY <1>0, <1>2, <1>4, DiskFollows
<1>6. TypeOK'
  BY <1>0, <1>3, <1>4, <1>5 DEF TypeOK
<1>7. \A q \in Nodes : node[q].term \in Nat
  <2>1. \A q \in Nodes : node[q] \in NodeRecords
    BY <1>0 DEF TypeOK
  <2> QED BY <2>1 DEF NodeRecords
<1>8. \A q, p \in Nodes : call[q][p] = Asked(m) =>
         call[q][p].st = "asked" /\ call[q][p].req = m /\ call[q][p] # Over
  BY <1>1, AskedIs
<1>9. LateMoves
  BY <1>3 DEF LateMoves
<1>10. Quiet
  <2>1. VotesKept /\ RolesKept
    BY <1>4, <1>7 DEF VotesKept, RolesKept
  <2>2. ASSUME NEW q \in Nodes PROVE GoesOn(q)
    <3>1. CallMoves(q)
      BY <1>3, <1>8 DEF CallMoves, Answers
    <3>2. AnswersHonest(q)
      <4>1. SUFFICES ASSUME NEW p \in Nodes, call'[q][p].st = "answered", call'[q][p].reply.ok,
                            call'[q][p] # call[q][p], doing[q] = "campaign"
                     PROVE  node'[p].term = mine[q] /\ node'[p].vote = q
        BY DEF AnswersHonest
      <4>2. q = m.from /\ p = m.to /\ call[q][p] = Asked(m) /\ r.ok
        BY <1>3, <4>1 DEF Answers
      <4>3. TaskFits(q)
        BY <1>0 DEF TaskInv
      <4>4. m.op = "vote" /\ m.term = mine[q]
        BY <1>8, <4>1, <4>2, <4>3 DEF TaskFits
      <4> QED BY <1>4, <4>2, <4>4
    <3> QED BY <3>1, <3>2 DEF GoesOn, Counts
  <2> QED BY <1>9, <2>1, <2>2 DEF Quiet
<1>11. TaskInv' /\ BallotStep
  BY <1>0, <1>6, <1>10, QuietTasks, QuietBallots
<1>15. \A q \in Nodes : node'[q].role = "leader" =>
          /\ node[q].role = "leader" /\ node'[q].term = node[q].term
          /\ node'[q].log = node[q].log
  BY <1>4
<1>17. \A q \in Nodes : SendsOwn(q)
  BY <1>3 DEF SendsOwn, Answers
<1>18. ASSUME NEW q \in Nodes PROVE OfficeFits(q)'
  <2>1. OfficeFits(q)
    BY <1>0 DEF LogInv
  <2>2. SUFFICES ASSUME node'[q].role = "leader", NEW p \in Nodes
                 PROVE  /\ nextIndex'[q][p] <= Len(node'[q].log) + 1
                        /\ call'[q][p].st = "asked" =>
                              call'[q][p].req.prev + Len(call'[q][p].req.entries) <= Len(node'[q].log)
                        /\ call'[q][p].st = "answered" => call'[q][p].upTo <= Len(node'[q].log)
    BY DEF OfficeFits
  <2>3. node[q].role = "leader" /\ node'[q].log = node[q].log
    BY <1>15, <2>2
  <2>4. CASE call'[q][p] = call[q][p]
    BY <2>1, <2>3, <2>4 DEF OfficeFits
  <2>5. CASE Answers(m, r, q, p)
    <3>1. call'[q][p].st = "answered" /\ nextIndex'[q][p] <= Len(node'[q].log) + 1
      BY <2>1, <2>3, <2>5 DEF OfficeFits, Answers
    <3>2. CASE m.op = "append"
      <4>1. call[q][p].st = "asked" /\ call[q][p].req = m
        BY <1>8, <2>5 DEF Answers
      <4>2. m.prev + Len(m.entries) <= Len(node[q].log)
        BY <2>1, <2>3, <4>1 DEF OfficeFits
      <4>3. call'[q][p].upTo = m.prev + Len(m.entries)
        BY <2>5, <3>2 DEF Answers
      <4> QED BY <2>3, <3>1, <4>2, <4>3
    <3>3. CASE m.op # "append"
      <4>1. call'[q][p].upTo = 0
        BY <2>5, <3>3 DEF Answers
      <4>2. node[q].log \in Seq(Entries)
        <5>1. node[q] \in NodeRecords
          BY <1>0 DEF TypeOK
        <5> QED BY <5>1 DEF NodeRecords
      <4>3. 0 <= Len(node[q].log)
        BY <4>2
      <4> QED BY <2>3, <3>1, <4>1, <4>3
    <3> QED BY <3>2, <3>3
  <2> QED BY <1>3, <2>4, <2>5
<1>12. ASSUME NEW L \in [Terms -> Seq(Entries)], LogsAgree(L)
       PROVE  Extends(L, L) /\ Grown(L, L) /\ LogsAgree(L)'
  <2>1. Extends(L, L)
    <3>1. \A t \in Terms : L[t] \in Seq(Entries)
      OBVIOUS
    <3> QED BY <3>1 DEF Extends
  <2>2. ASSUME NEW q \in Nodes PROVE Agrees(node[q].log, L)'
    <3>1. PICK g \in Seq(Entries) : g = node'[q].log
      BY <1>4 DEF NodeRecords
    <3>2. Agrees(g, L)
      <4>1. CASE q = m.to
        BY <1>4, <1>12, <3>1, <4>1
      <4>2. CASE q # m.to
        BY <1>4, <1>12, <3>1, <4>2 DEF LogsAgree
      <4> QED BY <4>1, <4>2
    <3>3. Agrees(g, L)'
      BY <2>1, <3>2, AgreesStill
    <3> QED BY <3>1, <3>3
  <2>3. \A q \in Nodes : node'[q].role = "leader" => node'[q].log = L[node'[q].term]
    BY <1>12, <1>15 DEF LogsAgree
  <2>4. LogsAgree(L)'
    BY <1>0, <1>6, <1>9, <1>12, <1>17, <2>1, <2>2, <2>3, LogsCarry
  <2> QED BY <2>1, <2>4 DEF Grown
<1>13. LogStep
  BY <1>12, <1>18 DEF LogStep
<1>14. s.log = node[m.to].log => LogsKept
  BY <1>4, <1>15, <1>17 DEF LogsKept
<1> QED BY <1>6, <1>10, <1>11, <1>13, <1>14 DEF RaftStep

\* What a node is once it has heard of a later term.
LEMMA HeardIs ==
    ASSUME TypeOK, NEW n \in Nodes, NEW m \in Requests, NEW s, s = Heard(n, m)
    PROVE  /\ s \in NodeRecords /\ s.log = node[n].log /\ s.commit = node[n].commit
           /\ s.term \in Nat /\ s.term >= m.term /\ s.term >= node[n].term
           /\ \/ s = node[n]
              \/ s.term # node[n].term /\ s.role = "follower" /\ s.vote = Nobody
           /\ HeardDisk(n, m) = <<State(s)>>
<1>1. node[n] \in NodeRecords /\ m.term \in Nat /\ disk[n] = <<State(node[n])>>
  BY RequestShapes DEF TypeOK
<1>2. node[n].term \in Nat
  BY <1>1 DEF NodeRecords
<1>3. CASE m.term > node[n].term
  <2>1. s = BecomeFollower(node[n], m.term) /\ HeardDisk(n, m) = <<State(s)>>
    BY <1>3, SavedIs DEF Heard, HeardDisk
  <2>2. /\ s \in NodeRecords /\ s.term = m.term /\ s.role = "follower" /\ s.vote = Nobody
        /\ s.log = node[n].log /\ s.commit = node[n].commit
    BY <1>1, <2>1, FollowerIs
  <2> QED BY <1>1, <1>2, <1>3, <2>1, <2>2
<1>4. CASE ~(m.term > node[n].term)
  <2>1. s = node[n] /\ HeardDisk(n, m) = <<State(s)>>
    BY <1>1, <1>4 DEF Heard, HeardDisk
  <2> QED BY <1>1, <1>2, <1>4, <2>1
<1> QED BY <1>3, <1>4

\* A voter that gives no vote.
VoteAsBefore(p) ==
    \/ node'[p].vote = Nobody
    \/ node'[p].vote = node[p].vote /\ node'[p].term = node[p].term

LEMMA HandleRequestVoteStep ==
    ASSUME RaftInv, NEW m \in InFlight, HandleRequestVote(m)
    PROVE  /\ QuietStep /\ \A q \in Nodes \ {m.to} : node'[q] = node[q]
           /\ node'[m.to].commit = node[m.to].commit
           /\ \/ VoteAsBefore(m.to)
              \/ node'[m.to].vote = m.from /\ node'[m.to].term = m.term /\ UpToDate(node[m.to], m)
<1>0. TypeOK /\ LogInv
  BY DEF RaftInv
<1>1. m \in Requests
  BY <1>0, InFlightIs
<1>2. PICK n \in Nodes : n = m.to
  BY <1>1, RequestShapes
<1>3. m.from \in Nodes /\ m.term \in Nat
  BY <1>1, RequestShapes
<1>4. PICK s : s = Heard(n, m)
  OBVIOUS
<1>5. /\ s \in NodeRecords /\ s.log = node[n].log /\ s.commit = node[n].commit
      /\ s.term \in Nat /\ s.term >= m.term /\ s.term >= node[n].term
      /\ \/ s = node[n]
         \/ s.term # node[n].term /\ s.role = "follower" /\ s.vote = Nobody
      /\ HeardDisk(n, m) = <<State(s)>>
  BY <1>0, <1>1, <1>4, HeardIs
<1>6. PICK b \in BOOLEAN : b = Grants(s, m)
  BY DEF Grants
<1>7. PICK r : r = [term |-> s.term, ok |-> b]
  OBVIOUS
<1>8. r \in Replies /\ r.ok = b
  BY <1>5, <1>7 DEF Replies
<1>9. PICK g : g = IF b THEN [s EXCEPT !.vote = m.from] ELSE s
  OBVIOUS
<1>10. /\ g \in NodeRecords /\ g.term = s.term /\ g.role = s.role /\ g.log = s.log
       /\ g.vote = (IF b THEN m.from ELSE s.vote) /\ g.commit = s.commit
  <2>1. CASE b
    <3>1. g = [s EXCEPT !.vote = m.from]
      BY <1>9, <2>1
    <3>2. /\ g \in NodeRecords /\ g.term = s.term /\ g.role = s.role /\ g.log = s.log
          /\ g.vote = m.from /\ g.commit = s.commit
      BY <1>3, <1>5, <3>1, Zenon DEF NodeRecords
    <3> QED BY <2>1, <3>2
  <2>2. CASE ~b
    BY <1>5, <1>9, <2>2
  <2> QED BY <2>1, <2>2
<1>11. b => m.term >= s.term /\ s.vote \in {Nobody, m.from}
  BY <1>6 DEF Grants, reject_stale_term, one_vote_per_term
<1>12. /\ m.op = "vote" /\ Reply(m, r) /\ node' = [node EXCEPT ![n] = g]
       /\ doing' = doing /\ mine' = mine /\ granted' = granted /\ env' = env
       /\ elected' = elected /\ nextIndex' = nextIndex /\ matchIndex' = matchIndex
  BY <1>2, <1>4, <1>6, <1>7, <1>9, Zenon DEF HandleRequestVote, leaderVars, histVars
<1>13. node'[n] = g
  BY <1>0, <1>2, <1>10, <1>12, NodeSet
<1>a. \A q \in Nodes \ {n} : node'[q] = node[q]
  BY <1>0, <1>2, <1>10, <1>12, NodeSet
<1>14. disk' = [disk EXCEPT ![n] = <<State(g)>>]
  <2>1. disk' = [disk EXCEPT ![n] = IF Grants(s, m) THEN Saved(HeardDisk(n, m), node'[n], TRUE)
                                    ELSE HeardDisk(n, m)]
    BY <1>2, <1>4 DEF HandleRequestVote, sync_before_vote
  <2>2. (IF Grants(s, m) THEN Saved(HeardDisk(n, m), node'[n], TRUE) ELSE HeardDisk(n, m))
           = <<State(g)>>
    BY <1>5, <1>6, <1>9, <1>13, SavedIs
  <2> QED BY <2>1, <2>2
<1>15. ASSUME NEW L \in [Terms -> Seq(Entries)], LogsAgree(L) PROVE Agrees(g.log, L)
  BY <1>5, <1>10, <1>15 DEF LogsAgree
<1>16. g.term = node[n].term => node[n].vote \in {Nobody, g.vote}
  BY <1>5, <1>10, <1>11
<1>17. g.role = "follower" \/ (g.role = node[n].role /\ g.term = node[n].term)
  BY <1>5, <1>10
<1>18. g.term >= node[n].term
  BY <1>5, <1>10
<1>19. m.op = "vote" /\ r.ok => g.term = m.term /\ g.vote = m.from
  BY <1>3, <1>5, <1>8, <1>10, <1>11
<1>20. RaftStep /\ Quiet /\ (g.log = node[n].log => LogsKept)
  BY <1>2, <1>5, <1>8, <1>10, <1>12, <1>14, <1>15, <1>16, <1>17, <1>18, <1>19, HandlerStep
<1>21. QuietStep /\ node'[n].commit = node[n].commit
  BY <1>5, <1>10, <1>13, <1>20 DEF QuietStep
<1>22. CASE b
  <2>0. Grants(s, m) => UpToDate(s, m)
    BY DEF Grants, check_log_up_to_date
  <2>1. UpToDate(s, m) /\ g.vote = m.from /\ g.term = m.term
    BY <1>3, <1>5, <1>6, <1>10, <1>11, <1>22, <2>0
  <2>2. LastTerm(s) = LastTerm(node[n])
    BY <1>5 DEF LastTerm
  <2>3. UpToDate(node[n], m)
    BY <1>5, <2>1, <2>2 DEF UpToDate
  <2> QED BY <1>2, <1>13, <1>a, <1>21, <2>1, <2>3
<1>23. CASE ~b
  <2>1. VoteAsBefore(n)
    BY <1>5, <1>10, <1>13, <1>23 DEF VoteAsBefore
  <2> QED BY <1>2, <1>a, <1>21, <2>1
<1> QED BY <1>22, <1>23

\* A leader takes no entries for the term it leads: nobody else sends them.
LEMMA LeaderTakesNothing ==
    ASSUME TypeOK, TaskInv, BallotInv, NEW m \in InFlight, m.op = "append",
           m.term = node[m.to].term, node[m.to].role = "leader"
    PROVE  FALSE
<1>1. m \in Requests /\ m.to \in Nodes
  BY InFlightIs, RequestShapes
<1>2. FromLeader(m)
  BY InFlightIs DEF TaskInv, SentByLeaders
<1>3. m.term \in Terms /\ m.from \in elected[m.term] /\ m.to # m.from
  BY <1>2 DEF FromLeader
<1>4. m.to \in elected[m.term]
  BY <1>1, LeaderLed
<1> QED BY <1>3, <1>4, OneLeader

\* A follower takes the entries of m, or it has refused.
TookEntries(m) ==
    /\ m.prev <= Len(node[m.to].log)
    /\ m.prev > 0 => node[m.to].log[m.prev].term = m.prevTerm
    /\ node'[m.to].log = Merged(node[m.to].log, m.prev, m.entries)
    /\ node'[m.to].term = m.term /\ node'[m.to].role = "follower"
    /\ node'[m.to].commit \in {node[m.to].commit, Min({m.commit, m.prev + Len(m.entries)})}

TookNothing(m) ==
    /\ node'[m.to].commit = node[m.to].commit /\ committed' = committed
    /\ \E r : Reply(m, r) /\ r.ok = FALSE

LEMMA HandleAppendEntriesStep ==
    ASSUME RaftInv, NEW m \in InFlight, HandleAppendEntries(m)
    PROVE  /\ RaftStep /\ Quiet /\ \A q \in Nodes \ {m.to} : node'[q] = node[q]
           /\ VoteAsBefore(m.to)
           /\ TookEntries(m) \/ (LogsKept /\ TookNothing(m))
<1>0. TypeOK /\ TaskInv /\ BallotInv /\ LogInv
  BY DEF RaftInv
<1>1. m \in Requests /\ m.op = "append"
  BY <1>0, InFlightIs DEF HandleAppendEntries
<1>2. PICK n \in Nodes : n = m.to
  BY <1>1, RequestShapes
<1>3. m \in AppendRequests /\ m.term \in Nat
  BY <1>1, RequestShapes
<1>4. m.prev \in Nat /\ m.entries \in Seq(Entries) /\ m.commit \in Nat
  BY <1>3 DEF AppendRequests
<1>5. PICK s : s = Heard(n, m)
  OBVIOUS
<1>6. /\ s \in NodeRecords /\ s.log = node[n].log /\ s.commit = node[n].commit
      /\ s.term \in Nat /\ s.term >= m.term /\ s.term >= node[n].term
      /\ \/ s = node[n]
         \/ s.term # node[n].term /\ s.role = "follower" /\ s.vote = Nobody
      /\ HeardDisk(n, m) = <<State(s)>>
  BY <1>0, <1>1, <1>5, HeardIs
<1>7. PICK stale \in BOOLEAN : stale = (reject_stale_term /\ m.term < s.term)
  OBVIOUS
<1>8. PICK f : f = IF s.role = "candidate" THEN [s EXCEPT !.role = "follower"] ELSE s
  OBVIOUS
<1>9. /\ f \in NodeRecords /\ f.term = s.term /\ f.vote = s.vote /\ f.log = s.log
      /\ f.commit = s.commit
      /\ f.role = IF s.role = "candidate" THEN "follower" ELSE s.role
  <2>1. CASE s.role = "candidate"
    <3>1. f = [s EXCEPT !.role = "follower"]
      BY <1>8, <2>1
    <3>2. /\ f \in NodeRecords /\ f.term = s.term /\ f.vote = s.vote /\ f.log = s.log
          /\ f.commit = s.commit /\ f.role = "follower"
      BY <1>6, <3>1, Zenon DEF NodeRecords
    <3> QED BY <2>1, <3>2
  <2>2. CASE s.role # "candidate"
    BY <1>6, <1>8, <2>2
  <2> QED BY <2>1, <2>2
<1>10. PICK ok \in BOOLEAN : ok = (~stale /\ Matches(f, m))
  OBVIOUS
<1>11. PICK r : r = [term |-> s.term, ok |-> ok]
  OBVIOUS
<1>12. r \in Replies
  BY <1>6, <1>11 DEF Replies
<1>13. PICK upTo : upTo = Min({m.commit, m.prev + Len(m.entries)})
  OBVIOUS
<1>14. PICK h : h = [f EXCEPT !.log = Merged(f.log, m.prev, m.entries),
                              !.commit = Max({f.commit, upTo})]
  OBVIOUS
<1>15. PICK g : g = IF stale THEN s ELSE IF ok THEN h ELSE f
  OBVIOUS
<1>16. /\ Reply(m, r) /\ node' = [node EXCEPT ![n] = g]
       /\ disk' = [disk EXCEPT ![n] = IF ok THEN Saved(HeardDisk(n, m), node'[n], TRUE)
                                      ELSE HeardDisk(n, m)]
       /\ doing' = doing /\ mine' = mine /\ granted' = granted /\ env' = env
       /\ elected' = elected /\ nextIndex' = nextIndex /\ matchIndex' = matchIndex
  <2>1. Reply(m, r)
    BY <1>2, <1>5, <1>7, <1>8, <1>10, <1>11 DEF HandleAppendEntries
  <2>2. CASE ok
    BY <1>2, <1>5, <1>7, <1>8, <1>10, <1>13, <1>14, <1>15, <2>1, <2>2
    DEF HandleAppendEntries, sync_before_ack, leaderVars
  <2>3. CASE ~ok
    BY <1>2, <1>5, <1>7, <1>8, <1>10, <1>15, <2>1, <2>3
    DEF HandleAppendEntries, leaderVars
  <2> QED BY <2>2, <2>3
<1>17. ok => /\ h \in NodeRecords /\ h.term = f.term /\ h.vote = f.vote /\ h.role = f.role
             /\ h.log = Merged(f.log, m.prev, m.entries) /\ h.commit \in {f.commit, upTo}
             /\ \A L \in [Terms -> Seq(Entries)] : LogsAgree(L) => Agrees(h.log, L)
  <2>1. SUFFICES ASSUME ok
                 PROVE  /\ h \in NodeRecords /\ h.term = f.term /\ h.vote = f.vote
                        /\ h.role = f.role /\ h.log = Merged(f.log, m.prev, m.entries)
                        /\ h.commit \in {f.commit, upTo}
                        /\ \A L \in [Terms -> Seq(Entries)] : LogsAgree(L) => Agrees(h.log, L)
    OBVIOUS
  <2>2. PICK lg \in Seq(Entries) : lg = f.log /\ lg = node[n].log
    BY <1>6, <1>9 DEF NodeRecords
  <2>3. m.prev <= Len(lg) /\ (m.prev > 0 => lg[m.prev].term = m.prevTerm)
    BY <1>10, <2>1, <2>2 DEF Matches
  <2>4. PICK mg : mg = Merged(lg, m.prev, m.entries)
    OBVIOUS
  <2>5. ASSUME NEW L \in [Terms -> Seq(Entries)], LogsAgree(L)
        PROVE  mg \in Seq(Entries) /\ Agrees(mg, L)
    <3>1. Agrees(lg, L)
      BY <2>2, <2>5 DEF LogsAgree
    <3>2. SliceAgrees(m, L)
      BY <1>0, <1>1, <2>5, InFlightIs DEF LogsAgree
    <3> QED BY <1>3, <2>3, <2>4, <3>1, <3>2, MergedAgrees
  <2>6. mg \in Seq(Entries)
    <3>1. PICK L \in [Terms -> Seq(Entries)] : LogsAgree(L)
      BY <1>0 DEF LogInv
    <3> QED BY <2>5, <3>1
  <2>7. upTo \in Nat
    <3>1. Len(m.entries) \in Nat
      BY <1>4
    <3>2. PICK a \in Nat : a = m.prev + Len(m.entries)
      BY <1>4, <3>1
    <3>3. {m.commit, a} \in SUBSET Nat /\ {m.commit, a} # {}
      BY <1>4
    <3>4. Min({m.commit, a}) \in {m.commit, a}
      BY <3>3, MinIn
    <3> QED BY <1>4, <1>13, <3>2, <3>4
  <2>8. PICK k \in Nat : k = Max({f.commit, upTo}) /\ k \in {f.commit, upTo}
    <3>1. f.commit \in Nat
      BY <1>9 DEF NodeRecords
    <3>2. PICK S : S = {f.commit, upTo}
      OBVIOUS
    <3>3. f.commit + upTo \in Nat /\ S \in SUBSET (0 .. (f.commit + upTo)) /\ S # {}
      BY <2>7, <3>1, <3>2
    <3>4. Max(S) \in S
      BY <3>3, MaxIn
    <3> QED BY <3>2, <3>3, <3>4
  <2>9. h = [f EXCEPT !.log = mg, !.commit = k]
    BY <1>14, <2>2, <2>4, <2>8, Zenon
  <2>10. /\ h \in NodeRecords /\ h.term = f.term /\ h.vote = f.vote /\ h.role = f.role
         /\ h.log = mg /\ h.commit = k
    BY <1>9, <2>6, <2>8, <2>9, Zenon DEF NodeRecords
  <2> QED BY <2>2, <2>4, <2>5, <2>8, <2>10
<1>18. /\ g \in NodeRecords /\ g.term = s.term /\ g.vote = s.vote
       /\ g.role = s.role \/ (~stale /\ s.role = "candidate" /\ g.role = "follower")
       /\ ok \/ (g.log = s.log /\ g.commit = s.commit)
       /\ ok => g = h /\ ~stale
  BY <1>6, <1>9, <1>10, <1>15, <1>17
<1>19. node'[n] = g /\ \A q \in Nodes \ {n} : node'[q] = node[q]
  BY <1>0, <1>16, <1>18, NodeSet
<1>20. disk' = [disk EXCEPT ![n] = <<State(g)>>]
  <2>1. ok => Saved(HeardDisk(n, m), node'[n], TRUE) = <<State(g)>>
    BY <1>19, SavedIs
  <2>2. ~ok => HeardDisk(n, m) = <<State(g)>>
    <3>1. ~ok => State(g) = State(s)
      BY <1>18 DEF State
    <3> QED BY <1>6, <3>1
  <2> QED BY <1>16, <2>1, <2>2
<1>21. \A L \in [Terms -> Seq(Entries)] : LogsAgree(L) => Agrees(g.log, L)
  <2>1. CASE ok
    BY <1>17, <1>18, <2>1
  <2>2. CASE ~ok
    BY <1>6, <1>18, <2>2 DEF LogsAgree
  <2> QED BY <2>1, <2>2
<1>22. ASSUME g.role = "leader" PROVE g.log = node[n].log
  <2>1. s.role = "leader" /\ s = node[n]
    BY <1>6, <1>18, <1>22
  <2>2. CASE ok
    <3>1. ~(m.term < s.term)
      BY <1>7, <1>18, <2>2 DEF reject_stale_term
    <3>2. m.term = node[n].term
      BY <1>3, <1>6, <2>1, <3>1
    <3> QED BY <1>0, <1>1, <1>2, <2>1, <3>2, LeaderTakesNothing
  <2>3. CASE ~ok
    BY <1>6, <1>18, <2>3
  <2> QED BY <2>2, <2>3
<1>23. /\ g.term >= node[n].term
       /\ g.term = node[n].term => node[n].vote \in {Nobody, g.vote}
       /\ g.role = "follower" \/ (g.role = node[n].role /\ g.term = node[n].term)
  BY <1>6, <1>18
<1>24. ~(m.op = "vote")
  BY <1>1
<1>25. RaftStep /\ Quiet /\ (g.log = node[n].log => LogsKept)
  BY <1>2, <1>12, <1>16, <1>18, <1>20, <1>21, <1>22, <1>23, <1>24, HandlerStep
<1>26. VoteAsBefore(n)
  BY <1>6, <1>18, <1>19 DEF VoteAsBefore
<1>27. CASE ok
  <2>1. ~(m.term < s.term)
    BY <1>7, <1>18, <1>27 DEF reject_stale_term
  <2>2. s.term = m.term
    BY <1>3, <1>6, <2>1
  <2>3. g.role = "follower"
    <3>1. CASE s = node[n] /\ s.role = "leader"
      BY <1>0, <1>1, <1>2, <2>2, <3>1, LeaderTakesNothing
    <3>2. CASE ~(s = node[n] /\ s.role = "leader")
      <4>1. s.role # "leader"
        BY <1>6, <3>2
      <4>2. f.role = "follower"
        BY <1>6, <1>9, <4>1 DEF NodeRecords
      <4> QED BY <1>17, <1>18, <1>27, <4>2
    <3> QED BY <3>1, <3>2
  <2>4. /\ m.prev <= Len(node[n].log) /\ (m.prev > 0 => node[n].log[m.prev].term = m.prevTerm)
        /\ g.log = Merged(node[n].log, m.prev, m.entries)
        /\ g.commit \in {node[n].commit, Min({m.commit, m.prev + Len(m.entries)})}
    BY <1>6, <1>9, <1>10, <1>13, <1>17, <1>18, <1>27 DEF Matches
  <2>5. TookEntries(m)
    BY <1>2, <1>18, <1>19, <2>2, <2>3, <2>4 DEF TookEntries
  <2> QED BY <1>2, <1>19, <1>25, <1>26, <2>5
<1>28. CASE ~ok
  <2>1. g.log = node[n].log /\ node'[n].commit = node[n].commit
    BY <1>6, <1>18, <1>19, <1>28
  <2>2. committed' = committed
    BY <1>2, <1>5, <1>7, <1>8, <1>10, <1>28 DEF HandleAppendEntries
  <2>3. TookNothing(m)
    BY <1>2, <1>11, <1>16, <1>28, <2>1, <2>2 DEF TookNothing
  <2> QED BY <1>2, <1>19, <1>25, <1>26, <2>1, <2>3
<1> QED BY <1>27, <1>28

-----------------------------------------------------------------------------
(***************************************************************************)
(* The invariant.                                                          *)
(***************************************************************************)

LEMMA InitHolds ==
    ASSUME Init
    PROVE  RaftInv
<1>1. /\ Blank.term = 0 /\ Blank.vote = Nobody /\ Blank.log = <<>>
      /\ Boot(Blank) \in NodeRecords /\ Boot(Blank).term = 0 /\ Boot(Blank).vote = Nobody
      /\ Boot(Blank).log = <<>> /\ Boot(Blank).role = "follower" /\ State(Boot(Blank)) = Blank
  <2>1. <<>> \in Seq(Entries)
    BY EmptySeq
  <2> QED BY <2>1 DEF Blank, Boot, State, NodeRecords
<1>2. /\ node = [n \in Nodes |-> Boot(Blank)] /\ disk = [n \in Nodes |-> <<Blank>>]
      /\ doing = [n \in Nodes |-> "follow"]
      /\ mine = [n \in Nodes |-> 0] /\ granted = [n \in Nodes |-> 0]
      /\ nextIndex = [n \in Nodes |-> [p \in Nodes |-> 1]]
      /\ matchIndex = [n \in Nodes |-> [p \in Nodes |-> 0]]
      /\ call = [n \in Nodes |-> [p \in Nodes |-> Over]] /\ late = {} /\ env \in Bounds
      /\ elected = [t \in Terms |-> {}]
  BY DEF Init, NoCalls, Terms
<1>3. TypeOK
  <2>1. node \in [Nodes -> NodeRecords] /\ disk = [n \in Nodes |-> <<State(node[n])>>]
    BY <1>1, <1>2
  <2>2. env \in [log : Nat, open : Nat, faults : Nat]
    BY <1>2, RaftAssumption
  <2>3. call \in [Nodes -> [Nodes -> Calls]]
    BY <1>2, ConstantCalls
  <2> QED BY <1>2, <2>1, <2>2, <2>3 DEF TypeOK
<1>4. \A n, p \in Nodes : /\ call[n][p] = Over /\ call[n][p].st = "over"
                          /\ doing[n] = "follow" /\ node[n] = Boot(Blank) /\ nextIndex[n][p] = 1
  BY <1>2, ConstantCalls
<1>5. TaskInv
  <2>1. \A n \in Nodes : TaskFits(n)
    BY <1>1, <1>4 DEF TaskFits
  <2>2. ElectedOnce /\ SentByLeaders
    BY <1>2, <1>4 DEF ElectedOnce, SentByLeaders
  <2> QED BY <2>1, <2>2 DEF TaskInv
<1>6. BallotInv
  <2>1. Votes = {}
    BY <1>1, <1>4 DEF Votes
  <2>2. BallotsFair({})
    BY <2>1 DEF BallotsFair
  <2>3. LeadersElected({})
    BY <1>2 DEF LeadersElected
  <2>4. VotesCounted({}) /\ VotesReturning({})
    BY <1>4 DEF VotesCounted, VotesReturning
  <2>5. {} \in SUBSET (Nodes \X Nat \X Nodes)
    OBVIOUS
  <2> QED BY <2>2, <2>3, <2>4, <2>5 DEF BallotInv, Ballots
<1>7. LogInv
  <2>1. PICK L : L = [t \in Terms |-> <<>>]
    OBVIOUS
  <2>2. L \in [Terms -> Seq(Entries)]
    BY <2>1, EmptySeq
  <2>3. \A n \in Nodes : node[n].log = <<>> /\ node[n].role = "follower"
    BY <1>1, <1>4
  <2>4. \A n \in Nodes : Agrees(node[n].log, L)
    <3>1. DOMAIN <<>> = {}
      OBVIOUS
    <3> QED BY <2>3, <3>1 DEF Agrees
  <2>5. LogsAgree(L)
    BY <1>2, <1>4, <2>3, <2>4 DEF LogsAgree
  <2>6. \A n \in Nodes : OfficeFits(n)
    BY <2>3 DEF OfficeFits
  <2> QED BY <2>2, <2>5, <2>6 DEF LogInv
<1> QED BY <1>3, <1>5, <1>6, <1>7 DEF RaftInv

LEMMA StutterHolds ==
    ASSUME RaftInv, UNCHANGED vars
    PROVE  QuietStep
<1>1. /\ node' = node /\ disk' = disk /\ doing' = doing /\ mine' = mine /\ granted' = granted
      /\ nextIndex' = nextIndex /\ matchIndex' = matchIndex /\ call' = call /\ late' = late
      /\ env' = env /\ elected' = elected
  BY DEF vars, leaderVars, histVars
<1>2. TypeOK'
  BY <1>1 DEF RaftInv, TypeOK
<1>3. Quiet
  <2>1. \A q \in Nodes : node[q].term \in Nat
    <3>1. \A q \in Nodes : node[q] \in NodeRecords
      BY DEF RaftInv, TypeOK
    <3> QED BY <3>1 DEF NodeRecords
  <2>2. VotesKept /\ RolesKept /\ LateMoves
    BY <1>1, <2>1 DEF VotesKept, RolesKept, LateMoves
  <2>3. \A q \in Nodes : GoesOn(q)
    BY <1>1, StillGoesOn DEF Still
  <2> QED BY <1>1, <2>2, <2>3 DEF Quiet
<1>4. LogsKept /\ \A q \in Nodes : OfficeFits(q)'
  BY <1>1 DEF LogsKept, SendsOwn, RaftInv, LogInv, OfficeFits
<1>5. LateMoves
  BY <1>3 DEF Quiet
<1>6. TaskInv' /\ BallotStep /\ LogStep
  BY <1>2, <1>3, <1>4, <1>5, QuietTasks, QuietBallots, QuietLogs DEF RaftInv
<1> QED BY <1>2, <1>3, <1>4, <1>6 DEF RaftStep, QuietStep

\* The ballots and the leaders' logs of the state before carry to the state after.
LEMMA RaftStepHolds ==
    ASSUME RaftInv, RaftStep
    PROVE  RaftInv'
<1>1. BallotInv'
  <2>1. PICK B \in SUBSET (Nodes \X Nat \X Nodes) : Ballots(B)
    BY DEF RaftInv, BallotInv
  <2>2. PICK D \in SUBSET (Nodes \X Nat \X Nodes) : Ballots(D)'
    BY <2>1 DEF RaftStep, BallotStep
  <2> QED BY <2>2 DEF BallotInv
<1>2. LogInv'
  <2>1. PICK L \in [Terms -> Seq(Entries)] : LogsAgree(L)
    BY DEF RaftInv, LogInv
  <2>2. PICK M \in [Terms -> Seq(Entries)] : LogsAgree(M)'
    BY <2>1 DEF RaftStep, LogStep
  <2> QED BY <2>2 DEF RaftStep, LogStep, LogInv
<1> QED BY <1>1, <1>2 DEF RaftStep, RaftInv

LEMMA BecomeLeaderStep ==
    ASSUME RaftInv, NEW n \in Nodes, BecomeLeader(n)
    PROVE  RaftStep
<1>1. TypeOK /\ TaskInv /\ BallotInv /\ LogInv
  BY DEF RaftInv
<1>2. TypeOK'
  BY <1>1, BecomeLeaderIs
<1>3. TaskInv' /\ BallotStep /\ LogStep
  BY <1>1, BecomeLeaderKeepsTasks, BecomeLeaderKeepsBallots, BecomeLeaderKeepsLogs
<1> QED BY <1>2, <1>3 DEF RaftStep

LEMMA ProposeStep ==
    ASSUME RaftInv, NEW n \in Nodes, NEW c \in Commands, HandlePropose(n, c)
    PROVE  RaftStep /\ Quiet
<1>1. TypeOK /\ TaskInv /\ BallotInv /\ LogInv
  BY DEF RaftInv
<1>2. TypeOK' /\ Quiet /\ LogStep
  BY <1>1, ProposeIs
<1>3. TaskInv' /\ BallotStep
  BY <1>1, <1>2, QuietTasks, QuietBallots
<1> QED BY <1>2, <1>3 DEF RaftStep

LEMMA NextIsStep ==
    ASSUME RaftInv, [Next]_vars
    PROVE  RaftStep
<1>1. ASSUME NEW n \in Nodes, FollowTimesOut(n) PROVE RaftStep
  BY <1>1, FollowTimesOutStep
<1>2. ASSUME NEW n \in Nodes, BecomeLeader(n) PROVE RaftStep
  BY <1>2, BecomeLeaderStep
<1>3. ASSUME NEW n \in Nodes, CampaignEnds(n) PROVE RaftStep
  BY <1>3, CampaignEndsStep DEF QuietStep
<1>4. ASSUME NEW n \in Nodes, LeadEnds(n) PROVE RaftStep
  BY <1>4, LeadEndsStep DEF QuietStep
<1>5. ASSUME NEW n \in Nodes, NEW c \in Commands, HandlePropose(n, c) PROVE RaftStep
  BY <1>5, ProposeStep
<1>6. ASSUME NEW n \in Nodes, NEW i \in DOMAIN disk[n], Restart(n, disk[n][i]) PROVE RaftStep
  BY <1>6, RestartStep DEF QuietStep
<1>7. ASSUME NEW n \in Nodes, NEW p \in Peers(n), Solicit(n, p) PROVE RaftStep
  BY <1>7, SolicitStep DEF QuietStep
<1>8. ASSUME NEW n \in Nodes, NEW p \in Peers(n), SolicitReplied(n, p) PROVE RaftStep
  BY <1>8, SolicitRepliedStep DEF QuietStep
<1>9. ASSUME NEW n \in Nodes, NEW p \in Peers(n), Push(n, p) PROVE RaftStep
  BY <1>9, PushStep DEF QuietStep
<1>10. ASSUME NEW n \in Nodes, NEW p \in Peers(n), PushReplied(n, p) PROVE RaftStep
  BY <1>10, PushRepliedStep DEF QuietStep
<1>11. ASSUME NEW n \in Nodes, NEW p \in Peers(n), CallFails(n, p) PROVE RaftStep
  BY <1>11, CallFailsStep DEF QuietStep
<1>12. ASSUME NEW m \in InFlight, HandleRequestVote(m) PROVE RaftStep
  BY <1>12, HandleRequestVoteStep DEF QuietStep
<1>13. ASSUME NEW m \in InFlight, HandleAppendEntries(m) PROVE RaftStep
  BY <1>13, HandleAppendEntriesStep
<1>14. UNCHANGED vars => RaftStep
  BY StutterHolds DEF QuietStep
<1> QED BY <1>1, <1>2, <1>3, <1>4, <1>5, <1>6, <1>7, <1>8, <1>9, <1>10, <1>11, <1>12, <1>13,
           <1>14 DEF Next

\* What every state of every behaviour satisfies, whatever the nodes' calls,
\* timeouts, restarts and late requests (Node's tasks and handlers in node.py).
THEOREM RaftInvariant == Spec => []RaftInv
<1>1. Init => RaftInv
  BY InitHolds
<1>2. RaftInv /\ [Next]_vars => RaftInv'
  BY NextIsStep, RaftStepHolds
<1> QED BY <1>1, <1>2, PTL DEF Spec

\* No term ever has two leaders, however votes, restarts and late answers fall
\* (_campaign, _become_leader, _handle_request_vote; checks.py, election safety).
THEOREM OneLeaderPerTerm == Spec => []ElectionSafety
<1>1. ASSUME RaftInv PROVE ElectionSafety
  <2>1. TypeOK /\ BallotInv
    BY <1>1 DEF RaftInv
  <2>2. SUFFICES ASSUME NEW t \in Terms PROVE Cardinality(elected[t]) <= 1
    BY <2>1 DEF ElectionSafety, TypeOK
  <2>3. CASE elected[t] = {}
    BY <2>3, FS_EmptySet
  <2>4. CASE elected[t] # {}
    <3>1. PICK n \in elected[t] : TRUE
      BY <2>4
    <3>2. elected[t] = {n}
      BY <2>1, <3>1, OneLeader
    <3>3. Cardinality({n}) = 1
      BY FS_Singleton
    <3> QED BY <3>2, <3>3
  <2> QED BY <2>3, <2>4
<1> QED BY <1>1, RaftInvariant, PTL

\* Two logs that hold entries of one term at one index are the same up to there,
\* whatever is pushed late, refused or merged (_push, _handle_append_entries;
\* checks.py, log matching).
THEOREM LogsMatch == Spec => []LogMatching
<1>1. ASSUME RaftInv PROVE LogMatching
  <2>1. TypeOK /\ LogInv
    BY <1>1 DEF RaftInv
  <2>2. PICK L \in [Terms -> Seq(Entries)] : LogsAgree(L)
    BY <2>1 DEF LogInv
  <2>3. SUFFICES ASSUME NEW n \in Nodes, NEW p \in Nodes,
                        NEW i \in DOMAIN node[n].log \cap DOMAIN node[p].log,
                        node[n].log[i].term = node[p].log[i].term
                 PROVE  SubSeq(node[n].log, 1, i) = SubSeq(node[p].log, 1, i)
    BY DEF LogMatching
  <2>4. PICK g \in Seq(Entries), h \in Seq(Entries) : g = node[n].log /\ h = node[p].log
    <3>1. node[n] \in NodeRecords /\ node[p] \in NodeRecords
      BY <2>1 DEF TypeOK
    <3> QED BY <3>1 DEF NodeRecords
  <2>5. i \in DOMAIN g /\ i \in DOMAIN h /\ i \in Nat /\ i >= 1
    BY <2>3, <2>4
  <2>6. Agrees(g, L) /\ Agrees(h, L)
    BY <2>2, <2>4 DEF LogsAgree
  <2>7. PICK t : t = g[i].term /\ t = h[i].term
    BY <2>3, <2>4
  <2>8. \A j \in 1 .. i : g[j] = L[t][j] /\ h[j] = L[t][j]
    <3>1. ASSUME NEW f, i \in DOMAIN f, Agrees(f, L), f[i].term = t
          PROVE  \A j \in 1 .. i : f[j] = L[t][j]
      BY <3>1 DEF Agrees
    <3> QED BY <2>5, <2>6, <2>7, <3>1
  <2>9. \A j \in 1 .. i : g[j] = h[j] /\ g[j] \in Entries /\ h[j] \in Entries
    <3>1. \A j \in 1 .. i : j \in 1 .. Len(g) /\ j \in 1 .. Len(h)
      BY <2>5
    <3> QED BY <2>8, <3>1
  <2>10. /\ SubSeq(g, 1, i) \in Seq(Entries) /\ Len(SubSeq(g, 1, i)) = i
         /\ \A j \in 1 .. i - 1 + 1 : SubSeq(g, 1, i)[j] = g[1 + j - 1]
    BY <2>5, <2>9, SubSeqProperties
  <2>11. /\ SubSeq(h, 1, i) \in Seq(Entries) /\ Len(SubSeq(h, 1, i)) = i
         /\ \A j \in 1 .. i - 1 + 1 : SubSeq(h, 1, i)[j] = h[1 + j - 1]
    BY <2>5, <2>9, SubSeqProperties
  <2>12. \A j \in 1 .. i : SubSeq(g, 1, i)[j] = SubSeq(h, 1, i)[j]
    BY <2>5, <2>9, <2>10, <2>11
  <2>13. SubSeq(g, 1, i) = SubSeq(h, 1, i)
    BY <2>10, <2>11, <2>12, SeqEqual
  <2> QED BY <2>4, <2>13
<1> QED BY <1>1, RaftInvariant, PTL

-----------------------------------------------------------------------------
(***************************************************************************)
(* Leader completeness.                                                    *)
(***************************************************************************)

\* A vote request that still counts describes its sender's log.
Honest(m) ==
    m.op = "vote" =>
        /\ m.term <= node[m.from].term
        /\ node[m.from].role = "candidate" /\ node[m.from].term = m.term =>
              m.index = Len(node[m.from].log) /\ m.last = LastTerm(node[m.from])

\* Who sends entries, in office or not, ends them with one of its term or a later one.
PushEnds(m) ==
    m.op = "append" /\ m.entries # <<>> => m.entries[Len(m.entries)].term >= m.term

RequestsHonest == \A m \in InFlight : Honest(m) /\ PushEnds(m)

LeadersStay == \A n \in Nodes : doing[n] = "lead" => LastTerm(node[n]) >= mine[n]

\* The log f has what m carries, where m says it goes.
Carried(f, m) ==
    /\ m.prev + Len(m.entries) <= Len(f)
    /\ m.prev > 0 => f[m.prev].term = m.prevTerm
    /\ \A j \in 1 .. Len(m.entries) : f[m.prev + j] = m.entries[j]

OwnPushes ==
    \A n, p \in Nodes :
        node[n].role = "leader" /\ call[n][p].st = "asked" =>
            call[n][p].req.term = node[n].term /\ Carried(node[n].log, call[n][p].req)

SendInv == RequestsHonest /\ LeadersStay /\ OwnPushes

-----------------------------------------------------------------------------
\* Two logs are the same up to i.
Shares(g, h, i) == i <= Len(g) /\ i <= Len(h) /\ \A j \in 1 .. i : g[j] = h[j]

Majority(Q) == Cardinality(Q) >= Quorum

\* The leader of t has an entry of its own term at i.
Own(t, i, L) == elected[t] # {} /\ i \in 1 .. Len(L[t]) /\ L[t][i].term = t

\* A majority went on to a later term without having had the leader's log up to i in t,
\* so that i can no more be counted.
Lost(t, i, K) ==
    \E Q \in SUBSET Nodes : Majority(Q) /\ \A q \in Q : node[q].term > t /\ <<q, t, i>> \notin K

\* The ballots of a term are cast for one who is in it or has been; and one who has an
\* entry of a later term than it stands in is not elected.
BallotsPast(B) == \A p, n \in Nodes, t \in Nat : <<p, t, n>> \in B => t <= node[n].term

Hopeless(B) ==
    \A n \in Nodes :
        node[n].role = "candidate" /\ LastTerm(node[n]) > node[n].term =>
            \E Q \in SUBSET Nodes :
                /\ Majority(Q)
                /\ \A q \in Q : node[q].term > node[n].term /\ <<q, node[n].term, n>> \notin B

\* The terms in a log only rise.
Rising(g) == \A i, j \in 1 .. Len(g) : j <= i => g[j].term <= g[i].term

LogsShaped(L) ==
    \A t \in Terms :
        elected[t] # {} =>
            /\ Agrees(L[t], L) /\ Rising(L[t])
            /\ \A i \in 1 .. Len(L[t]) : L[t][i].term <= t

\* Acknowledgements: a set of <<node, term, index>>, for each node that has had, while in
\* that term, the log of its leader up to there.
HeldNow(L) ==
    {a \in Nodes \X Terms \X Nat :
        a[2] = node[a[1]].term /\ elected[a[2]] # {} /\ Shares(node[a[1]].log, L[a[2]], a[3])}

AcksFair(L, K) ==
    /\ \A n \in Nodes, t \in Terms, i \in Nat :
          <<n, t, i>> \in K => elected[t] # {} /\ i <= Len(L[t]) /\ t <= node[n].term
    /\ HeldNow(L) \subseteq K

\* What a node has acknowledged it still has, if it may still be counted.
AcksHeld(L, K) ==
    \A n \in Nodes, t \in Terms, i \in Nat :
        <<n, t, i>> \in K /\ Own(t, i, L) => Shares(node[n].log, L[t], i) \/ Lost(t, i, K)

\* And so has every leader of a later term.
Safe(L, K) ==
    \A s, t \in Terms, i \in Nat :
        s < t /\ elected[t] # {} /\ Own(s, i, L) => Shares(L[t], L[s], i) \/ Lost(s, i, K)

\* A candidate's log is not behind what its voters have acknowledged.
Fresh(s, t, i) == LastTerm(s) > t \/ (LastTerm(s) = t /\ Len(s.log) >= i)

VotesSafe(B, L, K) ==
    \A p, n \in Nodes, s \in Terms, i \in Nat :
        /\ node[n].role = "candidate" /\ <<p, node[n].term, n>> \in B
        /\ <<p, s, i>> \in K /\ s < node[n].term /\ Own(s, i, L)
        => Fresh(node[n], s, i) \/ Lost(s, i, K)

\* What a leader counts has been acknowledged.
Acked(K) ==
    \A n, p \in Nodes :
        node[n].role = "leader" /\ p # n =>
            /\ \A i \in 1 .. matchIndex[n][p] : <<p, node[n].term, i>> \in K
            /\ call[n][p].st = "answered" /\ call[n][p].reply.ok =>
                  \A i \in 1 .. call[n][p].upTo : <<p, node[n].term, i>> \in K

Chosen(t, i, L, K) ==
    Own(t, i, L) /\ \E Q \in SUBSET Nodes : Majority(Q) /\ \A q \in Q : <<q, t, i>> \in K

Counted(L, K) ==
    \A c \in committed :
        /\ c.under \in Terms /\ elected[c.under] # {}
        /\ c.by \in elected[c.under] =>
              \E i \in Nat : /\ c.index \in 1 .. i /\ Chosen(c.under, i, L, K)
                             /\ c.entry = L[c.under][c.index]

Acks(B, L, K) ==
    /\ BallotsPast(B) /\ Hopeless(B) /\ LogsShaped(L)
    /\ AcksFair(L, K) /\ AcksHeld(L, K) /\ Safe(L, K) /\ VotesSafe(B, L, K)
    /\ Acked(K) /\ Counted(L, K)

CommitInv ==
    /\ RaftInv /\ SendInv
    /\ \E B \in SUBSET (Nodes \X Nat \X Nodes), L \in [Terms -> Seq(Entries)],
          K \in SUBSET (Nodes \X Terms \X Nat) : Ballots(B) /\ LogsAgree(L) /\ Acks(B, L, K)

-----------------------------------------------------------------------------
(***************************************************************************)
(* What a step may do to the logs, offices, votes, requests, answers,      *)
(* marks and to what was applied.                                          *)
(***************************************************************************)

\* A candidate takes office.
TakesOffice(q) ==
    /\ node[q].role = "candidate" /\ node'[q].role = "leader" /\ node'[q].term = node[q].term
    /\ doing'[q] = "lead" /\ mine'[q] = node[q].term
    /\ node[q].term \in Terms /\ elected[node[q].term] = {}
    /\ \A p \in Nodes : matchIndex'[q][p] = 0 /\ call'[q][p] \in {Idle, Over}
    /\ \A B \in SUBSET (Nodes \X Nat \X Nodes) :
          Ballots(B) => \E Q \in SUBSET Nodes :
                            Majority(Q) /\ \A p \in Q : <<p, node[q].term, q>> \in B

StaysInOffice(q) == node[q].role = "leader" /\ node'[q].term = node[q].term

\* A leader adds an entry of its term.
Lengthened(q) ==
    /\ node'[q].role = "leader" /\ node'[q].term = node[q].term
    /\ \E e \in Entries : e.term = node'[q].term /\ node'[q].log = Append(node[q].log, e)
    /\ TakesOffice(q) \/ StaysInOffice(q)

\* A follower's log becomes the beginning of a leader's, from which it differed.
Overwritten(q) ==
    /\ node'[q].role = "follower"
    /\ \A L \in [Terms -> Seq(Entries)] :
          LogsAgree(L) =>
              \E v \in Terms :
                  /\ elected[v] # {} /\ v >= node'[q].term /\ LastTerm(node'[q]) = v
                  /\ Shares(node'[q].log, L[v], Len(node'[q].log))
                  /\ ~Shares(node[q].log, L[v], Len(node'[q].log))

LogMoves ==
    \A q \in Nodes : node'[q].log = node[q].log \/ Lengthened(q) \/ Overwritten(q)

OfficeMoves ==
    /\ \A q \in Nodes : node'[q].role = "leader" => TakesOffice(q) \/ StaysInOffice(q)
    /\ \A q \in Nodes : doing'[q] = "lead" =>
          (TakesOffice(q) /\ Lengthened(q)) \/ (doing[q] = "lead" /\ mine'[q] = mine[q])
    /\ \A t \in Terms : \/ elected'[t] = elected[t]
                        \/ \E q \in Nodes : TakesOffice(q) /\ node'[q].term = t

CandidatesStand ==
    \A q \in Nodes :
        node'[q].role = "candidate" =>
            /\ node'[q].log = node[q].log
            /\ \/ node'[q].term > node[q].term
               \/ node[q].role = "candidate" /\ node'[q].term = node[q].term

\* A vote that p gives goes to one that has reached the term and is not behind.
Convinced(p) ==
    LET n == node'[p].vote
    IN /\ n \in Nodes /\ node'[p].term <= node'[n].term
       /\ node'[n].role = "candidate" /\ node'[n].term = node'[p].term =>
             \/ LastTerm(node[n]) > LastTerm(node[p])
             \/ LastTerm(node[n]) = LastTerm(node[p]) /\ Len(node[n].log) >= Len(node[p].log)

NewVotes == \A p \in Nodes : VoteAsBefore(p) \/ Convinced(p)

\* A request that is sent.
Sends(n, p) == call'[n][p].st = "asked" /\ call'[n][p] # call[n][p]

Asks(n, p, m) ==
    /\ node'[n] = node[n]
    /\ \/ /\ m.op = "vote" /\ m.from = n /\ m.term = mine[n] /\ mine[n] <= node[n].term
          /\ m.index = Len(node[n].log) /\ m.last = LastTerm(node[n])
       \/ /\ doing[n] = "lead"
          /\ \E k \in 1 .. Len(node[n].log) + 1 : m = AppendRequest(n, p, k)

NewRequests ==
    /\ LateMoves
    /\ \A n, p \in Nodes :
          call'[n][p].st = "asked" => call'[n][p] = call[n][p] \/ Asks(n, p, call'[n][p].req)

\* A follower's yes.
Takes(n, p) ==
    \E m \in Requests :
        /\ m.op = "append" /\ m.to = p /\ call[n][p].st = "asked" /\ call[n][p].req = m
        /\ TookEntries(m) /\ call'[n][p].upTo = m.prev + Len(m.entries)

NewAnswers ==
    \A n, p \in Nodes :
        node'[n].role = "leader" /\ call'[n][p].st = "answered" /\ call'[n][p].reply.ok =>
            call'[n][p] = call[n][p] \/ Takes(n, p)

NewMarks ==
    \A n, p \in Nodes :
        node'[n].role = "leader" =>
            \/ matchIndex'[n][p] \in {0, matchIndex[n][p]}
            \/ /\ call[n][p].st = "answered" /\ call[n][p].reply.ok
               /\ matchIndex'[n][p] = call[n][p].upTo

\* An entry that a follower applies, and what a leader counts.
Followed(c) == c.under \in Terms /\ elected[c.under] # {} /\ c.by \notin elected[c.under]

CountsUpTo(n, i) ==
    /\ node[n].role = "leader" /\ node'[n].role = "leader"
    /\ node'[n].term = node[n].term /\ node'[n].log = node[n].log
    /\ i \in 1 .. Len(node[n].log) /\ node[n].log[i].term = node[n].term
    /\ 1 + Cardinality({p \in Peers(n) : matchIndex'[n][p] >= i}) >= Quorum

CountedNow(c) ==
    \E n \in Nodes, i \in Nat :
        /\ CountsUpTo(n, i) /\ c.under = node[n].term
        /\ c.index \in 1 .. i /\ c.entry = node[n].log[c.index]

NewCommits == \A c \in committed' : c \in committed \/ Followed(c) \/ CountedNow(c)

Moves ==
    /\ LogMoves /\ OfficeMoves /\ CandidatesStand /\ NewVotes /\ NewRequests
    /\ NewAnswers /\ NewMarks /\ NewCommits

TermsRise == \A q \in Nodes : node'[q].term >= node[q].term

\* A step with the ballots B, leaders' logs L and acknowledgements K before it, and what
\* they become.
GhostStep(B, L, K, D, M, J) ==
    /\ B \in SUBSET (Nodes \X Nat \X Nodes) /\ D \in SUBSET (Nodes \X Nat \X Nodes)
    /\ L \in [Terms -> Seq(Entries)] /\ M \in [Terms -> Seq(Entries)]
    /\ K \in SUBSET (Nodes \X Terms \X Nat) /\ J \in SUBSET (Nodes \X Terms \X Nat)
    /\ RaftInv /\ RaftInv' /\ SendInv /\ TermsRise /\ Moves
    /\ Ballots(B) /\ LogsAgree(L) /\ Acks(B, L, K)
    /\ D = B \cup Votes' /\ Ballots(D)' /\ Extends(L, M) /\ Grown(L, M) /\ LogsAgree(M)'
    /\ J = K \cup HeldNow(M)'

-----------------------------------------------------------------------------
LEMMA NodeTyped ==
    ASSUME RaftInv, NEW q \in Nodes
    PROVE  /\ node[q] \in NodeRecords /\ node[q].term \in Nat /\ node[q].log \in Seq(Entries)
           /\ Len(node[q].log) \in Nat /\ LastTerm(node[q]) \in Nat
<1>1. node[q] \in NodeRecords
  BY DEF RaftInv, TypeOK
<1>2. node[q].term \in Nat /\ node[q].log \in Seq(Entries)
  BY <1>1 DEF NodeRecords
<1>3. Len(node[q].log) \in Nat
  BY <1>2, LenProperties
<1> QED BY <1>1, <1>2, <1>3, LastTermIs

LEMMA NodeTypedNext ==
    ASSUME RaftInv', NEW q \in Nodes
    PROVE  /\ node'[q] \in NodeRecords /\ node'[q].term \in Nat /\ node'[q].log \in Seq(Entries)
           /\ Len(node'[q].log) \in Nat /\ LastTerm(node'[q]) \in Nat
<1>1. node'[q] \in NodeRecords
  BY DEF RaftInv, TypeOK
<1>2. node'[q].term \in Nat /\ node'[q].log \in Seq(Entries)
  BY <1>1 DEF NodeRecords
<1>3. Len(node'[q].log) \in Nat
  BY <1>2, LenProperties
<1> QED BY <1>1, <1>2, <1>3, LastTermIs

\* The last entry of a log.
LEMMA LastEntry ==
    ASSUME NEW s \in NodeRecords
    PROVE  /\ Len(s.log) = 0 => LastTerm(s) = 0
           /\ Len(s.log) > 0 => LastTerm(s) = s.log[Len(s.log)].term
<1>1. s.log \in Seq(Entries)
  BY DEF NodeRecords
<1>2. Len(s.log) \in Nat /\ (s.log = <<>> <=> Len(s.log) = 0)
  BY <1>1
<1> QED BY <1>2 DEF LastTerm

LEMMA LogTyped ==
    ASSUME NEW L \in [Terms -> Seq(Entries)], NEW t \in Terms
    PROVE  /\ L[t] \in Seq(Entries) /\ Len(L[t]) \in Nat /\ DOMAIN L[t] = 1 .. Len(L[t])
           /\ \A i \in 1 .. Len(L[t]) : L[t][i] \in Entries /\ L[t][i].term \in Nat
<1>1. L[t] \in Seq(Entries)
  OBVIOUS
<1>2. Len(L[t]) \in Nat /\ DOMAIN L[t] = 1 .. Len(L[t])
  BY <1>1, LenProperties
<1>3. \A i \in 1 .. Len(L[t]) : L[t][i] \in Entries
  BY <1>1, <1>2
<1> QED BY <1>1, <1>2, <1>3 DEF Entries

\* Once lost, never counted.
LEMMA LostStays ==
    ASSUME NEW B, NEW L, NEW K, NEW D, NEW M, NEW J, GhostStep(B, L, K, D, M, J),
           NEW t \in Terms, NEW i \in Nat, Lost(t, i, K)
    PROVE  Lost(t, i, J)'
<1>1. PICK Q \in SUBSET Nodes :
         Majority(Q) /\ \A q \in Q : node[q].term > t /\ <<q, t, i>> \notin K
  BY DEF Lost
<1>2. RaftInv /\ RaftInv' /\ TermsRise /\ J = K \cup HeldNow(M)' /\ t \in Nat
  BY TermsAreNumbers DEF GhostStep
<1>3. ASSUME NEW q \in Q PROVE node'[q].term > t /\ <<q, t, i>> \notin J
  <2>1. node'[q].term >= node[q].term /\ node[q].term > t
    BY <1>1, <1>2 DEF TermsRise
  <2>2. node[q].term \in Nat /\ node'[q].term \in Nat
    BY <1>2, NodeTyped, NodeTypedNext
  <2>3. node'[q].term > t
    BY <1>2, <2>1, <2>2
  <2>4. <<q, t, i>> \notin HeldNow(M)'
    BY <1>2, <2>2, <2>3 DEF HeldNow
  <2> QED BY <1>1, <1>2, <2>3, <2>4
<1>4. Majority(Q)'
  BY <1>1 DEF Majority, Quorum
<1> QED BY <1>3, <1>4 DEF Lost

\* A leader's log keeps what it has.
LEMMA Extended ==
    ASSUME NEW L \in [Terms -> Seq(Entries)], NEW M \in [Terms -> Seq(Entries)], Extends(L, M),
           NEW t \in Terms, elected[t] # {}
    PROVE  /\ elected'[t] # {} /\ Len(L[t]) <= Len(M[t])
           /\ \A j \in 1 .. Len(L[t]) : M[t][j] = L[t][j] /\ j \in 1 .. Len(M[t])
<1>1. /\ elected'[t] # {} /\ Len(L[t]) <= Len(M[t])
      /\ \A j \in 1 .. Len(L[t]) : M[t][j] = L[t][j]
  BY DEF Extends
<1>2. Len(L[t]) \in Nat /\ Len(M[t]) \in Nat
  BY LogTyped
<1> QED BY <1>1, <1>2

LEMMA OwnGrows ==
    ASSUME NEW L \in [Terms -> Seq(Entries)], NEW M \in [Terms -> Seq(Entries)], Extends(L, M),
           NEW t \in Terms, NEW i \in Nat, Own(t, i, L)
    PROVE  Own(t, i, M)' /\ i <= Len(L[t]) /\ \A j \in 1 .. i : M[t][j] = L[t][j]
<1>1. elected[t] # {} /\ i \in 1 .. Len(L[t]) /\ L[t][i].term = t
  BY DEF Own
<1>2. Len(L[t]) \in Nat
  BY LogTyped
<1>3. elected'[t] # {} /\ \A j \in 1 .. Len(L[t]) : M[t][j] = L[t][j] /\ j \in 1 .. Len(M[t])
  BY <1>1, Extended
<1> QED BY <1>1, <1>2, <1>3 DEF Own

LEMMA SharesGrows ==
    ASSUME NEW L \in [Terms -> Seq(Entries)], NEW M \in [Terms -> Seq(Entries)], Extends(L, M),
           NEW t \in Terms, elected[t] # {}, NEW i \in Nat, NEW g, Shares(g, L[t], i)
    PROVE  Shares(g, M[t], i)
<1>1. Len(L[t]) \in Nat /\ Len(M[t]) \in Nat
  BY LogTyped
<1>2. Len(L[t]) <= Len(M[t]) /\ \A j \in 1 .. Len(L[t]) : M[t][j] = L[t][j]
  BY Extended
<1>3. i <= Len(g) /\ i <= Len(L[t]) /\ \A j \in 1 .. i : g[j] = L[t][j]
  BY DEF Shares
<1>4. i <= Len(M[t]) /\ \A j \in 1 .. i : g[j] = M[t][j]
  BY <1>1, <1>2, <1>3
<1> QED BY <1>3, <1>4 DEF Shares

LEMMA SharesBack ==
    ASSUME NEW g, NEW h, NEW i, Shares(g, h, i)
    PROVE  Shares(h, g, i)
BY DEF Shares

LEMMA SharesOver ==
    ASSUME NEW f, NEW g, NEW h, NEW i, Shares(f, g, i), Shares(g, h, i)
    PROVE  Shares(f, h, i)
BY DEF Shares

LEMMA SharesLess ==
    ASSUME NEW g, NEW h, NEW i \in Nat, NEW k \in 0 .. i, Len(g) \in Nat, Len(h) \in Nat,
           Shares(g, h, i)
    PROVE  Shares(g, h, k)
BY DEF Shares

\* Only what is new in a leader's log can be its own only after the step.
LEMMA AckedOwn ==
    ASSUME NEW B, NEW L, NEW K, NEW D, NEW M, NEW J, GhostStep(B, L, K, D, M, J),
           NEW n \in Nodes, NEW t \in Terms, NEW i \in Nat, <<n, t, i>> \in K, Own(t, i, M)'
    PROVE  Own(t, i, L)
<1>1. /\ L \in [Terms -> Seq(Entries)] /\ M \in [Terms -> Seq(Entries)] /\ Extends(L, M)
      /\ AcksFair(L, K)
  BY DEF GhostStep, Acks
<1>2. elected[t] # {} /\ i <= Len(L[t])
  BY <1>1 DEF AcksFair
<1>3. i \in 1 .. Len(M[t]) /\ M[t][i].term = t
  BY DEF Own
<1>4. Len(L[t]) \in Nat
  BY <1>1, LogTyped
<1>5. i \in 1 .. Len(L[t])
  BY <1>2, <1>3, <1>4
<1>6. M[t][i] = L[t][i]
  BY <1>1, <1>2, <1>5, Extended
<1> QED BY <1>2, <1>3, <1>5, <1>6 DEF Own

LEMMA NewAck ==
    ASSUME NEW B, NEW L, NEW K, NEW D, NEW M, NEW J, GhostStep(B, L, K, D, M, J),
           NEW n \in Nodes, NEW t \in Terms, NEW i \in Nat, <<n, t, i>> \in J, <<n, t, i>> \notin K
    PROVE  t = node'[n].term /\ elected'[t] # {} /\ Shares(node'[n].log, M[t], i)
<1>1. <<n, t, i>> \in HeldNow(M)'
  BY DEF GhostStep
<1> QED BY <1>1 DEF HeldNow

\* What a leader adds while a later term already has one is lost from the start.
LEMMA NewOwnLost ==
    ASSUME NEW B, NEW L, NEW K, NEW D, NEW M, NEW J, GhostStep(B, L, K, D, M, J),
           NEW s \in Terms, NEW t \in Terms, s < t, elected'[t] # {},
           NEW i \in Nat, Own(s, i, M)', ~Own(s, i, L)
    PROVE  Lost(s, i, J)'
<1>1. RaftInv' /\ BallotsFair(D)' /\ LeadersElected(D)' /\ D \in SUBSET (Nodes \X Nat \X Nodes)
  BY DEF GhostStep, Ballots
<1>2. s \in Nat /\ t \in Nat
  BY TermsAreNumbers
<1>3. PICK n \in elected'[t] : n \in Nodes
  <2>1. elected' \in [Terms -> SUBSET Nodes]
    BY <1>1 DEF RaftInv, TypeOK
  <2> QED BY <2>1
<1>4. PICK Q \in SUBSET Nodes : Cardinality(Q) >= Quorum /\ \A p \in Q : <<p, t, n>> \in D
  BY <1>1, <1>3 DEF LeadersElected, Quorum
<1>5. ASSUME NEW q \in Q PROVE node'[q].term > s /\ <<q, s, i>> \notin J
  <2>1. q \in Nodes /\ <<q, t, n>> \in D
    BY <1>4
  <2>2. t < node'[q].term \/ t = node'[q].term
    BY <1>1, <1>2, <1>3, <2>1 DEF BallotsFair
  <2>3. node'[q].term \in Nat
    BY <1>1, <2>1, NodeTypedNext
  <2>4. node'[q].term > s
    BY <1>2, <2>2, <2>3
  <2>5. <<q, s, i>> \notin K
    BY <2>1, AckedOwn
  <2>6. s # node'[q].term
    BY <1>2, <2>3, <2>4
  <2> QED BY <2>1, <2>4, <2>5, <2>6, NewAck
<1> QED BY <1>4, <1>5 DEF Lost, Majority, Quorum

LEMMA AcksFairStep ==
    ASSUME NEW B, NEW L, NEW K, NEW D, NEW M, NEW J, GhostStep(B, L, K, D, M, J)
    PROVE  AcksFair(M, J)'
<1>1. /\ L \in [Terms -> Seq(Entries)] /\ M \in [Terms -> Seq(Entries)] /\ Extends(L, M)
      /\ AcksFair(L, K) /\ RaftInv /\ RaftInv' /\ TermsRise
  BY DEF GhostStep, Acks
<1>2. SUFFICES ASSUME NEW n \in Nodes, NEW t \in Terms, NEW i \in Nat, <<n, t, i>> \in J
               PROVE  elected'[t] # {} /\ i <= Len(M[t]) /\ t <= node'[n].term
  <2>1. HeldNow(M)' \subseteq J
    BY DEF GhostStep
  <2> QED BY <1>2, <2>1 DEF AcksFair
<1>3. /\ node[n].term \in Nat /\ node'[n].term \in Nat /\ t \in Nat
      /\ Len(L[t]) \in Nat /\ Len(M[t]) \in Nat
  BY <1>1, NodeTyped, NodeTypedNext, LogTyped, TermsAreNumbers
<1>4. CASE <<n, t, i>> \in K
  <2>1. elected[t] # {} /\ i <= Len(L[t]) /\ t <= node[n].term
    BY <1>1, <1>4 DEF AcksFair
  <2>2. elected'[t] # {} /\ Len(L[t]) <= Len(M[t])
    BY <1>1, <2>1, Extended
  <2>3. node'[n].term >= node[n].term
    BY <1>1 DEF TermsRise
  <2> QED BY <1>3, <2>1, <2>2, <2>3
<1>5. CASE <<n, t, i>> \notin K
  <2>1. t = node'[n].term /\ elected'[t] # {} /\ Shares(node'[n].log, M[t], i)
    BY <1>2, <1>5, NewAck
  <2> QED BY <1>3, <2>1 DEF Shares
<1> QED BY <1>4, <1>5

\* A ballot cast in a step.
LEMMA NewBallot ==
    ASSUME NEW B, NEW L, NEW K, NEW D, NEW M, NEW J, GhostStep(B, L, K, D, M, J),
           NEW p \in Nodes, NEW n \in Nodes, NEW t \in Nat, <<p, t, n>> \in D, <<p, t, n>> \notin B
    PROVE  t = node'[p].term /\ node'[p].vote = n /\ Convinced(p)
<1>1. NewVotes /\ BallotsFair(B) /\ D = B \cup Votes'
  BY DEF GhostStep, Moves, Ballots
<1>2. t = node'[p].term /\ node'[p].vote = n
  BY <1>1 DEF Votes
<1>3. ASSUME VoteAsBefore(p) PROVE FALSE
  <2>1. n # Nobody
    BY RaftAssumption
  <2>2. node[p].vote = n /\ node[p].term = t
    BY <1>2, <1>3, <2>1 DEF VoteAsBefore
  <2>3. <<p, t, n>> \in Votes
    BY <2>1, <2>2 DEF Votes
  <2> QED BY <1>1, <2>3 DEF BallotsFair
<1> QED BY <1>1, <1>2, <1>3 DEF NewVotes

LEMMA BallotsPastStep ==
    ASSUME NEW B, NEW L, NEW K, NEW D, NEW M, NEW J, GhostStep(B, L, K, D, M, J)
    PROVE  BallotsPast(D)'
<1>1. /\ BallotsPast(B) /\ RaftInv /\ RaftInv' /\ TermsRise
  BY DEF GhostStep, Acks
<1>2. SUFFICES ASSUME NEW p \in Nodes, NEW n \in Nodes, NEW t \in Nat, <<p, t, n>> \in D
               PROVE  t <= node'[n].term
  BY DEF BallotsPast
<1>3. node[n].term \in Nat /\ node'[n].term \in Nat /\ node'[n].term >= node[n].term
  BY <1>1, NodeTyped, NodeTypedNext DEF TermsRise
<1>4. CASE <<p, t, n>> \in B
  <2>1. t <= node[n].term
    BY <1>1, <1>4 DEF BallotsPast
  <2> QED BY <1>3, <2>1
<1>5. CASE <<p, t, n>> \notin B
  BY <1>2, <1>5, NewBallot DEF Convinced
<1> QED BY <1>4, <1>5

LEMMA HopelessStep ==
    ASSUME NEW B, NEW L, NEW K, NEW D, NEW M, NEW J, GhostStep(B, L, K, D, M, J)
    PROVE  Hopeless(D)'
<1>1. /\ Hopeless(B) /\ BallotsPast(B) /\ RaftInv /\ RaftInv' /\ TermsRise /\ CandidatesStand
      /\ BallotsFair(B) /\ LeadersElected(B) /\ LogsAgree(L) /\ L \in [Terms -> Seq(Entries)]
      /\ B \in SUBSET (Nodes \X Nat \X Nodes)
  BY DEF GhostStep, Acks, Moves, Ballots
<1>2. SUFFICES ASSUME NEW n \in Nodes, node'[n].role = "candidate",
                      LastTerm(node'[n]) > node'[n].term
               PROVE  \E Q \in SUBSET Nodes :
                         /\ Majority(Q)
                         /\ \A q \in Q : /\ node'[q].term > node'[n].term
                                         /\ <<q, node'[n].term, n>> \notin D
  BY DEF Hopeless, Majority, Quorum
<1>3. /\ node[n].term \in Nat /\ node'[n].term \in Nat /\ LastTerm(node[n]) \in Nat
      /\ node[n] \in NodeRecords
  BY <1>1, NodeTyped, NodeTypedNext
<1>4. node'[n].log = node[n].log /\ LastTerm(node[n]) > node'[n].term
  <2>1. node'[n].log = node[n].log
    BY <1>1, <1>2 DEF CandidatesStand
  <2> QED BY <1>2, <2>1 DEF LastTerm
<1>5. ASSUME NEW q \in Nodes, node[q].term > node'[n].term, <<q, node'[n].term, n>> \notin B
      PROVE  node'[q].term > node'[n].term /\ <<q, node'[n].term, n>> \notin D
  <2>1. node'[q].term \in Nat /\ node[q].term \in Nat /\ node'[q].term >= node[q].term
    BY <1>1, NodeTyped, NodeTypedNext DEF TermsRise
  <2>2. node'[q].term > node'[n].term
    BY <1>3, <1>5, <2>1
  <2>3. node'[n].term # node'[q].term
    BY <1>3, <2>1, <2>2
  <2> QED BY <1>3, <1>5, <2>2, <2>3, NewBallot
<1>6. CASE node[n].role = "candidate" /\ node'[n].term = node[n].term
  <2>1. PICK Q \in SUBSET Nodes :
           /\ Majority(Q)
           /\ \A q \in Q : node[q].term > node[n].term /\ <<q, node[n].term, n>> \notin B
    BY <1>1, <1>4, <1>6 DEF Hopeless
  <2>2. \A q \in Q : node'[q].term > node'[n].term /\ <<q, node'[n].term, n>> \notin D
    BY <1>5, <1>6, <2>1
  <2> QED BY <2>1, <2>2
<1>7. CASE node'[n].term > node[n].term
  <2>1. Len(node[n].log) > 0
    <3>1. LastTerm(node[n]) # 0
      BY <1>3, <1>4
    <3>2. Len(node[n].log) \in Nat
      BY <1>1, NodeTyped
    <3> QED BY <1>3, <3>1, <3>2, LastEntry
  <2>2. PICK v : v = LastTerm(node[n]) /\ v = node[n].log[Len(node[n].log)].term
    BY <1>3, <2>1, LastEntry
  <2>3. v \in Terms /\ elected[v] # {}
    <3>1. Agrees(node[n].log, L)
      BY <1>1 DEF LogsAgree
    <3>2. Len(node[n].log) \in DOMAIN node[n].log
      BY <1>1, <2>1, NodeTyped
    <3> QED BY <2>2, <3>1, <3>2 DEF Agrees
  <2>4. PICK l \in elected[v] : l \in Nodes
    BY <1>1, <2>3 DEF RaftInv, TypeOK
  <2>5. PICK Q \in SUBSET Nodes : Cardinality(Q) >= Quorum /\ \A p \in Q : <<p, v, l>> \in B
    BY <1>1, <2>3, <2>4 DEF LeadersElected
  <2>6. ASSUME NEW q \in Q PROVE node[q].term > node'[n].term /\ <<q, node'[n].term, n>> \notin B
    <3>1. v < node[q].term \/ v = node[q].term
      BY <1>1, <1>3, <2>2, <2>4, <2>5 DEF BallotsFair
    <3>2. node[q].term \in Nat
      BY <1>1, NodeTyped
    <3>3. node[q].term > node'[n].term
      BY <1>3, <1>4, <2>2, <3>1, <3>2
    <3>4. ASSUME <<q, node'[n].term, n>> \in B PROVE FALSE
      <4>1. node'[n].term <= node[n].term
        BY <1>1, <1>3, <3>4 DEF BallotsPast
      <4> QED BY <1>3, <1>7, <4>1
    <3> QED BY <3>3, <3>4
  <2>7. \A q \in Q : node'[q].term > node'[n].term /\ <<q, node'[n].term, n>> \notin D
    BY <1>5, <2>6
  <2> QED BY <2>5, <2>7 DEF Majority
<1> QED BY <1>1, <1>2, <1>6, <1>7 DEF CandidatesStand

\* The terms in a log rise to the last one.
LEMMA LogRises ==
    ASSUME NEW s \in NodeRecords, NEW L \in [Terms -> Seq(Entries)], Agrees(s.log, L), LogsShaped(L)
    PROVE  /\ Rising(s.log) /\ \A j \in 1 .. Len(s.log) : s.log[j].term <= LastTerm(s)
           /\ Len(s.log) > 0 =>
                 /\ LastTerm(s) \in Terms /\ elected[LastTerm(s)] # {}
                 /\ Shares(s.log, L[LastTerm(s)], Len(s.log))
<1>1. PICK g \in Seq(Entries) : g = s.log
  BY DEF NodeRecords
<1>2. PICK k \in Nat : k = Len(g)
  BY <1>1
<1>3. CASE k = 0
  BY <1>1, <1>2, <1>3 DEF Rising
<1>4. CASE k > 0
  <2>1. PICK v : v = LastTerm(s) /\ v = g[k].term
    BY <1>1, <1>2, <1>4, LastEntry
  <2>2. k \in DOMAIN g
    BY <1>1, <1>2, <1>4
  <2>3. /\ v \in Terms /\ elected[v] # {} /\ k <= Len(L[v])
        /\ \A j \in 1 .. k : g[j] = L[v][j]
    BY <1>1, <2>1, <2>2 DEF Agrees
  <2>4. Rising(L[v]) /\ Len(L[v]) \in Nat
    BY <2>3, LogTyped DEF LogsShaped
  <2>5. \A j \in 1 .. k : j \in 1 .. Len(L[v])
    BY <2>3, <2>4
  <2>6. \A i, j \in 1 .. k : j <= i => g[j].term <= g[i].term
    BY <2>3, <2>4, <2>5 DEF Rising
  <2>7. \A j \in 1 .. k : g[j].term <= v
    BY <1>4, <2>1, <2>6
  <2>8. Shares(g, L[v], k)
    BY <1>2, <2>3 DEF Shares
  <2> QED BY <1>1, <1>2, <2>1, <2>3, <2>6, <2>7, <2>8 DEF Rising
<1> QED BY <1>2, <1>3, <1>4

\* Who takes office has only entries of earlier terms.
LEMMA BeforeOffice ==
    ASSUME NEW B, NEW L, NEW K, NEW D, NEW M, NEW J, GhostStep(B, L, K, D, M, J),
           NEW q \in Nodes, TakesOffice(q)
    PROVE  Len(node[q].log) > 0 => LastTerm(node[q]) < node[q].term
<1>1. /\ Hopeless(B) /\ LogsShaped(L) /\ LogsAgree(L) /\ L \in [Terms -> Seq(Entries)] /\ RaftInv
      /\ B \in SUBSET (Nodes \X Nat \X Nodes) /\ Ballots(B)
  BY DEF GhostStep, Acks
<1>2. /\ node[q] \in NodeRecords /\ node[q].term \in Nat /\ LastTerm(node[q]) \in Nat
      /\ Agrees(node[q].log, L)
  BY <1>1, NodeTyped DEF LogsAgree
<1>3. SUFFICES ASSUME Len(node[q].log) > 0 PROVE LastTerm(node[q]) < node[q].term
  OBVIOUS
<1>4. elected[LastTerm(node[q])] # {}
  BY <1>1, <1>2, <1>3, LogRises
<1>5. LastTerm(node[q]) # node[q].term
  BY <1>4 DEF TakesOffice
<1>6. ASSUME LastTerm(node[q]) > node[q].term PROVE FALSE
  <2>1. PICK Q \in SUBSET Nodes : Majority(Q) /\ \A p \in Q : <<p, node[q].term, q>> \notin B
    BY <1>1, <1>6 DEF Hopeless, TakesOffice
  <2>2. PICK R \in SUBSET Nodes : Majority(R) /\ \A p \in R : <<p, node[q].term, q>> \in B
    BY <1>1 DEF TakesOffice
  <2>3. PICK p \in Nodes : p \in Q /\ p \in R
    BY <2>1, <2>2, MajoritiesMeet DEF Majority
  <2> QED BY <2>1, <2>2, <2>3
<1> QED BY <1>2, <1>5, <1>6

LEMMA AppendRises ==
    ASSUME NEW g \in Seq(Entries), NEW e \in Entries, Rising(g),
           \A j \in 1 .. Len(g) : g[j].term <= e.term
    PROVE  /\ Rising(Append(g, e))
           /\ \A j \in 1 .. Len(Append(g, e)) : Append(g, e)[j].term <= e.term
<1>1. PICK k \in Nat : k = Len(g)
  OBVIOUS
<1>2. PICK h : h = Append(g, e)
  OBVIOUS
<1>3. Len(h) = k + 1 /\ h[k + 1] = e /\ \A j \in 1 .. k : h[j] = g[j]
  BY <1>1, <1>2, AppendProperties
<1>4. e.term \in Nat
  BY DEF Entries
<1>5. \A j \in 1 .. k + 1 : h[j].term <= e.term
  <2>1. \A j \in 1 .. k : h[j].term <= e.term
    BY <1>1, <1>3
  <2>2. h[k + 1].term <= e.term
    BY <1>3, <1>4
  <2> QED BY <1>1, <2>1, <2>2
<1>6. \A i, j \in 1 .. k + 1 : j <= i => h[j].term <= h[i].term
  <2>1. SUFFICES ASSUME NEW i \in 1 .. k + 1, NEW j \in 1 .. k + 1, j <= i
                 PROVE  h[j].term <= h[i].term
    OBVIOUS
  <2>2. CASE i = k + 1
    BY <1>3, <1>5, <2>2
  <2>3. CASE i # k + 1
    <3>1. i \in 1 .. k /\ j \in 1 .. k
      BY <1>1, <2>1, <2>3
    <3>2. g[j].term <= g[i].term
      BY <1>1, <2>1, <3>1 DEF Rising
    <3> QED BY <1>3, <3>1, <3>2
  <2> QED BY <2>2, <2>3
<1> QED BY <1>2, <1>3, <1>5, <1>6 DEF Rising

LEMMA LogsShapedStep ==
    ASSUME NEW B, NEW L, NEW K, NEW D, NEW M, NEW J, GhostStep(B, L, K, D, M, J)
    PROVE  LogsShaped(M)'
<1>1. /\ L \in [Terms -> Seq(Entries)] /\ M \in [Terms -> Seq(Entries)] /\ Extends(L, M)
      /\ Grown(L, M) /\ LogsAgree(L) /\ LogsAgree(M)' /\ LogsShaped(L) /\ RaftInv /\ RaftInv'
      /\ LogMoves /\ OfficeMoves
  BY DEF GhostStep, Acks, Moves
<1>2. SUFFICES ASSUME NEW t \in Terms, elected'[t] # {}
               PROVE  /\ Agrees(M[t], M)' /\ Rising(M[t])
                      /\ \A i \in 1 .. Len(M[t]) : M[t][i].term <= t
  BY DEF LogsShaped, Rising
<1>3. CASE \E q \in Nodes : node'[q].role = "leader" /\ node'[q].term = t
  <2>1. PICK q \in Nodes : node'[q].role = "leader" /\ node'[q].term = t
    BY <1>3
  <2>2. M[t] = node'[q].log /\ Agrees(node[q].log, M)'
    BY <1>1, <2>1 DEF LogsAgree
  <2>3. PICK g \in Seq(Entries) : g = node[q].log
    BY <1>1, NodeTyped
  <2>4. node[q].term = t /\ (TakesOffice(q) \/ node[q].role = "leader")
    BY <1>1, <2>1 DEF OfficeMoves, StaysInOffice, TakesOffice
  <2>5. Rising(g) /\ \A j \in 1 .. Len(g) : g[j].term <= t
    <3>1. CASE TakesOffice(q)
      <4>1. /\ node[q] \in NodeRecords /\ Agrees(node[q].log, L) /\ t \in Nat
            /\ LastTerm(node[q]) \in Nat
        BY <1>1, NodeTyped, TermsAreNumbers DEF LogsAgree
      <4>2. Rising(g) /\ \A j \in 1 .. Len(g) : g[j].term <= LastTerm(node[q])
        BY <1>1, <2>3, <4>1, LogRises
      <4>3. Len(g) > 0 => LastTerm(node[q]) < t
        BY <2>3, <2>4, <3>1, BeforeOffice
      <4>4. \A j \in 1 .. Len(g) : Len(g) > 0 /\ g[j] \in Entries
        BY <2>3
      <4>5. \A j \in 1 .. Len(g) : g[j].term \in Nat
        BY <4>4 DEF Entries
      <4>6. ASSUME NEW j \in 1 .. Len(g) PROVE g[j].term <= t
        BY <4>1, <4>2, <4>3, <4>4, <4>5
      <4> QED BY <4>2, <4>6
    <3>2. CASE node[q].role = "leader"
      <4>1. q \in elected[t]
        BY <1>1, <2>4, <3>2, LeaderLed DEF RaftInv
      <4>2. g = L[t]
        BY <1>1, <2>3, <2>4, <3>2 DEF LogsAgree
      <4> QED BY <1>1, <4>1, <4>2 DEF LogsShaped
    <3> QED BY <2>4, <3>1, <3>2
  <2>6. M[t] = g \/ \E e \in Entries : e.term = t /\ M[t] = Append(g, e)
    <3>1. ~Overwritten(q)
      BY <2>1 DEF Overwritten
    <3> QED BY <1>1, <2>1, <2>2, <2>3, <3>1 DEF LogMoves, Lengthened
  <2>7. Rising(M[t]) /\ \A i \in 1 .. Len(M[t]) : M[t][i].term <= t
    BY <2>5, <2>6, AppendRises
  <2> QED BY <2>2, <2>7
<1>4. CASE ~\E q \in Nodes : node'[q].role = "leader" /\ node'[q].term = t
  <2>1. M[t] = L[t]
    BY <1>1, <1>4 DEF Grown
  <2>2. elected[t] # {}
    BY <1>1, <1>2, <1>4 DEF OfficeMoves, TakesOffice
  <2>3. Agrees(L[t], L) /\ Rising(L[t]) /\ \A i \in 1 .. Len(L[t]) : L[t][i].term <= t
    BY <1>1, <2>2 DEF LogsShaped
  <2>4. Agrees(L[t], M)'
    BY <1>1, <2>3, AgreesStill
  <2> QED BY <2>1, <2>3, <2>4
<1> QED BY <1>3, <1>4

LEMMA AppendShares ==
    ASSUME NEW g \in Seq(Entries), NEW e \in Entries, NEW h, NEW i \in Nat, Shares(g, h, i)
    PROVE  Shares(Append(g, e), h, i)
<1>1. PICK k \in Nat : k = Len(g)
  OBVIOUS
<1>2. PICK f : f = Append(g, e)
  OBVIOUS
<1>3. Len(f) = k + 1 /\ \A j \in 1 .. k : f[j] = g[j]
  BY <1>1, <1>2, AppendProperties
<1>4. i <= k /\ i <= Len(h) /\ \A j \in 1 .. i : g[j] = h[j]
  BY <1>1 DEF Shares
<1>5. i <= Len(f) /\ \A j \in 1 .. i : f[j] = h[j]
  BY <1>3, <1>4
<1> QED BY <1>2, <1>4, <1>5 DEF Shares

\* What two logs share a third keeps that replaces the first by more of the second.
LEMMA KeepsShared ==
    ASSUME NEW g, NEW h, NEW f, NEW i \in Nat, Len(g) \in Nat, Len(h) \in Nat, Len(f) \in Nat,
           Shares(g, f, i), Shares(h, f, Len(h)), ~Shares(g, f, Len(h))
    PROVE  Shares(h, f, i)
<1>1. PICK k \in Nat : k = Len(h)
  OBVIOUS
<1>2. CASE k <= i
  <2>1. k \in 0 .. i
    BY <1>2
  <2>2. Shares(g, f, k)
    BY <2>1, SharesLess
  <2> QED BY <1>1, <2>2
<1>3. CASE ~(k <= i)
  <2>1. i \in 0 .. k
    BY <1>3
  <2> QED BY <1>1, <2>1, SharesLess
<1> QED BY <1>2, <1>3

LEMMA AcksHeldStep ==
    ASSUME NEW B, NEW L, NEW K, NEW D, NEW M, NEW J, GhostStep(B, L, K, D, M, J)
    PROVE  AcksHeld(M, J)'
<1>1. /\ L \in [Terms -> Seq(Entries)] /\ M \in [Terms -> Seq(Entries)] /\ Extends(L, M)
      /\ AcksFair(L, K) /\ AcksHeld(L, K) /\ Safe(L, K) /\ LogsAgree(L)
      /\ RaftInv /\ RaftInv' /\ LogMoves /\ TermsRise
  BY DEF GhostStep, Acks, Moves
<1>2. SUFFICES ASSUME NEW n \in Nodes, NEW t \in Terms, NEW i \in Nat,
                      <<n, t, i>> \in J, Own(t, i, M)'
               PROVE  Shares(node'[n].log, M[t], i) \/ Lost(t, i, J)'
  BY DEF AcksHeld, Shares
<1>3. CASE <<n, t, i>> \notin K
  BY <1>2, <1>3, NewAck
<1>4. CASE <<n, t, i>> \in K
  <2>1. Own(t, i, L)
    BY <1>2, <1>4, AckedOwn
  <2>2. elected[t] # {} /\ i <= Len(L[t]) /\ t <= node[n].term
    BY <1>1, <1>4 DEF AcksFair
  <2>3. Shares(node[n].log, L[t], i) \/ Lost(t, i, K)
    BY <1>1, <1>4, <2>1 DEF AcksHeld
  <2>4. CASE Lost(t, i, K)
    BY <2>4, LostStays
  <2>5. CASE Shares(node[n].log, L[t], i)
    <3>1. Shares(node[n].log, M[t], i)
      BY <1>1, <2>2, <2>5, SharesGrows
    <3>2. CASE node'[n].log = node[n].log
      BY <3>1, <3>2
    <3>3. CASE Lengthened(n)
      <4>1. PICK e \in Entries : node'[n].log = Append(node[n].log, e)
        BY <3>3 DEF Lengthened
      <4>2. node[n].log \in Seq(Entries)
        BY <1>1, NodeTyped
      <4> QED BY <3>1, <4>1, <4>2, AppendShares
    <3>4. CASE Overwritten(n)
      <4>1. PICK v \in Terms :
               /\ elected[v] # {} /\ v >= node'[n].term
               /\ Shares(node'[n].log, L[v], Len(node'[n].log))
               /\ ~Shares(node[n].log, L[v], Len(node'[n].log))
        BY <1>1, <3>4 DEF Overwritten
      <4>2. t = v \/ t < v
        <5>1. node[n].term \in Nat /\ node'[n].term \in Nat /\ node'[n].term >= node[n].term
          BY <1>1, NodeTyped, NodeTypedNext DEF TermsRise
        <5>2. t \in Nat /\ v \in Nat
          BY TermsAreNumbers
        <5> QED BY <2>2, <4>1, <5>1, <5>2
      <4>3. Shares(L[v], L[t], i) \/ Lost(t, i, K)
        <5>1. CASE t = v
          BY <2>2, <5>1 DEF Shares
        <5>2. CASE t < v
          BY <1>1, <2>1, <4>1, <5>2 DEF Safe
        <5> QED BY <4>2, <5>1, <5>2
      <4>4. CASE Shares(L[v], L[t], i)
        <5>1. Shares(node[n].log, L[v], i)
          BY <2>5, <4>4, SharesBack, SharesOver
        <5>2. Len(node[n].log) \in Nat /\ Len(node'[n].log) \in Nat /\ Len(L[v]) \in Nat
          BY <1>1, NodeTyped, NodeTypedNext, LogTyped
        <5>3. Shares(node'[n].log, L[v], i)
          BY <4>1, <5>1, <5>2, KeepsShared
        <5>4. Shares(node'[n].log, L[t], i)
          BY <4>4, <5>3, SharesOver
        <5> QED BY <1>1, <2>2, <5>4, SharesGrows
      <4>5. CASE Lost(t, i, K)
        BY <4>5, LostStays
      <4> QED BY <4>3, <4>4, <4>5
    <3> QED BY <1>1, <3>2, <3>3, <3>4 DEF LogMoves
  <2> QED BY <2>3, <2>4, <2>5
<1> QED BY <1>3, <1>4

\* A log that is not behind an entry that counts has it.
LEMMA FreshShares ==
    ASSUME NEW x \in NodeRecords, NEW L \in [Terms -> Seq(Entries)], NEW K, Agrees(x.log, L),
           LogsShaped(L), Safe(L, K), NEW s \in Terms, NEW i \in Nat, Own(s, i, L), Fresh(x, s, i)
    PROVE  Shares(x.log, L[s], i) \/ Lost(s, i, K)
<1>1. PICK k \in Nat : k = Len(x.log)
  BY LenProperties DEF NodeRecords
<1>2. elected[s] # {} /\ i \in 1 .. Len(L[s]) /\ Len(L[s]) \in Nat /\ s \in Nat
  BY LogTyped, TermsAreNumbers DEF Own
<1>3. PICK v \in Nat : v = LastTerm(x)
  BY LastTermIs
<1>4. k > 0
  <2>1. k = 0 => v = 0
    BY <1>1, <1>3, LastEntry
  <2>2. v > s \/ (v = s /\ k >= i)
    BY <1>1, <1>3 DEF Fresh
  <2> QED BY <1>2, <2>1, <2>2
<1>5. v \in Terms /\ elected[v] # {} /\ Shares(x.log, L[v], k)
  BY <1>1, <1>3, <1>4, LogRises
<1>6. Len(L[v]) \in Nat
  BY <1>5, LogTyped
<1>7. CASE v = s /\ k >= i
  <2>1. i \in 0 .. k
    BY <1>2, <1>7
  <2> QED BY <1>1, <1>2, <1>5, <1>7, <2>1, SharesLess
<1>8. CASE v > s /\ ~Lost(s, i, K)
  <2>1. Shares(L[v], L[s], i)
    BY <1>2, <1>3, <1>5, <1>8 DEF Safe
  <2>2. ASSUME k < i PROVE FALSE
    <3>1. k \in 1 .. Len(L[s]) /\ k \in 1 .. i
      BY <1>2, <1>4, <2>2
    <3>2. x.log[k] = L[v][k] /\ L[v][k] = L[s][k]
      BY <1>4, <1>5, <2>1, <3>1 DEF Shares
    <3>3. x.log[k].term = v
      BY <1>1, <1>3, <1>4, LastEntry
    <3>4. L[s][k].term <= s
      BY <1>2, <3>1 DEF LogsShaped
    <3> QED BY <1>2, <1>8, <3>2, <3>3, <3>4
  <2>3. i \in 0 .. k
    BY <1>2, <2>2
  <2>4. Shares(x.log, L[v], i)
    BY <1>1, <1>5, <1>6, <2>3, SharesLess
  <2> QED BY <2>1, <2>4, SharesOver
<1> QED BY <1>1, <1>3, <1>7, <1>8 DEF Fresh

LEMMA SafeStep ==
    ASSUME NEW B, NEW L, NEW K, NEW D, NEW M, NEW J, GhostStep(B, L, K, D, M, J)
    PROVE  Safe(M, J)'
<1>1. /\ L \in [Terms -> Seq(Entries)] /\ M \in [Terms -> Seq(Entries)] /\ Extends(L, M)
      /\ B \in SUBSET (Nodes \X Nat \X Nodes) /\ Ballots(B)
      /\ VotesSafe(B, L, K) /\ Safe(L, K) /\ LogsShaped(L) /\ LogsAgree(L) /\ LogsAgree(M)'
      /\ RaftInv /\ LogMoves /\ OfficeMoves
  BY DEF GhostStep, Acks, Moves
<1>2. SUFFICES ASSUME NEW s \in Terms, NEW t \in Terms, NEW i \in Nat,
                      s < t, elected'[t] # {}, Own(s, i, M)'
               PROVE  Shares(M[t], M[s], i) \/ Lost(s, i, J)'
  BY DEF Safe, Shares
<1>3. CASE ~Own(s, i, L)
  BY <1>2, <1>3, NewOwnLost
<1>4. CASE Own(s, i, L) /\ elected[t] # {}
  <2>1. Shares(L[t], L[s], i) \/ Lost(s, i, K)
    BY <1>1, <1>2, <1>4 DEF Safe
  <2>2. CASE Shares(L[t], L[s], i)
    <3>1. elected[s] # {}
      BY <1>4 DEF Own
    <3>2. Shares(L[t], M[s], i)
      BY <1>1, <2>2, <3>1, SharesGrows
    <3>3. Shares(M[s], M[t], i)
      BY <1>1, <1>4, <3>2, SharesBack, SharesGrows
    <3> QED BY <3>3, SharesBack
  <2>3. CASE Lost(s, i, K)
    BY <2>3, LostStays
  <2> QED BY <2>1, <2>2, <2>3
<1>5. CASE Own(s, i, L) /\ elected[t] = {}
  <2>1. PICK q \in Nodes : TakesOffice(q) /\ node'[q].term = t
    BY <1>1, <1>2, <1>5 DEF OfficeMoves
  <2>2. /\ node[q].role = "candidate" /\ node[q].term = t
        /\ node'[q].role = "leader" /\ M[t] = node'[q].log
    BY <1>1, <2>1 DEF TakesOffice, LogsAgree
  <2>3. PICK Q \in SUBSET Nodes : Majority(Q) /\ \A p \in Q : <<p, t, q>> \in B
    BY <1>1, <2>1, <2>2 DEF TakesOffice
  <2>4. node[q] \in NodeRecords /\ Agrees(node[q].log, L) /\ node[q].log \in Seq(Entries)
    BY <1>1, NodeTyped DEF LogsAgree
  <2>5. Shares(node[q].log, L[s], i) \/ Lost(s, i, K)
    <3>1. CASE \E p \in Q : <<p, s, i>> \in K
      <4>1. PICK p \in Q : <<p, s, i>> \in K
        BY <3>1
      <4>2. Fresh(node[q], s, i) \/ Lost(s, i, K)
        BY <1>1, <1>2, <1>5, <2>2, <2>3, <4>1 DEF VotesSafe
      <4> QED BY <1>1, <1>5, <2>4, <4>2, FreshShares
    <3>2. CASE \A p \in Q : <<p, s, i>> \notin K
      <4>1. ASSUME NEW p \in Q PROVE node[p].term > s
        <5>1. BallotsFair(B) /\ <<p, t, q>> \in B /\ t \in Nat /\ s \in Nat
          BY <1>1, <2>3, TermsAreNumbers DEF Ballots
        <5>2. t < node[p].term \/ t = node[p].term
          BY <5>1 DEF BallotsFair
        <5>3. node[p].term \in Nat
          BY <1>1, NodeTyped
        <5> QED BY <1>2, <5>1, <5>2, <5>3
      <4> QED BY <2>3, <3>2, <4>1 DEF Lost
    <3> QED BY <3>1, <3>2
  <2>6. CASE Shares(node[q].log, L[s], i)
    <3>1. elected[s] # {}
      BY <1>5 DEF Own
    <3>2. Shares(node[q].log, M[s], i)
      BY <1>1, <2>6, <3>1, SharesGrows
    <3>3. node'[q].log = node[q].log \/ \E e \in Entries : node'[q].log = Append(node[q].log, e)
      BY <1>1, <2>2 DEF LogMoves, Overwritten, Lengthened
    <3> QED BY <2>2, <2>4, <3>2, <3>3, AppendShares
  <2>7. CASE Lost(s, i, K)
    BY <2>7, LostStays
  <2> QED BY <2>5, <2>6, <2>7
<1> QED BY <1>3, <1>4, <1>5

LEMMA VotesSafeStep ==
    ASSUME NEW B, NEW L, NEW K, NEW D, NEW M, NEW J, GhostStep(B, L, K, D, M, J)
    PROVE  VotesSafe(D, M, J)'
<1>1. /\ L \in [Terms -> Seq(Entries)] /\ BallotsPast(B) /\ VotesSafe(B, L, K) /\ AcksHeld(L, K)
      /\ LogsShaped(L) /\ LogsAgree(L) /\ BallotsFair(D)' /\ RaftInv /\ RaftInv' /\ CandidatesStand
  BY DEF GhostStep, Acks, Moves, Ballots
<1>2. SUFFICES ASSUME NEW p \in Nodes, NEW n \in Nodes, NEW s \in Terms, NEW i \in Nat,
                      node'[n].role = "candidate", <<p, node'[n].term, n>> \in D,
                      <<p, s, i>> \in J, s < node'[n].term, Own(s, i, M)'
               PROVE  Fresh(node'[n], s, i) \/ Lost(s, i, J)'
  BY DEF VotesSafe, Fresh, LastTerm
<1>3. PICK T \in Nat : T = node'[n].term
  BY <1>1, NodeTypedNext
<1>4. /\ node'[p].term \in Nat /\ node[n].term \in Nat /\ s \in Nat
      /\ node[n] \in NodeRecords /\ node[p] \in NodeRecords
  BY <1>1, NodeTyped, NodeTypedNext, TermsAreNumbers
<1>5. <<p, s, i>> \in K
  <2>1. T < node'[p].term \/ T = node'[p].term
    BY <1>1, <1>2, <1>3 DEF BallotsFair
  <2>2. s # node'[p].term
    BY <1>2, <1>3, <1>4, <2>1
  <2> QED BY <1>2, <2>2, NewAck
<1>6. Own(s, i, L)
  BY <1>2, <1>5, AckedOwn
<1>7. /\ node'[n].log = node[n].log /\ LastTerm(node'[n]) = LastTerm(node[n])
      /\ T > node[n].term \/ (node[n].role = "candidate" /\ T = node[n].term)
  <2>1. node'[n].log = node[n].log
    BY <1>1, <1>2 DEF CandidatesStand
  <2> QED BY <1>1, <1>2, <1>3, <2>1 DEF CandidatesStand, LastTerm
<1>8. Fresh(node[n], s, i) => Fresh(node'[n], s, i)
  BY <1>7 DEF Fresh
<1>9. CASE <<p, T, n>> \in B
  <2>1. T <= node[n].term
    BY <1>1, <1>9 DEF BallotsPast
  <2>2. node[n].role = "candidate" /\ T = node[n].term
    BY <1>3, <1>4, <1>7, <2>1
  <2>3. Fresh(node[n], s, i) \/ Lost(s, i, K)
    BY <1>1, <1>2, <1>3, <1>5, <1>6, <1>9, <2>2 DEF VotesSafe
  <2> QED BY <1>8, <2>3, LostStays
<1>10. CASE <<p, T, n>> \notin B
  <2>1. T = node'[p].term /\ node'[p].vote = n /\ Convinced(p)
    BY <1>2, <1>3, <1>10, NewBallot
  <2>2. \/ LastTerm(node[n]) > LastTerm(node[p])
        \/ LastTerm(node[n]) = LastTerm(node[p]) /\ Len(node[n].log) >= Len(node[p].log)
    BY <1>2, <1>3, <2>1 DEF Convinced
  <2>3. Shares(node[p].log, L[s], i) \/ Lost(s, i, K)
    BY <1>1, <1>5, <1>6 DEF AcksHeld
  <2>4. CASE Shares(node[p].log, L[s], i)
    <3>1. i >= 1 /\ i <= Len(node[p].log) /\ node[p].log[i].term = s
      <4>1. i \in 1 .. Len(L[s]) /\ L[s][i].term = s
        BY <1>6 DEF Own
      <4> QED BY <2>4, <4>1 DEF Shares
    <3>2. /\ LastTerm(node[n]) \in Nat /\ LastTerm(node[p]) \in Nat
          /\ Len(node[n].log) \in Nat /\ Len(node[p].log) \in Nat
      BY <1>1, NodeTyped
    <3>3. \A j \in 1 .. Len(node[p].log) : node[p].log[j].term <= LastTerm(node[p])
      BY <1>1, <1>4, LogRises DEF LogsAgree
    <3>4. s <= LastTerm(node[p])
      BY <3>1, <3>2, <3>3
    <3>5. \/ LastTerm(node[n]) > s
          \/ LastTerm(node[n]) = s /\ Len(node[n].log) >= i
      BY <1>4, <2>2, <3>1, <3>2, <3>4
    <3> QED BY <1>8, <3>5 DEF Fresh
  <2>5. CASE Lost(s, i, K)
    BY <2>5, LostStays
  <2> QED BY <2>3, <2>4, <2>5
<1> QED BY <1>3, <1>9, <1>10

LEMMA AgreeAlike ==
    ASSUME NEW L, NEW f \in Seq(Entries), NEW g \in Seq(Entries), Agrees(f, L), Agrees(g, L),
           NEW i \in Nat, i > 0 => i <= Len(f) /\ i <= Len(g) /\ f[i].term = g[i].term
    PROVE  Shares(g, f, i)
<1>1. Len(f) \in Nat /\ Len(g) \in Nat
  OBVIOUS
<1>2. CASE i = 0
  BY <1>1, <1>2 DEF Shares
<1>3. CASE i > 0
  <2>1. i \in DOMAIN f /\ i \in DOMAIN g
    BY <1>1, <1>3
  <2>2. \A j \in 1 .. i : f[j] = L[f[i].term][j]
    BY <2>1 DEF Agrees
  <2>3. \A j \in 1 .. i : g[j] = L[g[i].term][j]
    BY <2>1 DEF Agrees
  <2>4. f[i].term = g[i].term
    BY <1>3
  <2>5. \A j \in 1 .. i : g[j] = f[j]
    BY <2>2, <2>3, <2>4
  <2> QED BY <1>3, <2>5 DEF Shares
<1> QED BY <1>2, <1>3

\* After a merge a log is the same, as far as the slice goes, as any that has the slice.
LEMMA MergedShares ==
    ASSUME NEW L, NEW f \in Seq(Entries), NEW g \in Seq(Entries), Agrees(f, L), Agrees(g, L),
           NEW m \in AppendRequests, Carried(f, m),
           m.prev <= Len(g), m.prev > 0 => g[m.prev].term = m.prevTerm
    PROVE  Shares(Merged(g, m.prev, m.entries), f, m.prev + Len(m.entries))
<1>1. PICK e, b, h : e = m.entries /\ b = m.prev /\ h = Merged(g, b, e)
  OBVIOUS
<1>2. e \in Seq(Entries) /\ Len(e) \in Nat /\ b \in Nat /\ Len(f) \in Nat /\ Len(g) \in Nat
  BY <1>1 DEF AppendRequests
<1>3. PICK d \in Nat : d = Len(e)
  BY <1>2
<1>4. /\ b + d <= Len(f) /\ (b > 0 => f[b].term = g[b].term) /\ b <= Len(g)
      /\ \A j \in 1 .. d : f[b + j] = e[j]
  BY <1>1, <1>3 DEF Carried
<1>5. ASSUME NEW i \in 0 .. d, i > 0 => b + i <= Len(g) /\ g[b + i].term = e[i].term
      PROVE  Shares(g, f, b + i)
  <2>1. CASE i = 0
    <3>1. b + i = b
      BY <1>2, <2>1
    <3>2. b > 0 => b <= Len(f) /\ b <= Len(g) /\ f[b].term = g[b].term
      BY <1>2, <1>3, <1>4
    <3> QED BY <1>2, <3>1, <3>2, AgreeAlike
  <2>2. CASE i > 0
    <3>1. i \in 1 .. d /\ b + i \in Nat /\ b + i <= Len(f) /\ b + i <= Len(g)
      BY <1>2, <1>4, <1>5, <2>2
    <3>2. f[b + i].term = g[b + i].term
      BY <1>4, <1>5, <2>2, <3>1
    <3> QED BY <3>1, <3>2, AgreeAlike
  <2> QED BY <2>1, <2>2
<1>6. CASE h = g /\ HasAll(g, b, e)
  <2>1. d > 0 => b + d <= Len(g) /\ g[b + d].term = e[d].term
    BY <1>3, <1>6 DEF HasAll
  <2> QED BY <1>1, <1>3, <1>5, <1>6, <2>1
<1>7. ASSUME NEW k \in Nat, Spliced(g, b, e, h, k) PROVE Shares(h, f, b + d)
  <2>1. k \in 1 .. d /\ k - 1 \in 0 .. d /\ (k - 1 > 0 => k - 1 \in 1 .. k - 1)
    BY <1>3, <1>7 DEF Spliced
  <2>2. \A i \in 1 .. k - 1 : b + i <= Len(g) /\ g[b + i].term = e[i].term
    BY <1>7 DEF Spliced
  <2>3. k - 1 > 0 => b + (k - 1) <= Len(g) /\ g[b + (k - 1)].term = e[k - 1].term
    BY <2>1, <2>2
  <2>4. Shares(g, f, b + (k - 1))
    BY <1>5, <2>1, <2>3
  <2>5. /\ Len(h) = b + d /\ \A i \in 1 .. b + k - 1 : h[i] = g[i]
        /\ \A i \in b + k .. b + d : h[i] = e[i - b]
    BY <1>3, <1>7 DEF Spliced
  <2>6. ASSUME NEW j \in 1 .. b + d PROVE h[j] = f[j]
    <3>1. CASE j <= b + k - 1
      <4>1. j \in 1 .. b + k - 1 /\ j \in 1 .. b + (k - 1)
        BY <1>2, <2>1, <3>1
      <4> QED BY <2>4, <2>5, <4>1 DEF Shares
    <3>2. CASE ~(j <= b + k - 1)
      <4>1. j \in b + k .. b + d /\ j - b \in 1 .. d /\ b + (j - b) = j
        BY <1>2, <2>1, <3>2
      <4> QED BY <1>4, <2>5, <4>1
    <3> QED BY <3>1, <3>2
  <2> QED BY <1>2, <1>4, <2>5, <2>6 DEF Shares
<1>8. (h = g /\ HasAll(g, b, e)) \/ \E k \in Nat : Spliced(g, b, e, h, k)
  BY <1>1, <1>2, <1>4, MergedIs
<1> QED BY <1>1, <1>3, <1>6, <1>7, <1>8

\* A merge that changes a log leaves it the beginning of the log of a leader, of its last
\* entry's term, from which it differed before.
LEMMA MergedOver ==
    ASSUME NEW L \in [Terms -> Seq(Entries)], NEW g \in Seq(Entries), Agrees(g, L),
           NEW m \in AppendRequests, SliceAgrees(m, L),
           m.prev <= Len(g), m.prev > 0 => g[m.prev].term = m.prevTerm,
           NEW h, h = Merged(g, m.prev, m.entries), h # g,
           NEW v, v = m.entries[Len(m.entries)].term
    PROVE  /\ m.entries # <<>> /\ v \in Terms /\ elected[v] # {}
           /\ Len(h) > 0 /\ h[Len(h)].term = v
           /\ Shares(h, L[v], Len(h)) /\ ~Shares(g, L[v], Len(h))
<1>1. PICK e, b : e = m.entries /\ b = m.prev
  OBVIOUS
<1>2. e \in Seq(Entries) /\ Len(e) \in Nat /\ b \in Nat /\ Len(g) \in Nat
  BY <1>1 DEF AppendRequests
<1>3. PICK k \in Nat : Spliced(g, b, e, h, k)
  BY <1>1, <1>2, MergedIs
<1>4. /\ k \in 1 .. Len(e) /\ Len(h) = b + Len(e)
      /\ b + k > Len(g) \/ g[b + k].term # e[k].term
  BY <1>3 DEF Spliced
<1>5. \A i \in b + k .. b + Len(e) : h[i] = e[i - b]
  BY <1>3 DEF Spliced
<1>6. h \in Seq(Entries) /\ Agrees(h, L)
  BY MergedAgrees
<1>7. PICK d \in Nat : d = b + Len(e)
  BY <1>2
<1>8. /\ d \in b + k .. b + Len(e) /\ d - b = Len(e) /\ d \in 1 .. Len(h) /\ Len(e) > 0
      /\ b + k \in b + k .. b + Len(e) /\ (b + k) - b = k /\ b + k \in 1 .. d /\ d = Len(h)
  BY <1>2, <1>4, <1>7
<1>9. h[d].term = v /\ h[b + k] = e[k]
  <2>1. h[d] = e[d - b] /\ h[b + k] = e[(b + k) - b]
    BY <1>5, <1>8
  <2> QED BY <1>1, <1>8, <2>1
<1>10. d \in DOMAIN h
  BY <1>6, <1>8
<1>11. v \in Terms /\ elected[v] # {} /\ d <= Len(L[v]) /\ \A j \in 1 .. d : h[j] = L[v][j]
  BY <1>6, <1>9, <1>10 DEF Agrees
<1>12. Shares(h, L[v], Len(h))
  BY <1>2, <1>8, <1>11 DEF Shares
<1>13. ASSUME Shares(g, L[v], d) PROVE FALSE
  <2>1. d <= Len(g) /\ g[b + k] = L[v][b + k]
    BY <1>8, <1>13 DEF Shares
  <2>2. ~(b + k > Len(g))
    BY <1>2, <1>4, <1>8, <2>1
  <2>3. g[b + k] = e[k]
    BY <1>8, <1>9, <1>11, <2>1
  <2> QED BY <1>4, <2>2, <2>3
<1>14. m.entries # <<>>
  BY <1>1, <1>2, <1>8
<1> QED BY <1>8, <1>9, <1>11, <1>12, <1>13, <1>14

\* What a follower takes of its leader's push it has acknowledged.
LEMMA TakenAcked ==
    ASSUME NEW B, NEW L, NEW K, NEW D, NEW M, NEW J, GhostStep(B, L, K, D, M, J),
           NEW n \in Nodes, NEW p \in Nodes, node[n].role = "leader", Takes(n, p),
           NEW i \in Nat, i <= call'[n][p].upTo
    PROVE  <<p, node[n].term, i>> \in J
<1>1. /\ L \in [Terms -> Seq(Entries)] /\ M \in [Terms -> Seq(Entries)] /\ Extends(L, M)
      /\ LogsAgree(L) /\ RaftInv /\ RaftInv' /\ OwnPushes /\ J = K \cup HeldNow(M)'
  BY DEF GhostStep, SendInv
<1>2. PICK m \in Requests :
         /\ m.op = "append" /\ m.to = p /\ call[n][p].st = "asked" /\ call[n][p].req = m
         /\ TookEntries(m) /\ call'[n][p].upTo = m.prev + Len(m.entries)
  BY DEF Takes
<1>3. PICK t \in Terms : t = node[n].term /\ elected[t] # {}
  BY <1>1, LeaderLed DEF RaftInv
<1>4. /\ node[n].log = L[t] /\ L[t] \in Seq(Entries) /\ Agrees(L[t], L)
      /\ node[p].log \in Seq(Entries) /\ Agrees(node[p].log, L)
      /\ node'[p].log \in Seq(Entries) /\ m \in AppendRequests
  BY <1>1, <1>2, <1>3, NodeTyped, NodeTypedNext, RequestShapes DEF LogsAgree
<1>5. m.term = t /\ Carried(L[t], m)
  BY <1>1, <1>2, <1>3, <1>4 DEF OwnPushes
<1>6. PICK N \in Nat : N = m.prev + Len(m.entries)
  BY <1>4 DEF AppendRequests
<1>7. Shares(node'[p].log, L[t], N)
  BY <1>2, <1>4, <1>5, <1>6, MergedShares DEF TookEntries
<1>8. i \in 0 .. N /\ Len(node'[p].log) \in Nat /\ Len(L[t]) \in Nat
  BY <1>2, <1>4, <1>6
<1>9. Shares(node'[p].log, L[t], i)
  BY <1>7, <1>8, SharesLess
<1>10. Shares(node'[p].log, M[t], i)
  BY <1>1, <1>3, <1>9, SharesGrows
<1>11. node'[p].term = t
  BY <1>2, <1>5 DEF TookEntries
<1>12. elected'[t] # {}
  BY <1>1, <1>3, Extended
<1>13. <<p, t, i>> \in HeldNow(M)'
  BY <1>10, <1>11, <1>12 DEF HeldNow
<1> QED BY <1>1, <1>3, <1>13

LEMMA AckedStep ==
    ASSUME NEW B, NEW L, NEW K, NEW D, NEW M, NEW J, GhostStep(B, L, K, D, M, J)
    PROVE  Acked(J)'
<1>1. /\ Acked(K) /\ J = K \cup HeldNow(M)' /\ OfficeMoves /\ NewMarks /\ NewAnswers
      /\ RaftInv /\ RaftInv'
  BY DEF GhostStep, Acks, Moves
<1>2. SUFFICES ASSUME NEW n \in Nodes, NEW p \in Nodes, node'[n].role = "leader", p # n
               PROVE  /\ \A i \in 1 .. matchIndex'[n][p] : <<p, node'[n].term, i>> \in J
                      /\ call'[n][p].st = "answered" /\ call'[n][p].reply.ok =>
                            \A i \in 1 .. call'[n][p].upTo : <<p, node'[n].term, i>> \in J
  BY DEF Acked
<1>3. CASE TakesOffice(n)
  <2>1. matchIndex'[n][p] = 0 /\ call'[n][p].st # "answered"
    BY <1>3, ConstantCalls DEF TakesOffice
  <2>2. 1 .. matchIndex'[n][p] = {}
    BY <2>1
  <2> QED BY <2>1, <2>2
<1>4. CASE StaysInOffice(n)
  <2>1. node[n].role = "leader" /\ node'[n].term = node[n].term
    BY <1>4 DEF StaysInOffice
  <2>2. \A i \in 1 .. matchIndex[n][p] : <<p, node[n].term, i>> \in K
    BY <1>1, <1>2, <2>1 DEF Acked
  <2>3. call[n][p].st = "answered" /\ call[n][p].reply.ok =>
            \A i \in 1 .. call[n][p].upTo : <<p, node[n].term, i>> \in K
    BY <1>1, <1>2, <2>1 DEF Acked
  <2>4. \A i \in 1 .. matchIndex'[n][p] : <<p, node'[n].term, i>> \in J
    <3>1. CASE matchIndex'[n][p] = 0
      <4>1. 1 .. matchIndex'[n][p] = {}
        BY <3>1
      <4> QED BY <4>1
    <3>2. CASE matchIndex'[n][p] = matchIndex[n][p]
      BY <1>1, <2>1, <2>2, <3>2
    <3>3. CASE /\ call[n][p].st = "answered" /\ call[n][p].reply.ok
               /\ matchIndex'[n][p] = call[n][p].upTo
      BY <1>1, <2>1, <2>3, <3>3
    <3> QED BY <1>1, <1>2, <3>1, <3>2, <3>3 DEF NewMarks
  <2>5. ASSUME call'[n][p].st = "answered", call'[n][p].reply.ok
        PROVE  \A i \in 1 .. call'[n][p].upTo : <<p, node'[n].term, i>> \in J
    <3>1. CASE call'[n][p] = call[n][p]
      BY <1>1, <2>1, <2>3, <2>5, <3>1
    <3>2. CASE Takes(n, p)
      <4>1. \A i \in 1 .. call'[n][p].upTo : i \in Nat /\ i <= call'[n][p].upTo
        <5>1. call'[n][p].upTo \in Nat
          <6>1. call'[n][p] \in Calls
            BY <1>1 DEF RaftInv, TypeOK
          <6> QED BY <2>5, <6>1, CallShapes
        <5> QED BY <5>1
      <4> QED BY <2>1, <3>2, <4>1, TakenAcked
    <3> QED BY <1>1, <1>2, <2>5, <3>1, <3>2 DEF NewAnswers
  <2> QED BY <2>4, <2>5
<1> QED BY <1>1, <1>2, <1>3, <1>4 DEF OfficeMoves

\* What is chosen remains so.
LEMMA ChosenStays ==
    ASSUME NEW B, NEW L, NEW K, NEW D, NEW M, NEW J, GhostStep(B, L, K, D, M, J),
           NEW t \in Terms, NEW i \in Nat, Chosen(t, i, L, K)
    PROVE  Chosen(t, i, M, J)' /\ i <= Len(L[t]) /\ \A j \in 1 .. i : M[t][j] = L[t][j]
<1>1. /\ L \in [Terms -> Seq(Entries)] /\ M \in [Terms -> Seq(Entries)] /\ Extends(L, M)
      /\ J = K \cup HeldNow(M)'
  BY DEF GhostStep
<1>2. Own(t, i, L)
  BY DEF Chosen
<1>3. Own(t, i, M)' /\ i <= Len(L[t]) /\ \A j \in 1 .. i : M[t][j] = L[t][j]
  BY <1>1, <1>2, OwnGrows
<1>4. PICK Q \in SUBSET Nodes : Majority(Q) /\ \A q \in Q : <<q, t, i>> \in K
  BY DEF Chosen
<1>5. \A q \in Q : <<q, t, i>> \in J
  BY <1>1, <1>4
<1> QED BY <1>3, <1>4, <1>5 DEF Chosen, Majority, Quorum

\* What a leader counts is chosen.
LEMMA CountedChosen ==
    ASSUME NEW B, NEW L, NEW K, NEW D, NEW M, NEW J, GhostStep(B, L, K, D, M, J),
           NEW n \in Nodes, NEW i \in Nat, CountsUpTo(n, i), NEW t, t = node[n].term
    PROVE  /\ t \in Terms /\ elected[t] # {} /\ elected'[t] # {}
           /\ M[t] = node[n].log /\ Chosen(t, i, M, J)'
<1>1. /\ L \in [Terms -> Seq(Entries)] /\ M \in [Terms -> Seq(Entries)] /\ Extends(L, M)
      /\ LogsAgree(M)' /\ J = K \cup HeldNow(M)' /\ RaftInv /\ RaftInv'
  BY DEF GhostStep
<1>2. /\ node[n].role = "leader" /\ node'[n].role = "leader"
      /\ node'[n].term = node[n].term /\ node'[n].log = node[n].log
      /\ i \in 1 .. Len(node[n].log) /\ node[n].log[i].term = node[n].term
      /\ 1 + Cardinality({p \in Peers(n) : matchIndex'[n][p] >= i}) >= Quorum
  BY DEF CountsUpTo
<1>3. t \in Terms /\ elected[t] # {}
  BY <1>1, <1>2, LeaderLed DEF RaftInv
<1>4. elected'[t] # {}
  BY <1>1, <1>3, Extended
<1>5. M[t] = node[n].log /\ node'[n].log = M[t]
  BY <1>1, <1>2, <1>3 DEF LogsAgree
<1>6. Own(t, i, M)'
  BY <1>2, <1>3, <1>4, <1>5 DEF Own
<1>7. PICK S : S = {p \in Peers(n) : matchIndex'[n][p] >= i}
  OBVIOUS
<1>8. S \in SUBSET Nodes /\ IsFiniteSet(S) /\ n \notin S
  <2>1. S \in SUBSET Nodes /\ n \notin S
    BY <1>7 DEF Peers
  <2> QED BY <2>1, RaftAssumption, FS_Subset
<1>9. Cardinality(S \cup {n}) = Cardinality(S) + 1 /\ Cardinality(S) \in Nat
  BY <1>8, FS_AddElement, FS_CardinalityType
<1>10. Majority(S \cup {n})'
  <2>1. Quorum \in Nat
    <3>1. Cardinality(Nodes) \in Nat
      BY RaftAssumption, FS_CardinalityType
    <3> QED BY <3>1 DEF Quorum
  <2>2. Cardinality(S \cup {n}) >= Quorum
    BY <1>2, <1>7, <1>9, <2>1
  <2> QED BY <2>2 DEF Majority, Quorum
<1>11. <<n, t, i>> \in J
  <2>1. Shares(node'[n].log, M[t], i)
    <3>1. Len(M[t]) \in Nat /\ i \in 1 .. Len(M[t])
      BY <1>1, <1>2, <1>3, <1>5, LogTyped
    <3> QED BY <1>5, <3>1 DEF Shares
  <2>2. <<n, t, i>> \in HeldNow(M)'
    BY <1>2, <1>3, <1>4, <2>1 DEF HeldNow
  <2> QED BY <1>1, <2>2
<1>12. ASSUME NEW p \in S PROVE <<p, t, i>> \in J
  <2>1. p \in Nodes /\ p # n /\ matchIndex'[n][p] >= i
    BY <1>7, <1>8
  <2>2. matchIndex'[n][p] \in Nat
    BY <1>1, <2>1 DEF RaftInv, TypeOK
  <2>3. i \in 1 .. matchIndex'[n][p]
    <3>1. i >= 1
      BY <1>2
    <3> QED BY <2>1, <2>2, <3>1
  <2>4. Acked(J)'
    BY AckedStep
  <2>5. \A j \in 1 .. matchIndex'[n][p] : <<p, node'[n].term, j>> \in J
    BY <1>2, <2>1, <2>4 DEF Acked
  <2> QED BY <1>2, <2>3, <2>5
<1>13. Chosen(t, i, M, J)'
  <2>1. S \cup {n} \in SUBSET Nodes /\ \A q \in S \cup {n} : <<q, t, i>> \in J
    BY <1>8, <1>11, <1>12
  <2> QED BY <1>6, <1>10, <2>1 DEF Chosen
<1> QED BY <1>3, <1>4, <1>5, <1>13

LEMMA CountedStep ==
    ASSUME NEW B, NEW L, NEW K, NEW D, NEW M, NEW J, GhostStep(B, L, K, D, M, J)
    PROVE  Counted(M, J)'
<1>1. /\ L \in [Terms -> Seq(Entries)] /\ M \in [Terms -> Seq(Entries)] /\ Extends(L, M)
      /\ Counted(L, K) /\ LogsAgree(L) /\ LogsAgree(M)' /\ J = K \cup HeldNow(M)'
      /\ OfficeMoves /\ NewCommits /\ RaftInv /\ RaftInv'
  BY DEF GhostStep, Acks, Moves
<1>2. SUFFICES ASSUME NEW c \in committed'
               PROVE  /\ c.under \in Terms /\ elected'[c.under] # {}
                      /\ c.by \in elected'[c.under] =>
                            \E i \in Nat : /\ c.index \in 1 .. i /\ Chosen(c.under, i, M, J)'
                                           /\ c.entry = M[c.under][c.index]
  BY DEF Counted, Chosen, Own, Majority, Quorum
<1>3. ASSUME c.under \in Terms, elected[c.under] # {}
      PROVE  elected'[c.under] = elected[c.under]
  <2>1. PICK t \in Terms : t = c.under
    BY <1>3
  <2>2. ASSUME NEW q \in Nodes, TakesOffice(q) PROVE node'[q].term # t
    BY <1>3, <2>1, <2>2 DEF TakesOffice
  <2>3. elected'[t] = elected[t] \/ \E q \in Nodes : TakesOffice(q) /\ node'[q].term = t
    BY <1>1 DEF OfficeMoves
  <2> QED BY <2>1, <2>2, <2>3
<1>4. CASE c \in committed
  <2>1. c.under \in Terms /\ elected[c.under] # {}
    BY <1>1, <1>4 DEF Counted
  <2>2. elected'[c.under] = elected[c.under]
    BY <1>3, <2>1
  <2>3. ASSUME c.by \in elected[c.under]
        PROVE  \E i \in Nat : /\ c.index \in 1 .. i /\ Chosen(c.under, i, M, J)'
                              /\ c.entry = M[c.under][c.index]
    <3>1. PICK i \in Nat : /\ c.index \in 1 .. i /\ Chosen(c.under, i, L, K)
                           /\ c.entry = L[c.under][c.index]
      BY <1>1, <1>4, <2>3 DEF Counted
    <3>2. Chosen(c.under, i, M, J)' /\ \A j \in 1 .. i : M[c.under][j] = L[c.under][j]
      BY <2>1, <3>1, ChosenStays
    <3> QED BY <3>1, <3>2
  <2> QED BY <2>1, <2>2, <2>3
<1>5. CASE Followed(c)
  <2>1. c.under \in Terms /\ elected[c.under] # {} /\ c.by \notin elected[c.under]
    BY <1>5 DEF Followed
  <2> QED BY <1>3, <2>1
<1>6. CASE CountedNow(c)
  <2>1. PICK n \in Nodes, i \in Nat :
           /\ CountsUpTo(n, i) /\ c.under = node[n].term
           /\ c.index \in 1 .. i /\ c.entry = node[n].log[c.index]
    BY <1>6 DEF CountedNow
  <2>2. PICK t : t = node[n].term
    OBVIOUS
  <2>3. /\ t \in Terms /\ elected'[t] # {}
        /\ M[t] = node[n].log /\ Chosen(t, i, M, J)'
    BY <2>1, <2>2, CountedChosen
  <2> QED BY <2>1, <2>2, <2>3
<1> QED BY <1>1, <1>2, <1>4, <1>5, <1>6 DEF NewCommits

-----------------------------------------------------------------------------
\* A request in flight after a step was there before it, or is sent in it.
LEMMA InFlightMoves ==
    ASSUME NewRequests, NEW m \in InFlight'
    PROVE  m \in InFlight \/ \E n, p \in Nodes : Asks(n, p, m) /\ Sends(n, p)
<1>1. ASSUME NEW n \in Nodes, NEW p \in Nodes, call[n][p].st = "asked", call[n][p].req = m
      PROVE  m \in InFlight
  <2>1. PICK x \in Nodes \X Nodes : x = <<n, p>>
    OBVIOUS
  <2>2. x[1] = n /\ x[2] = p
    BY <2>1
  <2>3. call[x[1]][x[2]].st = "asked" /\ call[x[1]][x[2]].req = m
    BY <1>1, <2>2
  <2> QED BY <2>3 DEF InFlight
<1>2. CASE m \in late'
  <2>1. m \in late \/ \E n, p \in Nodes : call[n][p].st = "asked" /\ call[n][p].req = m
    BY <1>2 DEF NewRequests, LateMoves
  <2> QED BY <1>1, <2>1 DEF InFlight
<1>3. CASE m \notin late'
  <2>1. PICK x \in Nodes \X Nodes :
           call'[x[1]][x[2]].st = "asked" /\ m = call'[x[1]][x[2]].req
    BY <1>3 DEF InFlight
  <2>2. PICK n \in Nodes, p \in Nodes : n = x[1] /\ p = x[2]
    OBVIOUS
  <2>3. call'[n][p].st = "asked" /\ m = call'[n][p].req
    BY <2>1, <2>2
  <2>4. call'[n][p] = call[n][p] \/ (Asks(n, p, m) /\ Sends(n, p))
    BY <2>3 DEF NewRequests, Sends
  <2> QED BY <1>1, <2>3, <2>4
<1> QED BY <1>2, <1>3

\* A push carries what its sender's log has from there on.
LEMMA OwnCarried ==
    ASSUME NEW g \in Seq(Entries), NEW m, NEW k \in 1 .. Len(g) + 1, m.prev = k - 1,
           k > 1 => m.prevTerm = g[k - 1].term, m.entries = SubSeq(g, k, Len(g))
    PROVE  /\ Carried(g, m)
           /\ m.entries # <<>> =>
                 m.entries[Len(m.entries)] = g[Len(g)] /\ Len(g) \in 1 .. Len(g)
<1>1. PICK d \in Nat : d = Len(g)
  OBVIOUS
<1>2. k \in 1 .. d + 1 /\ \A i \in k .. d : g[i] \in Entries
  BY <1>1
<1>3. PICK e : e = m.entries
  OBVIOUS
<1>4. /\ Len(e) = IF k <= d THEN d - k + 1 ELSE 0
      /\ \A i \in 1 .. d - k + 1 : e[i] = g[k + i - 1]
  BY <1>1, <1>2, <1>3, SubSeqProperties
<1>5. Len(e) = d - k + 1
  BY <1>1, <1>2, <1>4
<1>6. ASSUME NEW j \in 1 .. Len(e) PROVE g[m.prev + j] = e[j]
  <2>1. j \in 1 .. d - k + 1 /\ m.prev + j = k + j - 1
    BY <1>1, <1>2, <1>5
  <2> QED BY <1>4, <2>1
<1>7. m.prev + Len(e) <= d /\ (m.prev > 0 => k > 1 /\ k - 1 = m.prev)
  BY <1>1, <1>2, <1>5
<1>8. Carried(g, m)
  BY <1>1, <1>3, <1>6, <1>7 DEF Carried
<1>9. ASSUME e # <<>> PROVE e[Len(e)] = g[d] /\ d \in 1 .. d
  <2>1. e \in Seq(Entries)
    BY <1>1, <1>2, <1>3, SubSeqProperties
  <2>2. Len(e) # 0
    BY <1>9, <2>1
  <2>3. Len(e) \in 1 .. Len(e) /\ m.prev + Len(e) = d /\ d \in 1 .. d
    BY <1>1, <1>2, <1>5, <2>2
  <2> QED BY <1>6, <2>3
<1> QED BY <1>1, <1>3, <1>8, <1>9

LEMMA CarriedStill ==
    ASSUME NEW g \in Seq(Entries), NEW m, Carried(g, m), NEW h \in Seq(Entries),
           h = g \/ \E e \in Entries : h = Append(g, e), m.prev \in Nat, m.entries \in Seq(Entries)
    PROVE  Carried(h, m)
<1>1. PICK k \in Nat, d \in Nat : k = Len(g) /\ d = Len(m.entries)
  OBVIOUS
<1>2. Len(h) >= k /\ \A j \in 1 .. k : h[j] = g[j]
  BY <1>1, AppendProperties
<1>3. /\ m.prev + d <= k /\ (m.prev > 0 => g[m.prev].term = m.prevTerm)
      /\ \A j \in 1 .. d : g[m.prev + j] = m.entries[j]
  BY <1>1 DEF Carried
<1>4. Len(h) \in Nat
  OBVIOUS
<1>5. m.prev > 0 => h[m.prev].term = m.prevTerm
  BY <1>2, <1>3
<1>6. ASSUME NEW j \in 1 .. d PROVE h[m.prev + j] = m.entries[j]
  <2>1. m.prev + j \in 1 .. k
    BY <1>3
  <2> QED BY <1>2, <1>3, <2>1
<1>7. m.prev + d <= Len(h)
  BY <1>2, <1>3, <1>4
<1> QED BY <1>1, <1>5, <1>6, <1>7 DEF Carried

LEMMA AppendRequestIs ==
    ASSUME RaftInv, NEW n \in Nodes, NEW p \in Nodes, NEW k \in 1 .. Len(node[n].log) + 1,
           NEW m, m = AppendRequest(n, p, k)
    PROVE  /\ m.op = "append" /\ m.term = mine[n] /\ Carried(node[n].log, m)
           /\ m.entries # <<>> => m.entries[Len(m.entries)].term = LastTerm(node[n])
<1>1. PICK g \in Seq(Entries) : g = node[n].log /\ node[n] \in NodeRecords
  BY NodeTyped
<1>2. /\ m.op = "append" /\ m.term = mine[n] /\ m.prev = k - 1
      /\ m.entries = SubSeq(g, k, Len(g)) /\ (k > 1 => m.prevTerm = g[k - 1].term)
  BY <1>1 DEF AppendRequest
<1>3. /\ Carried(g, m)
      /\ m.entries # <<>> => m.entries[Len(m.entries)] = g[Len(g)] /\ Len(g) \in 1 .. Len(g)
  BY <1>1, <1>2, OwnCarried
<1>4. ASSUME m.entries # <<>> PROVE m.entries[Len(m.entries)].term = LastTerm(node[n])
  <2>1. Len(g) > 0
    BY <1>3, <1>4
  <2> QED BY <1>1, <1>3, <1>4, <2>1, LastEntry
<1> QED BY <1>1, <1>2, <1>3, <1>4

LEMMA LeadersStayStep ==
    ASSUME RaftInv, RaftInv', SendInv, TermsRise, Moves
    PROVE  LeadersStay'
<1>1. SUFFICES ASSUME NEW n \in Nodes, doing'[n] = "lead" PROVE LastTerm(node'[n]) >= mine'[n]
  BY DEF LeadersStay
<1>2. /\ node[n].term \in Nat /\ node'[n].term \in Nat /\ LastTerm(node[n]) \in Nat
      /\ LastTerm(node'[n]) \in Nat /\ node'[n].term >= node[n].term
      /\ node[n].log \in Seq(Entries) /\ node'[n] \in NodeRecords
  BY NodeTyped, NodeTypedNext DEF TermsRise
<1>3. mine[n] \in Nat /\ mine'[n] \in Nat
  BY DEF RaftInv, TypeOK
<1>4. ASSUME Lengthened(n) PROVE LastTerm(node'[n]) = node[n].term
  <2>1. PICK e \in Entries : e.term = node[n].term /\ node'[n].log = Append(node[n].log, e)
    BY <1>4 DEF Lengthened
  <2>2. Len(node'[n].log) = Len(node[n].log) + 1 /\ node'[n].log[Len(node[n].log) + 1] = e
    BY <1>2, <2>1, AppendProperties
  <2>3. Len(node'[n].log) > 0
    BY <1>2, <2>2
  <2> QED BY <1>2, <2>1, <2>2, <2>3, LastEntry
<1>5. CASE TakesOffice(n) /\ Lengthened(n)
  BY <1>2, <1>4, <1>5 DEF TakesOffice
<1>6. CASE doing[n] = "lead" /\ mine'[n] = mine[n]
  <2>1. LastTerm(node[n]) >= mine[n] /\ mine[n] <= node[n].term
    BY <1>6 DEF SendInv, LeadersStay, RaftInv, TaskInv, TaskFits
  <2>2. CASE node'[n].log = node[n].log
    <3>1. LastTerm(node'[n]) = LastTerm(node[n])
      BY <2>2 DEF LastTerm
    <3> QED BY <1>6, <2>1, <3>1
  <2>3. CASE Lengthened(n)
    BY <1>2, <1>3, <1>4, <1>6, <2>1, <2>3
  <2>4. CASE Overwritten(n)
    <3>1. PICK L \in [Terms -> Seq(Entries)] : LogsAgree(L)
      BY DEF RaftInv, LogInv
    <3>2. PICK v \in Terms : v >= node'[n].term /\ LastTerm(node'[n]) = v
      BY <2>4, <3>1 DEF Overwritten
    <3> QED BY <1>2, <1>3, <1>6, <2>1, <3>2
  <2> QED BY <2>2, <2>3, <2>4 DEF Moves, LogMoves
<1> QED BY <1>1, <1>5, <1>6 DEF Moves, OfficeMoves

LEMMA RequestsHonestStep ==
    ASSUME RaftInv, RaftInv', SendInv, TermsRise, Moves
    PROVE  RequestsHonest'
<1>1. SUFFICES ASSUME NEW m \in InFlight' PROVE Honest(m)' /\ PushEnds(m)
  BY DEF RequestsHonest, PushEnds
<1>2. CASE m \in InFlight
  <2>1. Honest(m) /\ PushEnds(m)
    BY <1>2 DEF SendInv, RequestsHonest
  <2>2. PICK n \in Nodes : n = m.from /\ m.term \in Nat
    BY <1>2, InFlightIs, RequestShapes DEF RaftInv
  <2>3. node[n].term \in Nat /\ node'[n].term \in Nat /\ node'[n].term >= node[n].term
    BY NodeTyped, NodeTypedNext DEF TermsRise
  <2>4. ASSUME m.op = "vote"
        PROVE  /\ m.term <= node'[n].term
               /\ node'[n].role = "candidate" /\ node'[n].term = m.term =>
                     m.index = Len(node'[n].log) /\ m.last = LastTerm(node'[n])
    <3>1. /\ m.term <= node[n].term
          /\ node[n].role = "candidate" /\ node[n].term = m.term =>
                m.index = Len(node[n].log) /\ m.last = LastTerm(node[n])
      BY <2>1, <2>2, <2>4 DEF Honest
    <3>2. ASSUME node'[n].role = "candidate", node'[n].term = m.term
          PROVE  m.index = Len(node'[n].log) /\ m.last = LastTerm(node'[n])
      <4>1. ~(node'[n].term > node[n].term)
        BY <2>2, <2>3, <3>1, <3>2
      <4>2. /\ node'[n].log = node[n].log
            /\ node[n].role = "candidate" /\ node'[n].term = node[n].term
        BY <3>2, <4>1 DEF Moves, CandidatesStand
      <4> QED BY <3>1, <3>2, <4>2 DEF LastTerm
    <3> QED BY <2>2, <2>3, <3>1, <3>2
  <2> QED BY <2>1, <2>2, <2>4 DEF Honest
<1>3. CASE \E n, p \in Nodes : Asks(n, p, m)
  <2>1. PICK n \in Nodes, p \in Nodes : Asks(n, p, m)
    BY <1>3
  <2>2. node'[n] = node[n]
    BY <2>1 DEF Asks
  <2>3. CASE /\ m.op = "vote" /\ m.from = n /\ m.term = mine[n] /\ mine[n] <= node[n].term
             /\ m.index = Len(node[n].log) /\ m.last = LastTerm(node[n])
    <3>1. Honest(m)'
      BY <2>2, <2>3 DEF Honest
    <3> QED BY <2>3, <3>1 DEF PushEnds
  <2>4. CASE /\ doing[n] = "lead"
             /\ \E k \in 1 .. Len(node[n].log) + 1 : m = AppendRequest(n, p, k)
    <3>1. /\ m.op = "append" /\ m.term = mine[n]
          /\ m.entries # <<>> => m.entries[Len(m.entries)].term = LastTerm(node[n])
      BY <2>4, AppendRequestIs
    <3>2. LastTerm(node[n]) >= mine[n]
      BY <2>4 DEF SendInv, LeadersStay
    <3> QED BY <3>1, <3>2 DEF Honest, PushEnds
  <2> QED BY <2>1, <2>3, <2>4 DEF Asks
<1>4. m \in InFlight \/ \E n, p \in Nodes : Asks(n, p, m)
  BY InFlightMoves DEF Moves
<1> QED BY <1>2, <1>3, <1>4

LEMMA OwnPushesStep ==
    ASSUME RaftInv, RaftInv', SendInv, TermsRise, Moves
    PROVE  OwnPushes'
<1>1. SUFFICES ASSUME NEW n \in Nodes, NEW p \in Nodes,
                      node'[n].role = "leader", call'[n][p].st = "asked"
               PROVE  /\ call'[n][p].req.term = node'[n].term
                      /\ Carried(node'[n].log, call'[n][p].req)
  BY DEF OwnPushes
<1>2. PICK m : m = call'[n][p].req
  OBVIOUS
<1>3. ~TakesOffice(n)
  BY <1>1, ConstantCalls DEF TakesOffice
<1>4. node[n].role = "leader" /\ node'[n].term = node[n].term
  BY <1>1, <1>3 DEF Moves, OfficeMoves, StaysInOffice
<1>5. m.op = "append" /\ m \in AppendRequests /\ m.prev \in Nat /\ m.entries \in Seq(Entries)
  <2>1. m.op = "append"
    BY <1>1, <1>2 DEF RaftInv, TaskInv, TaskFits
  <2>2. call'[n][p] \in Calls
    BY DEF RaftInv, TypeOK
  <2>3. m \in AppendRequests
    BY <1>1, <1>2, <2>1, <2>2, CallShapes, RequestShapes
  <2> QED BY <2>1, <2>3 DEF AppendRequests
<1>6. node[n].log \in Seq(Entries) /\ node'[n].log \in Seq(Entries)
  BY NodeTyped, NodeTypedNext
<1>7. node'[n].log = node[n].log \/ \E e \in Entries : node'[n].log = Append(node[n].log, e)
  BY <1>1 DEF Moves, LogMoves, Lengthened, Overwritten
<1>8. CASE call'[n][p] = call[n][p]
  <2>1. m.term = node[n].term /\ Carried(node[n].log, m)
    BY <1>1, <1>2, <1>4, <1>8 DEF SendInv, OwnPushes
  <2>2. Carried(node'[n].log, m)
    BY <1>5, <1>6, <1>7, <2>1, CarriedStill
  <2> QED BY <1>2, <1>4, <2>1, <2>2
<1>9. CASE Asks(n, p, m)
  <2>1. node'[n] = node[n] /\ \E k \in 1 .. Len(node[n].log) + 1 : m = AppendRequest(n, p, k)
    BY <1>5, <1>9 DEF Asks
  <2>2. m.term = mine[n] /\ Carried(node[n].log, m)
    BY <2>1, AppendRequestIs
  <2>3. mine[n] = node[n].term
    BY <1>4, LeaderLed DEF RaftInv
  <2> QED BY <1>2, <2>1, <2>2, <2>3
<1> QED BY <1>1, <1>2, <1>8, <1>9 DEF Moves, NewRequests

LEMMA SendInvStep ==
    ASSUME RaftInv, RaftInv', SendInv, TermsRise, Moves
    PROVE  SendInv'
BY LeadersStayStep, RequestsHonestStep, OwnPushesStep DEF SendInv

LEMMA AcksStep ==
    ASSUME NEW B, NEW L, NEW K, NEW D, NEW M, NEW J, GhostStep(B, L, K, D, M, J)
    PROVE  Acks(D, M, J)'
<1>1. BallotsPast(D)' /\ Hopeless(D)' /\ LogsShaped(M)'
  BY BallotsPastStep, HopelessStep, LogsShapedStep
<1>2. AcksFair(M, J)' /\ AcksHeld(M, J)' /\ Safe(M, J)' /\ VotesSafe(D, M, J)'
  BY AcksFairStep, AcksHeldStep, SafeStep, VotesSafeStep
<1>3. Acked(J)' /\ Counted(M, J)'
  BY AckedStep, CountedStep
<1> QED BY <1>1, <1>2, <1>3 DEF Acks

LEMMA GhostStepIs ==
    ASSUME RaftInv, RaftInv', SendInv, RaftStep, TermsRise, Moves,
           NEW B \in SUBSET (Nodes \X Nat \X Nodes), NEW L \in [Terms -> Seq(Entries)],
           NEW K \in SUBSET (Nodes \X Terms \X Nat), Ballots(B), LogsAgree(L), Acks(B, L, K)
    PROVE  \E D \in SUBSET (Nodes \X Nat \X Nodes), M \in [Terms -> Seq(Entries)],
              J \in SUBSET (Nodes \X Terms \X Nat) : GhostStep(B, L, K, D, M, J)
<1>1. PICK D \in SUBSET (Nodes \X Nat \X Nodes) : D = B \cup Votes' /\ Ballots(D)'
  BY DEF RaftStep, BallotStep
<1>2. PICK M \in [Terms -> Seq(Entries)] : Extends(L, M) /\ Grown(L, M) /\ LogsAgree(M)'
  BY DEF RaftStep, LogStep
<1>3. PICK H : H = HeldNow(M)' /\ H \in SUBSET (Nodes \X Terms \X Nat)
  BY DEF HeldNow
<1>4. PICK J \in SUBSET (Nodes \X Terms \X Nat) : J = K \cup H
  BY <1>3
<1>5. GhostStep(B, L, K, D, M, J)
  BY <1>1, <1>2, <1>3, <1>4 DEF GhostStep
<1> QED BY <1>5

LEMMA CommitStep ==
    ASSUME CommitInv, RaftStep, TermsRise, Moves
    PROVE  CommitInv'
<1>1. RaftInv /\ RaftInv' /\ SendInv /\ SendInv'
  BY RaftStepHolds, SendInvStep DEF CommitInv
<1>2. PICK B \in SUBSET (Nodes \X Nat \X Nodes), L \in [Terms -> Seq(Entries)],
           K \in SUBSET (Nodes \X Terms \X Nat) : Ballots(B) /\ LogsAgree(L) /\ Acks(B, L, K)
  BY DEF CommitInv
<1>3. PICK D \in SUBSET (Nodes \X Nat \X Nodes), M \in [Terms -> Seq(Entries)],
           J \in SUBSET (Nodes \X Terms \X Nat) : GhostStep(B, L, K, D, M, J)
  BY <1>1, <1>2, GhostStepIs
<1>4. Ballots(D)' /\ LogsAgree(M)' /\ Acks(D, M, J)'
  BY <1>3, AcksStep DEF GhostStep
<1> QED BY <1>1, <1>4 DEF CommitInv

LEMMA CommitInit ==
    ASSUME Init
    PROVE  CommitInv
<1>1. RaftInv
  BY InitHolds
<1>2. /\ \A n \in Nodes : /\ node[n].term = 0 /\ node[n].vote = Nobody
                          /\ node[n].role = "follower" /\ doing[n] = "follow"
      /\ \A n, p \in Nodes : call[n][p].st # "asked"
      /\ late = {} /\ committed = {} /\ \A t \in Terms : elected[t] = {}
  BY ConstantCalls DEF Init, Boot, Blank, NoCalls, Terms
<1>3. SendInv
  <2>1. ASSUME NEW m \in InFlight PROVE FALSE
    <3>1. m \in late \/ \E n, p \in Nodes : call[n][p].st = "asked" /\ m = call[n][p].req
      BY <1>1, <2>1, InFlightIs DEF RaftInv
    <3> QED BY <1>2, <3>1
  <2> QED BY <1>2, <2>1 DEF SendInv, RequestsHonest, LeadersStay, OwnPushes
<1>4. PICK B \in SUBSET (Nodes \X Nat \X Nodes), L \in [Terms -> Seq(Entries)] :
         Ballots(B) /\ LogsAgree(L)
  BY <1>1 DEF RaftInv, BallotInv, LogInv
<1>5. PICK K : K = {} /\ K \in SUBSET (Nodes \X Terms \X Nat)
  <2>1. {} \in SUBSET (Nodes \X Terms \X Nat)
    OBVIOUS
  <2> QED BY <2>1
<1>6. BallotsPast(B)
  <2>1. ASSUME NEW p \in Nodes, NEW n \in Nodes, NEW t \in Nat, <<p, t, n>> \in B PROVE FALSE
    <3>1. t < node[p].term \/ (t = node[p].term /\ node[p].vote = n)
      BY <1>4, <2>1 DEF Ballots, BallotsFair
    <3> QED BY <1>2, <3>1, RaftAssumption
  <2> QED BY <2>1 DEF BallotsPast
<1>7. Hopeless(B) /\ LogsShaped(L) /\ Acked(K) /\ Counted(L, K)
  BY <1>2 DEF Hopeless, LogsShaped, Acked, Counted
<1>8. AcksFair(L, K) /\ AcksHeld(L, K) /\ Safe(L, K) /\ VotesSafe(B, L, K)
  BY <1>2, <1>5 DEF AcksFair, HeldNow, AcksHeld, Safe, VotesSafe
<1> QED BY <1>1, <1>3, <1>4, <1>5, <1>6, <1>7, <1>8 DEF CommitInv, Acks

LEMMA CommitComplete ==
    ASSUME CommitInv
    PROVE  LeaderCompleteness
<1>1. PICK L \in [Terms -> Seq(Entries)], K \in SUBSET (Nodes \X Terms \X Nat) :
         RaftInv /\ LogsAgree(L) /\ Safe(L, K) /\ Counted(L, K)
  BY DEF CommitInv, Acks
<1>2. SUFFICES ASSUME NEW n \in Nodes, NEW c \in committed, node[n].role = "leader",
                      node[n].term > c.under, c.by \in elected[c.under]
               PROVE  c.index <= Len(node[n].log) /\ node[n].log[c.index] = c.entry
  BY DEF LeaderCompleteness
<1>3. PICK s \in Terms : s = c.under
  BY <1>1 DEF Counted
<1>4. PICK t \in Terms : t = node[n].term /\ elected[t] # {} /\ s < t
  BY <1>1, <1>2, <1>3, LeaderLed, TermsAreNumbers DEF RaftInv
<1>5. PICK i \in Nat : c.index \in 1 .. i /\ Chosen(s, i, L, K) /\ c.entry = L[s][c.index]
  BY <1>1, <1>2, <1>3 DEF Counted
<1>6. Shares(L[t], L[s], i) \/ Lost(s, i, K)
  BY <1>1, <1>4, <1>5 DEF Safe, Chosen
<1>7. ASSUME Lost(s, i, K) PROVE FALSE
  <2>1. PICK Q \in SUBSET Nodes : Majority(Q) /\ \A q \in Q : <<q, s, i>> \notin K
    BY <1>7 DEF Lost
  <2>2. PICK R \in SUBSET Nodes : Majority(R) /\ \A q \in R : <<q, s, i>> \in K
    BY <1>5 DEF Chosen
  <2> QED BY <2>1, <2>2, MajoritiesMeet DEF Majority
<1>8. node[n].log = L[t] /\ Len(L[t]) \in Nat
  BY <1>1, <1>2, <1>4, LogTyped DEF LogsAgree
<1> QED BY <1>5, <1>6, <1>7, <1>8 DEF Shares

-----------------------------------------------------------------------------
(***************************************************************************)
(* Every step is such a move.                                              *)
(***************************************************************************)

\* A step that settles nothing moves no log and no office.
LEMMA QuietMoves ==
    ASSUME RaftInv, RaftInv', QuietStep
    PROVE  /\ TermsRise /\ LogMoves /\ OfficeMoves /\ CandidatesStand /\ LateMoves
           /\ \A q \in Nodes : node'[q].role = "leader" =>
                 /\ node[q].role = "leader" /\ node'[q].term = node[q].term
                 /\ node'[q].log = node[q].log
<1>1. Quiet /\ LogsKept
  BY DEF QuietStep
<1>2. TermsRise
  BY <1>1 DEF TermsRise, Quiet, VotesKept
<1>3. LogMoves
  BY <1>1 DEF LogMoves, LogsKept
<1>4. OfficeMoves
  <2>1. \A q \in Nodes : node'[q].role = "leader" => StaysInOffice(q)
    BY <1>1 DEF LogsKept, StaysInOffice
  <2>2. \A q \in Nodes : doing'[q] = "lead" => doing[q] = "lead" /\ mine'[q] = mine[q]
    BY <1>1 DEF Quiet, GoesOn, GoesBack
  <2> QED BY <1>1, <2>1, <2>2 DEF OfficeMoves, LogsKept
<1>5. CandidatesStand
  BY <1>1 DEF CandidatesStand, LogsKept, Quiet, RolesKept
<1> QED BY <1>1, <1>2, <1>3, <1>4, <1>5 DEF LogsKept, Quiet

\* Neither does one vote, answer, count or apply.
Calm ==
    /\ \A q \in Nodes : VoteAsBefore(q)
    /\ \A q, r \in Nodes : \/ call'[q][r] = call[q][r]
                           \/ call'[q][r].st \notin {"asked", "answered"}
                           \/ call'[q][r].st = "asked" /\ Asks(q, r, call'[q][r].req)
    /\ \A q, r \in Nodes : matchIndex'[q][r] \in {0, matchIndex[q][r]}
    /\ committed' = committed

LEMMA CalmMoves ==
    ASSUME RaftInv, RaftInv', QuietStep, Calm
    PROVE  TermsRise /\ Moves
<1>1. TermsRise /\ LogMoves /\ OfficeMoves /\ CandidatesStand /\ LateMoves
  BY QuietMoves
<1>2. NewVotes
  BY DEF NewVotes, Calm
<1>3. NewRequests
  BY <1>1 DEF NewRequests, Calm
<1>4. NewAnswers
  BY DEF NewAnswers, Calm
<1>5. NewMarks
  BY DEF NewMarks, Calm
<1>6. NewCommits
  BY DEF NewCommits, Calm
<1> QED BY <1>1, <1>2, <1>3, <1>4, <1>5, <1>6 DEF Moves

\* A node's coroutine is left.
LEMMA BackMoves ==
    ASSUME RaftInv, RaftInv', QuietStep, NEW n \in Nodes, BackToFollow(n),
           \A q \in Nodes : VoteAsBefore(q), committed' = committed
    PROVE  TermsRise /\ Moves
<1>1. /\ \A p \in Nodes : call'[n][p] = Over
      /\ \A q \in Nodes \ {n} : call'[q] = call[q]
  BY BackToFollowIs DEF RaftInv, Still
<1>2. \A q, r \in Nodes : call'[q][r] = call[q][r] \/ call'[q][r].st \notin {"asked", "answered"}
  BY <1>1, ConstantCalls
<1>3. \A q, r \in Nodes : matchIndex'[q][r] \in {0, matchIndex[q][r]}
  <2>1. matchIndex' = [matchIndex EXCEPT ![n] = [p \in Nodes |-> 0]]
    BY DEF BackToFollow
  <2>2. matchIndex \in [Nodes -> [Nodes -> Nat]]
    BY DEF RaftInv, TypeOK
  <2> QED BY <2>1, <2>2
<1>4. Calm
  BY <1>2, <1>3 DEF Calm
<1> QED BY <1>4, CalmMoves

\* One call of a node ends or is sent.
LEMMA OneCallCalm ==
    ASSUME RaftInv, NEW n \in Nodes, NEW p \in Nodes, NEW x, call' = [call EXCEPT ![n][p] = x],
           x.st \notin {"asked", "answered"} \/ (x.st = "asked" /\ Asks(n, p, x.req)),
           \A q \in Nodes : VoteAsBefore(q), committed' = committed, matchIndex' = matchIndex
    PROVE  Calm
<1>1. call \in [Nodes -> [Nodes -> Calls]]
  BY DEF RaftInv, TypeOK
<1>2. /\ call'[n][p] = x /\ \A q \in Nodes \ {p} : call'[n][q] = call[n][q]
      /\ \A q \in Nodes \ {n} : call'[q] = call[q]
  BY <1>1
<1>3. ASSUME NEW q \in Nodes, NEW r \in Nodes
      PROVE  \/ call'[q][r] = call[q][r]
             \/ call'[q][r].st \notin {"asked", "answered"}
             \/ call'[q][r].st = "asked" /\ Asks(q, r, call'[q][r].req)
  <2>1. CASE q = n /\ r = p
    BY <1>2, <2>1
  <2>2. CASE ~(q = n /\ r = p)
    BY <1>2, <2>2
  <2> QED BY <2>1, <2>2
<1> QED BY <1>3 DEF Calm

LEMMA UnchangedVotes ==
    ASSUME node' = node
    PROVE  \A q \in Nodes : VoteAsBefore(q)
BY DEF VoteAsBefore

LEMMA DeposedVotes ==
    ASSUME RaftInv, NEW n \in Nodes, NEW t \in Nat,
           node' = [node EXCEPT ![n] = BecomeFollower(@, t)]
    PROVE  \A q \in Nodes : VoteAsBefore(q)
<1>1. PICK s \in NodeRecords : s = BecomeFollower(node[n], t) /\ s.vote = Nobody
  BY NodeTyped, FollowerIs
<1>2. node' = [node EXCEPT ![n] = s]
  BY <1>1, Zenon
<1>3. node'[n] = s /\ \A q \in Nodes \ {n} : node'[q] = node[q]
  BY <1>2, NodeSet DEF RaftInv
<1> QED BY <1>1, <1>3 DEF VoteAsBefore

LEMMA RestartMoves ==
    ASSUME RaftInv, NEW n \in Nodes, NEW i \in DOMAIN disk[n], Restart(n, disk[n][i])
    PROVE  RaftStep /\ TermsRise /\ Moves
<1>1. QuietStep /\ RaftStep /\ RaftInv'
  BY RestartStep, RaftStepHolds DEF QuietStep
<1>2. disk[n][i] = State(node[n])
  <2>1. disk[n] = <<State(node[n])>>
    BY DEF RaftInv, TypeOK
  <2> QED BY <2>1
<1>3. PICK d : d = State(node[n])
  OBVIOUS
<1>4. node' = [node EXCEPT ![n] = Boot(d)] /\ BackToFollow(n) /\ committed' = committed
  BY <1>2, <1>3 DEF Restart, histVars
<1>5. Boot(d).term = node[n].term /\ Boot(d).vote = node[n].vote
  BY <1>3 DEF Boot, State
<1>6. \A q \in Nodes : VoteAsBefore(q)
  <2>1. node'[n] = Boot(d) /\ \A q \in Nodes \ {n} : node'[q] = node[q]
    BY <1>4 DEF RaftInv, TypeOK
  <2> QED BY <1>5, <2>1 DEF VoteAsBefore
<1> QED BY <1>1, <1>4, <1>6, BackMoves

LEMMA LeadEndsMoves ==
    ASSUME RaftInv, NEW n \in Nodes, LeadEnds(n)
    PROVE  RaftStep /\ TermsRise /\ Moves
<1>1. QuietStep /\ RaftStep /\ RaftInv'
  BY LeadEndsStep, RaftStepHolds DEF QuietStep
<1>2. node' = node /\ BackToFollow(n) /\ committed' = committed
  BY DEF LeadEnds, histVars
<1> QED BY <1>1, <1>2, UnchangedVotes, BackMoves

LEMMA SolicitMoves ==
    ASSUME RaftInv, NEW n \in Nodes, NEW p \in Peers(n), Solicit(n, p)
    PROVE  RaftStep /\ TermsRise /\ Moves
<1>1. QuietStep /\ RaftStep /\ RaftInv'
  BY SolicitStep, RaftStepHolds DEF QuietStep
<1>2. PICK m : m = [op |-> "vote", from |-> n, to |-> p, term |-> mine[n],
                    index |-> Len(node[n].log), last |-> LastTerm(node[n])]
  OBVIOUS
<1>3. /\ doing[n] = "campaign" /\ call' = [call EXCEPT ![n][p] = Asked(m)] /\ node' = node
      /\ matchIndex' = matchIndex /\ committed' = committed /\ p \in Nodes
  BY <1>2 DEF Solicit, leaderVars, histVars, Peers
<1>4. mine[n] <= node[n].term
  BY <1>3 DEF RaftInv, TaskInv, TaskFits
<1>5. Asks(n, p, m)
  BY <1>2, <1>3, <1>4 DEF Asks
<1>6. Asked(m).st = "asked" /\ Asked(m).req = m
  BY DEF Asked
<1>7. Calm
  BY <1>3, <1>5, <1>6, UnchangedVotes, OneCallCalm
<1> QED BY <1>1, <1>7, CalmMoves

LEMMA SolicitRepliedMoves ==
    ASSUME RaftInv, NEW n \in Nodes, NEW p \in Peers(n), SolicitReplied(n, p)
    PROVE  RaftStep /\ TermsRise /\ Moves
<1>1. QuietStep /\ RaftStep /\ RaftInv'
  BY SolicitRepliedStep, RaftStepHolds DEF QuietStep
<1>2. PICK r : r = call[n][p].reply
  OBVIOUS
<1>3. /\ call[n][p].st = "answered" /\ call' = [call EXCEPT ![n][p] = Over] /\ p \in Nodes
      /\ matchIndex' = matchIndex /\ committed' = committed
      /\ node' = node \/ node' = [node EXCEPT ![n] = BecomeFollower(@, r.term)]
  BY <1>2 DEF SolicitReplied, leaderVars, histVars, Peers
<1>4. r.term \in Nat
  <2>1. call[n][p] \in Calls
    BY <1>3 DEF RaftInv, TypeOK
  <2> QED BY <1>2, <1>3, <2>1, CallShapes DEF Replies
<1>5. \A q \in Nodes : VoteAsBefore(q)
  BY <1>3, <1>4, UnchangedVotes, DeposedVotes
<1>6. Calm
  BY <1>3, <1>5, ConstantCalls, OneCallCalm
<1> QED BY <1>1, <1>6, CalmMoves

\* A leader's push is one of its requests.
LEMMA PushAsks ==
    ASSUME NEW n \in Nodes, NEW p \in Nodes, doing[n] = "lead", node' = node,
           NEW k \in 1 .. Len(node[n].log) + 1, NEW x, x = Asked(AppendRequest(n, p, k))
    PROVE  x.st = "asked" /\ Asks(n, p, x.req)
<1>1. PICK m : m = AppendRequest(n, p, k)
  OBVIOUS
<1>2. x.st = "asked" /\ x.req = m
  BY <1>1 DEF Asked
<1> QED BY <1>1, <1>2 DEF Asks

LEMMA PushMoves ==
    ASSUME RaftInv, NEW n \in Nodes, NEW p \in Peers(n), Push(n, p)
    PROVE  RaftStep /\ TermsRise /\ Moves
<1>1. QuietStep /\ RaftStep /\ RaftInv'
  BY PushStep, RaftStepHolds DEF QuietStep
<1>2. PICK k : k = nextIndex[n][p]
  OBVIOUS
<1>3. PICK x : x = IF k - 1 > Len(node[n].log) THEN Over ELSE Asked(AppendRequest(n, p, k))
  OBVIOUS
<1>4. /\ doing[n] = "lead" /\ call' = [call EXCEPT ![n][p] = x] /\ node' = node
      /\ matchIndex' = matchIndex /\ committed' = committed /\ p \in Nodes
  BY <1>2, <1>3 DEF Push, leaderVars, histVars, Peers
<1>5. k \in Nat \ {0} /\ Len(node[n].log) \in Nat
  BY <1>2, <1>4, NodeTyped DEF RaftInv, TypeOK
<1>6. x.st \notin {"asked", "answered"} \/ (x.st = "asked" /\ Asks(n, p, x.req))
  <2>1. CASE k - 1 > Len(node[n].log)
    BY <1>3, <2>1, ConstantCalls
  <2>2. CASE ~(k - 1 > Len(node[n].log))
    <3>1. k \in 1 .. Len(node[n].log) + 1
      BY <1>5, <2>2
    <3> QED BY <1>3, <1>4, <2>2, <3>1, PushAsks
  <2> QED BY <2>1, <2>2
<1>7. Calm
  BY <1>4, <1>6, UnchangedVotes, OneCallCalm
<1> QED BY <1>1, <1>7, CalmMoves

LEMMA CallFailsMoves ==
    ASSUME RaftInv, NEW n \in Nodes, NEW p \in Peers(n), CallFails(n, p)
    PROVE  RaftStep /\ TermsRise /\ Moves
<1>1. QuietStep /\ RaftStep /\ RaftInv'
  BY CallFailsStep, RaftStepHolds DEF QuietStep
<1>2. PICK x : x = IF doing[n] = "lead" /\ InOffice(n) THEN Idle ELSE Over
  OBVIOUS
<1>3. /\ call' = [call EXCEPT ![n][p] = x] /\ node' = node
      /\ matchIndex' = matchIndex /\ committed' = committed /\ p \in Nodes
  BY <1>2 DEF CallFails, leaderVars, histVars, Peers
<1>4. x.st \notin {"asked", "answered"}
  BY <1>2, ConstantCalls
<1>5. Calm
  BY <1>3, <1>4, UnchangedVotes, OneCallCalm
<1> QED BY <1>1, <1>5, CalmMoves

LEMMA StutterMoves ==
    ASSUME RaftInv, UNCHANGED vars
    PROVE  RaftStep /\ TermsRise /\ Moves
<1>1. QuietStep /\ RaftStep /\ RaftInv'
  BY StutterHolds, RaftStepHolds DEF QuietStep
<1>2. node' = node /\ call' = call /\ matchIndex' = matchIndex /\ committed' = committed
  BY DEF vars, leaderVars, histVars
<1>3. Calm
  BY <1>2, UnchangedVotes DEF Calm
<1> QED BY <1>1, <1>3, CalmMoves

LEMMA CampaignMoves ==
    ASSUME RaftInv, NEW n \in Nodes, Campaign(n), LateMoves
    PROVE  TermsRise /\ Moves
<1>1. /\ \A q \in Nodes \ {n} : node'[q] = node[q] /\ call'[q] = call[q]
      /\ node'[n].term = node[n].term + 1 /\ node'[n].vote = n
      /\ node'[n].role = "candidate" /\ node'[n].log = node[n].log
      /\ \A p \in Nodes : call'[n][p] = IF p = n THEN Over ELSE Born
      /\ matchIndex' = matchIndex /\ elected' = elected
  BY CampaignIs DEF RaftInv
<1>2. doing' = [doing EXCEPT ![n] = "campaign"] /\ mine' = [mine EXCEPT ![n] = node[n].term + 1]
  BY CampaignIs DEF RaftInv
<1>3. doing'[n] = "campaign" /\ \A q \in Nodes \ {n} : doing'[q] = doing[q] /\ mine'[q] = mine[q]
  BY <1>2 DEF RaftInv, TypeOK
<1>4. committed' = committed
  BY DEF Campaign, histVars
<1>5. \A q \in Nodes : node[q].term \in Nat /\ Len(node[q].log) \in Nat
  BY NodeTyped
<1>6. node'[n].term > node[n].term
  BY <1>1, <1>5
<1>7. TermsRise
  BY <1>1, <1>5, <1>6 DEF TermsRise
<1>8. LogMoves
  BY <1>1 DEF LogMoves
<1>9. OfficeMoves
  BY <1>1, <1>3 DEF OfficeMoves, StaysInOffice
<1>10. CandidatesStand
  BY <1>1, <1>6 DEF CandidatesStand
<1>11. NewVotes
  <2>1. Convinced(n)
    <3>1. node'[n].term <= node'[n].term /\ Len(node[n].log) >= Len(node[n].log)
      BY <1>1, <1>5
    <3> QED BY <1>1, <3>1 DEF Convinced
  <2> QED BY <1>1, <2>1 DEF NewVotes, VoteAsBefore
<1>12. \A q, p \in Nodes : call'[q][p] = call[q][p] \/ call'[q][p].st \notin {"asked", "answered"}
  BY <1>1, ConstantCalls
<1>13. NewRequests /\ NewAnswers
  BY <1>12 DEF NewRequests, NewAnswers
<1>14. NewMarks /\ NewCommits
  BY <1>1, <1>4 DEF NewMarks, NewCommits
<1> QED BY <1>7, <1>8, <1>9, <1>10, <1>11, <1>13, <1>14 DEF Moves

LEMMA FollowTimesOutMoves ==
    ASSUME RaftInv, NEW n \in Nodes, FollowTimesOut(n)
    PROVE  RaftStep /\ TermsRise /\ Moves
BY FollowTimesOutStep, CampaignMoves

LEMMA CampaignEndsMoves ==
    ASSUME RaftInv, NEW n \in Nodes, CampaignEnds(n)
    PROVE  RaftStep /\ TermsRise /\ Moves
<1>1. QuietStep \/ (RaftStep /\ Campaign(n) /\ LateMoves)
  BY CampaignEndsStep
<1>2. CASE Campaign(n)
  <2>1. RaftStep /\ LateMoves
    BY <1>1 DEF QuietStep, Quiet
  <2> QED BY <1>2, <2>1, CampaignMoves
<1>3. CASE ~Campaign(n)
  <2>1. QuietStep /\ RaftStep /\ RaftInv'
    BY <1>1, <1>3, RaftStepHolds DEF QuietStep
  <2>2. node' = node /\ BackToFollow(n) /\ committed' = committed
    BY <1>3 DEF CampaignEnds, histVars
  <2> QED BY <2>1, <2>2, UnchangedVotes, BackMoves
<1> QED BY <1>2, <1>3

LEMMA ReplyCalls ==
    ASSUME RaftInv, NEW m \in Requests, NEW r, Reply(m, r)
    PROVE  \A q, p \in Nodes : call'[q][p] = call[q][p] \/ Answers(m, r, q, p)
<1>1. m.from \in Nodes /\ m.to \in Nodes /\ call \in [Nodes -> [Nodes -> Calls]]
  BY RequestShapes DEF RaftInv, TypeOK
<1>2. PICK u : u = IF m.op = "append" THEN m.prev + Len(m.entries) ELSE 0
  OBVIOUS
<1>3. PICK x : x = Answered(u, r)
  OBVIOUS
<1>4. x.st = "answered" /\ x.upTo = u /\ x.reply = r
  BY <1>3 DEF Answered
<1>5. CASE call' = call
  BY <1>5
<1>6. CASE call[m.from][m.to] = Asked(m) /\ call' = [call EXCEPT ![m.from][m.to] = x]
  <2>1. /\ call'[m.from][m.to] = x
        /\ \A q \in Nodes \ {m.to} : call'[m.from][q] = call[m.from][q]
        /\ \A q \in Nodes \ {m.from} : call'[q] = call[q]
    BY <1>1, <1>6
  <2>2. Answers(m, r, m.from, m.to)
    BY <1>2, <1>4, <1>6, <2>1 DEF Answers
  <2>3. \A q, p \in Nodes : call'[q][p] = call[q][p] \/ (q = m.from /\ p = m.to)
    BY <1>1, <2>1
  <2> QED BY <2>2, <2>3
<1> QED BY <1>2, <1>3, <1>5, <1>6 DEF Reply

LEMMA HandleRequestVoteMoves ==
    ASSUME RaftInv, SendInv, NEW m \in InFlight, HandleRequestVote(m)
    PROVE  RaftStep /\ TermsRise /\ Moves
<1>1. QuietStep /\ RaftStep /\ RaftInv'
  BY HandleRequestVoteStep, RaftStepHolds DEF QuietStep
<1>2. /\ \A q \in Nodes \ {m.to} : node'[q] = node[q]
      /\ \/ VoteAsBefore(m.to)
         \/ node'[m.to].vote = m.from /\ node'[m.to].term = m.term /\ UpToDate(node[m.to], m)
  BY HandleRequestVoteStep
<1>3. TermsRise /\ LogMoves /\ OfficeMoves /\ CandidatesStand /\ LateMoves
  BY <1>1, QuietMoves
<1>4. m \in Requests /\ m.from \in Nodes /\ m.to \in Nodes /\ m.term \in Nat /\ m.op = "vote"
  BY InFlightIs, RequestShapes DEF RaftInv, HandleRequestVote
<1>5. PICK r : Reply(m, r)
  BY DEF HandleRequestVote
<1>6. \A q, p \in Nodes : call'[q][p] = call[q][p] \/ Answers(m, r, q, p)
  BY <1>4, <1>5, ReplyCalls
<1>7. matchIndex' = matchIndex /\ committed' = committed
  BY DEF HandleRequestVote, leaderVars, histVars
<1>8. NewVotes
  <2>1. ASSUME node'[m.to].vote = m.from, node'[m.to].term = m.term, UpToDate(node[m.to], m)
        PROVE  Convinced(m.to)
    <3>1. /\ m.term <= node[m.from].term
          /\ node[m.from].role = "candidate" /\ node[m.from].term = m.term =>
                m.index = Len(node[m.from].log) /\ m.last = LastTerm(node[m.from])
      BY <1>4 DEF SendInv, RequestsHonest, Honest
    <3>2. /\ node[m.from].term \in Nat /\ node'[m.from].term \in Nat
          /\ node'[m.from].term >= node[m.from].term
      BY <1>1, <1>3, <1>4, NodeTyped, NodeTypedNext DEF TermsRise
    <3>3. m.term <= node'[m.from].term
      BY <1>4, <3>1, <3>2
    <3>4. ASSUME node'[m.from].role = "candidate", node'[m.from].term = m.term
          PROVE  m.index = Len(node[m.from].log) /\ m.last = LastTerm(node[m.from])
      <4>1. ~(node'[m.from].term > node[m.from].term)
        BY <1>4, <3>1, <3>2, <3>4
      <4>2. node[m.from].role = "candidate" /\ node'[m.from].term = node[m.from].term
        BY <1>3, <1>4, <3>4, <4>1 DEF CandidatesStand
      <4> QED BY <3>1, <3>4, <4>2
    <3> QED BY <1>4, <2>1, <3>3, <3>4 DEF Convinced, UpToDate
  <2> QED BY <1>2, <2>1 DEF NewVotes, VoteAsBefore
<1>9. NewRequests
  BY <1>3, <1>6 DEF NewRequests, Answers
<1>10. NewAnswers
  <2>1. ASSUME NEW n \in Nodes, NEW p \in Nodes, node'[n].role = "leader", Answers(m, r, n, p)
        PROVE  FALSE
    <3>1. call[n][p].st = "asked" /\ call[n][p].req = m
      BY <2>1 DEF Answers, Asked
    <3>2. node[n].role = "leader"
      BY <1>1, <2>1, QuietMoves
    <3> QED BY <1>4, <3>1, <3>2 DEF RaftInv, TaskInv, TaskFits
  <2> QED BY <1>6, <2>1 DEF NewAnswers
<1>11. NewMarks /\ NewCommits
  BY <1>7 DEF NewMarks, NewCommits
<1> QED BY <1>1, <1>3, <1>8, <1>9, <1>10, <1>11 DEF Moves

\* What a follower applies is counted elsewhere.
LEMMA FollowerApplies ==
    ASSUME RaftInv, NEW m \in InFlight, m.op = "append", node'[m.to].term = m.term,
           committed' = committed \/ Apply(m.to, node'[m.to].commit)
    PROVE  NewCommits
<1>1. m \in Requests /\ m.to \in Nodes
  BY InFlightIs, RequestShapes DEF RaftInv
<1>2. m.term \in Terms /\ m.from \in elected[m.term] /\ m.to # m.from
  BY InFlightIs DEF RaftInv, TaskInv, SentByLeaders, FromLeader
<1>3. elected[m.term] = {m.from}
  BY <1>2, OneLeader DEF RaftInv
<1>4. ASSUME NEW c \in committed', c \notin committed PROVE Followed(c)
  <2>1. c.under = m.term /\ c.by = m.to
    BY <1>4 DEF Apply
  <2> QED BY <1>2, <1>3, <2>1 DEF Followed
<1> QED BY <1>4 DEF NewCommits

\* A follower that takes entries that change its log has the beginning of a leader's.
LEMMA TakerOverwritten ==
    ASSUME RaftInv, RaftInv', SendInv, NEW m \in InFlight, m.op = "append", TookEntries(m),
           node'[m.to].log # node[m.to].log
    PROVE  Overwritten(m.to)
<1>1. m \in AppendRequests /\ m.to \in Nodes /\ m.term \in Nat /\ PushEnds(m)
  BY InFlightIs, RequestShapes DEF RaftInv, SendInv, RequestsHonest
<1>2. PICK p \in Nodes : p = m.to
  BY <1>1
<1>3. /\ node'[p].role = "follower" /\ node'[p].term = m.term
      /\ node'[p].log = Merged(node[p].log, m.prev, m.entries)
      /\ m.prev <= Len(node[p].log) /\ (m.prev > 0 => node[p].log[m.prev].term = m.prevTerm)
  BY <1>2 DEF TookEntries
<1>4. node[p].log \in Seq(Entries) /\ node'[p] \in NodeRecords
  BY NodeTyped, NodeTypedNext
<1>5. PICK v : v = m.entries[Len(m.entries)].term
  OBVIOUS
<1>6. ASSUME NEW L \in [Terms -> Seq(Entries)], LogsAgree(L)
      PROVE  /\ v \in Terms /\ elected[v] # {} /\ v >= node'[p].term /\ LastTerm(node'[p]) = v
             /\ Shares(node'[p].log, L[v], Len(node'[p].log))
             /\ ~Shares(node[p].log, L[v], Len(node'[p].log))
  <2>1. Agrees(node[p].log, L) /\ SliceAgrees(m, L)
    BY <1>6, InFlightIs DEF LogsAgree, RaftInv
  <2>2. /\ m.entries # <<>> /\ v \in Terms /\ elected[v] # {}
        /\ Len(node'[p].log) > 0 /\ node'[p].log[Len(node'[p].log)].term = v
        /\ Shares(node'[p].log, L[v], Len(node'[p].log))
        /\ ~Shares(node[p].log, L[v], Len(node'[p].log))
    BY <1>1, <1>2, <1>3, <1>4, <1>5, <2>1, MergedOver
  <2>3. v >= m.term
    BY <1>1, <1>5, <2>2 DEF PushEnds
  <2>4. LastTerm(node'[p]) = v
    BY <1>4, <2>2, LastEntry
  <2> QED BY <1>3, <2>2, <2>3, <2>4
<1> QED BY <1>2, <1>3, <1>6 DEF Overwritten

LEMMA HandleAppendEntriesMoves ==
    ASSUME RaftInv, SendInv, NEW m \in InFlight, HandleAppendEntries(m)
    PROVE  RaftStep /\ TermsRise /\ Moves
<1>1. /\ RaftStep /\ Quiet /\ \A q \in Nodes \ {m.to} : node'[q] = node[q]
      /\ VoteAsBefore(m.to) /\ (TookEntries(m) \/ (LogsKept /\ TookNothing(m)))
  BY HandleAppendEntriesStep
<1>2. RaftInv'
  BY <1>1, RaftStepHolds
<1>3. m \in Requests /\ m.to \in Nodes /\ m.op = "append"
  BY InFlightIs, RequestShapes DEF RaftInv, HandleAppendEntries
<1>4. matchIndex' = matchIndex /\ doing' = doing /\ mine' = mine /\ elected' = elected
  BY DEF HandleAppendEntries, leaderVars
<1>5. NewMarks
  BY <1>4 DEF NewMarks
<1>6. NewVotes
  BY <1>1 DEF NewVotes, VoteAsBefore
<1>7. TermsRise /\ LateMoves
  BY <1>1 DEF TermsRise, Quiet, VotesKept
<1>8. CASE TookEntries(m)
  <2>1. node'[m.to].role = "follower" /\ node'[m.to].term = m.term
    BY <1>8 DEF TookEntries
  <2>2. LogMoves
    BY <1>1, <1>2, <1>3, <1>8, TakerOverwritten DEF LogMoves
  <2>3. OfficeMoves
    BY <1>1, <1>4, <2>1 DEF OfficeMoves, StaysInOffice
  <2>4. CandidatesStand
    BY <1>1, <2>1 DEF CandidatesStand
  <2>5. PICK r : Reply(m, r)
    BY DEF HandleAppendEntries
  <2>6. \A q, p \in Nodes : call'[q][p] = call[q][p] \/ Answers(m, r, q, p)
    BY <1>3, <2>5, ReplyCalls
  <2>7. NewRequests
    BY <1>7, <2>6 DEF NewRequests, Answers
  <2>8. NewAnswers
    <3>1. ASSUME NEW n \in Nodes, NEW p \in Nodes, Answers(m, r, n, p) PROVE Takes(n, p)
      BY <1>3, <1>8, <3>1 DEF Answers, Asked, Takes
    <3> QED BY <2>6, <3>1 DEF NewAnswers
  <2>9. NewCommits
    <3>1. committed' = committed \/ Apply(m.to, node'[m.to].commit)
      BY DEF HandleAppendEntries
    <3> QED BY <1>3, <2>1, <3>1, FollowerApplies
  <2> QED BY <1>1, <1>5, <1>6, <1>7, <2>2, <2>3, <2>4, <2>7, <2>8, <2>9 DEF Moves
<1>9. CASE LogsKept /\ TookNothing(m)
  <2>1. LogMoves /\ OfficeMoves /\ CandidatesStand
    BY <1>1, <1>2, <1>9, QuietMoves DEF QuietStep
  <2>2. PICK r : Reply(m, r) /\ r.ok = FALSE /\ committed' = committed
    BY <1>9 DEF TookNothing
  <2>3. \A q, p \in Nodes : call'[q][p] = call[q][p] \/ Answers(m, r, q, p)
    BY <1>3, <2>2, ReplyCalls
  <2>4. NewRequests
    BY <1>7, <2>3 DEF NewRequests, Answers
  <2>5. NewAnswers
    BY <2>2, <2>3 DEF NewAnswers, Answers
  <2>6. NewCommits
    BY <2>2 DEF NewCommits
  <2> QED BY <1>1, <1>5, <1>6, <1>7, <2>1, <2>4, <2>5, <2>6 DEF Moves
<1> QED BY <1>1, <1>8, <1>9

\* What a leader applies when a follower has answered it has counted.
LEMMA PushAcceptedCounts ==
    ASSUME RaftInv, NEW n \in Nodes, NEW p \in Peers(n), PushAccepted(n, p), InOffice(n)
    PROVE  /\ \A q \in Nodes : VoteAsBefore(q)
           /\ NewCommits
           /\ \A q \in Nodes \ {n} : node'[q] = node[q]
           /\ node'[n].commit = node[n].commit \/ CountsUpTo(n, node'[n].commit)
<1>1. node[n] \in NodeRecords /\ node[n].commit \in Nat
  BY NodeTyped DEF NodeRecords
<1>2. PICK k : k = CommitMark(n)
  OBVIOUS
<1>3. /\ k \in Nat
      /\ \/ k = node[n].commit
         \/ /\ k \in 1 .. Len(node[n].log) /\ Replicas(n, k) >= Quorum
            /\ node[n].log[k].term = mine[n]
  BY <1>2, CommitMarkIs DEF RaftInv
<1>4. PICK s \in NodeRecords :
         /\ s = [node[n] EXCEPT !.commit = k] /\ s.term = node[n].term /\ s.vote = node[n].vote
         /\ s.role = node[n].role /\ s.log = node[n].log /\ s.commit = k
  <2>1. PICK s : s = [node[n] EXCEPT !.commit = k]
    OBVIOUS
  <2>2. /\ s \in NodeRecords /\ s.term = node[n].term /\ s.vote = node[n].vote
        /\ s.role = node[n].role /\ s.log = node[n].log /\ s.commit = k
    BY <1>1, <1>3, <2>1, Zenon DEF NodeRecords
  <2> QED BY <2>1, <2>2
<1>5. node' = [node EXCEPT ![n] = s]
  <2>1. node' = [node EXCEPT ![n].commit = k]
    BY <1>2 DEF PushAccepted
  <2> QED BY <1>4, <2>1, Zenon DEF RaftInv, TypeOK
<1>6. node'[n] = s /\ \A q \in Nodes \ {n} : node'[q] = node[q]
  BY <1>4, <1>5, NodeSet DEF RaftInv
<1>7. \A q \in Nodes : VoteAsBefore(q)
  BY <1>4, <1>6 DEF VoteAsBefore
<1>8. Apply(n, node'[n].commit)
  BY DEF PushAccepted
<1>9. ASSUME k # node[n].commit PROVE CountsUpTo(n, k)
  <2>1. /\ k \in 1 .. Len(node[n].log) /\ node[n].log[k].term = mine[n]
        /\ 1 + Cardinality({q \in Peers(n) : matchIndex'[n][q] >= k}) >= Quorum
    BY <1>3, <1>9 DEF Replicas
  <2>2. node[n].role = "leader" /\ mine[n] = node[n].term
    BY DEF InOffice
  <2>3. /\ node'[n].role = "leader" /\ node'[n].term = node[n].term /\ node'[n].log = node[n].log
    BY <1>4, <1>6, <2>2
  <2>4. node[n].log[k].term = node[n].term
    BY <2>1, <2>2
  <2> QED BY <2>1, <2>2, <2>3, <2>4, Zenon DEF CountsUpTo
<1>10. ASSUME NEW c \in committed', c \notin committed PROVE CountedNow(c)
  <2>1. PICK i \in node[n].commit + 1 .. k :
           c = [index |-> i, entry |-> node'[n].log[i], under |-> node'[n].term, by |-> n]
    BY <1>4, <1>6, <1>8, <1>10 DEF Apply
  <2>2. /\ c.index \in 1 .. k /\ c.under = node[n].term
        /\ c.entry = node[n].log[c.index]
    BY <1>1, <1>3, <1>4, <1>6, <2>1
  <2>3. k # node[n].commit
    BY <1>1, <2>1
  <2>4. CountsUpTo(n, k)
    BY <1>9, <2>3
  <2> QED BY <1>3, <2>2, <2>4, Zenon DEF CountedNow
<1>11. NewCommits
  BY <1>10 DEF NewCommits
<1>12. node'[n].commit = node[n].commit \/ CountsUpTo(n, node'[n].commit)
  BY <1>4, <1>6, <1>9
<1> QED BY <1>6, <1>7, <1>11, <1>12

LEMMA PushAcceptedMoves ==
    ASSUME RaftInv, RaftInv', QuietStep, NEW n \in Nodes, NEW p \in Peers(n),
           PushAccepted(n, p), InOffice(n), call[n][p].st = "answered", call[n][p].reply.ok
    PROVE  TermsRise /\ Moves
<1>1. TermsRise /\ LogMoves /\ OfficeMoves /\ CandidatesStand /\ LateMoves
  BY QuietMoves
<1>2. p \in Nodes /\ call \in [Nodes -> [Nodes -> Calls]] /\ matchIndex \in [Nodes -> [Nodes -> Nat]]
  BY DEF Peers, RaftInv, TypeOK
<1>3. /\ call' = [call EXCEPT ![n][p] = Idle]
      /\ matchIndex' = [matchIndex EXCEPT ![n][p] = call[n][p].upTo]
  BY DEF PushAccepted
<1>4. \A q, r \in Nodes : call'[q][r] = call[q][r] \/ call'[q][r] = Idle
  BY <1>2, <1>3
<1>5. \A q, r \in Nodes : call'[q][r] = call[q][r] \/ call'[q][r].st \notin {"asked", "answered"}
  BY <1>4, ConstantCalls
<1>6. NewRequests /\ NewAnswers
  BY <1>1, <1>5 DEF NewRequests, NewAnswers
<1>7. NewMarks
  <2>1. ASSUME NEW q \in Nodes, NEW r \in Nodes
        PROVE  \/ matchIndex'[q][r] = matchIndex[q][r]
               \/ q = n /\ r = p /\ matchIndex'[q][r] = call[q][r].upTo
    BY <1>2, <1>3
  <2> QED BY <2>1 DEF NewMarks
<1>8. NewVotes /\ NewCommits
  BY PushAcceptedCounts DEF NewVotes
<1> QED BY <1>1, <1>6, <1>7, <1>8 DEF Moves

LEMMA PushRepliedMoves ==
    ASSUME RaftInv, NEW n \in Nodes, NEW p \in Peers(n), PushReplied(n, p)
    PROVE  RaftStep /\ TermsRise /\ Moves
<1>1. QuietStep /\ RaftStep /\ RaftInv'
  BY PushRepliedStep, RaftStepHolds DEF QuietStep
<1>2. PICK r : r = call[n][p].reply
  OBVIOUS
<1>3. doing[n] = "lead" /\ call[n][p].st = "answered" /\ p \in Nodes
  BY DEF PushReplied, Peers
<1>4. r.term \in Nat
  <2>1. call[n][p] \in Calls
    BY <1>3 DEF RaftInv, TypeOK
  <2> QED BY <1>2, <1>3, <2>1, CallShapes DEF Replies
<1>5. CASE /\ call' = [call EXCEPT ![n][p] = Over]
           /\ node' = node \/ node' = [node EXCEPT ![n] = BecomeFollower(@, r.term)]
           /\ matchIndex' = matchIndex /\ committed' = committed
  <2>1. \A q \in Nodes : VoteAsBefore(q)
    BY <1>4, <1>5, UnchangedVotes, DeposedVotes
  <2>2. Calm
    BY <1>3, <1>5, <2>1, ConstantCalls, OneCallCalm
  <2> QED BY <1>1, <2>2, CalmMoves
<1>6. CASE InOffice(n) /\ r.ok /\ PushAccepted(n, p)
  BY <1>1, <1>2, <1>3, <1>6, PushAcceptedMoves
<1>7. CASE InOffice(n) /\ PushRefused(n, p)
  <2>1. PICK k : k = IF nextIndex[n][p] > 1 THEN nextIndex[n][p] - 1 ELSE 1
    OBVIOUS
  <2>2. PICK x : x = Asked(AppendRequest(n, p, k))
    OBVIOUS
  <2>3. /\ call' = [call EXCEPT ![n][p] = x] /\ node' = node
        /\ matchIndex' = matchIndex /\ committed' = committed
    BY <1>7, <2>1, <2>2 DEF PushRefused
  <2>4. k \in 1 .. Len(node[n].log) + 1
    <3>1. nextIndex[n][p] \in Nat \ {0} /\ Len(node[n].log) \in Nat
      BY <1>3, NodeTyped DEF RaftInv, TypeOK
    <3>2. nextIndex[n][p] <= Len(node[n].log) + 1
      BY <1>3, <1>7 DEF InOffice, RaftInv, LogInv, OfficeFits
    <3> QED BY <2>1, <3>1, <3>2
  <2>5. x.st = "asked" /\ Asks(n, p, x.req)
    BY <1>3, <2>2, <2>3, <2>4, PushAsks
  <2>6. Calm
    BY <1>3, <2>3, <2>5, UnchangedVotes, OneCallCalm
  <2> QED BY <1>1, <2>6, CalmMoves
<1> QED BY <1>1, <1>2, <1>5, <1>6, <1>7 DEF PushReplied, leaderVars

LEMMA BecomeLeaderMoves ==
    ASSUME RaftInv, NEW n \in Nodes, BecomeLeader(n)
    PROVE  RaftStep /\ TermsRise /\ Moves
<1>1. RaftStep
  BY BecomeLeaderStep
<1>2. /\ LateMoves /\ \A q \in Nodes \ {n} : node'[q] = node[q] /\ Still(q)
      /\ node'[n].term = node[n].term /\ node'[n].vote = node[n].vote
      /\ node'[n].role = "leader"
      /\ node'[n].log = Append(node[n].log, Entry(node[n].term, Noop))
      /\ doing'[n] = "lead" /\ mine'[n] = mine[n] /\ mine[n] = node[n].term
      /\ \A p \in Nodes : call'[n][p] \in {Idle, Over}
      /\ mine[n] \in Terms /\ elected[mine[n]] = {}
      /\ elected' = [elected EXCEPT ![mine[n]] = {n}]
  BY BecomeLeaderIs DEF RaftInv
<1>3. /\ doing[n] = "campaign" /\ granted[n] >= Quorum /\ node[n].role = "candidate"
      /\ matchIndex' = [matchIndex EXCEPT ![n] = [p \in Nodes |-> 0]] /\ committed' = committed
  BY DEF BecomeLeader
<1>4. \A q, p \in Nodes : matchIndex'[q][p] = IF q = n THEN 0 ELSE matchIndex[q][p]
  BY <1>3 DEF RaftInv, TypeOK
<1>5. ASSUME NEW B \in SUBSET (Nodes \X Nat \X Nodes), Ballots(B)
      PROVE  \E Q \in SUBSET Nodes : Majority(Q) /\ \A p \in Q : <<p, node[n].term, n>> \in B
  <2>1. PICK C \in SUBSET Nodes :
           granted[n] <= Cardinality(C) /\ \A p \in C : <<p, mine[n], n>> \in B
    BY <1>3, <1>5 DEF Ballots, VotesCounted
  <2>2. granted[n] \in Nat /\ Cardinality(C) \in Nat /\ Cardinality(Nodes) \in Nat
    BY RaftAssumption, FS_Subset, FS_CardinalityType DEF RaftInv, TypeOK
  <2>3. Quorum \in Nat
    BY <2>2 DEF Quorum
  <2>4. Cardinality(C) >= Quorum
    BY <1>3, <2>1, <2>2, <2>3
  <2> QED BY <1>2, <2>1, <2>4 DEF Majority
<1>6. TakesOffice(n)
  BY <1>2, <1>3, <1>4, <1>5 DEF TakesOffice
<1>7. Lengthened(n)
  <2>1. Entry(node[n].term, Noop) \in Entries /\ Entry(node[n].term, Noop).term = node[n].term
    BY NodeTyped DEF Entry, Entries
  <2> QED BY <1>2, <1>6, <2>1 DEF Lengthened
<1>8. TermsRise
  BY <1>2, NodeTyped DEF TermsRise
<1>9. LogMoves
  BY <1>2, <1>7 DEF LogMoves
<1>10. OfficeMoves
  <2>1. \A q \in Nodes : node'[q].role = "leader" => TakesOffice(q) \/ StaysInOffice(q)
    BY <1>2, <1>6 DEF StaysInOffice
  <2>2. \A q \in Nodes : doing'[q] = "lead" =>
           (TakesOffice(q) /\ Lengthened(q)) \/ (doing[q] = "lead" /\ mine'[q] = mine[q])
    BY <1>2, <1>6, <1>7 DEF Still
  <2>3. ASSUME NEW t \in Terms
        PROVE  elected'[t] = elected[t] \/ (TakesOffice(n) /\ node'[n].term = t)
    BY <1>2, <1>6 DEF RaftInv, TypeOK
  <2> QED BY <2>1, <2>2, <2>3 DEF OfficeMoves
<1>11. CandidatesStand
  BY <1>2 DEF CandidatesStand
<1>12. NewVotes
  BY <1>2 DEF NewVotes, VoteAsBefore
<1>13. \A q, p \in Nodes : call'[q][p] = call[q][p] \/ call'[q][p].st \notin {"asked", "answered"}
  BY <1>2, ConstantCalls DEF Still
<1>14. NewRequests /\ NewAnswers
  BY <1>2, <1>13 DEF NewRequests, NewAnswers
<1>15. NewMarks
  BY <1>4 DEF NewMarks
<1>16. NewCommits
  BY <1>3 DEF NewCommits
<1> QED BY <1>1, <1>8, <1>9, <1>10, <1>11, <1>12, <1>14, <1>15, <1>16 DEF Moves

LEMMA ProposeMoves ==
    ASSUME RaftInv, NEW n \in Nodes, NEW c \in Commands, HandlePropose(n, c)
    PROVE  RaftStep /\ TermsRise /\ Moves
<1>1. RaftStep /\ LateMoves
  BY ProposeStep DEF Quiet
<1>2. PICK e \in Entries : e.term = node[n].term /\ node'[n].log = Append(node[n].log, e)
  BY ProposedIs DEF RaftInv
<1>3. /\ node'[n].term = node[n].term /\ node'[n].vote = node[n].vote
      /\ node'[n].role = node[n].role /\ \A q \in Nodes \ {n} : node'[q] = node[q]
  BY ProposedIs DEF RaftInv
<1>4. /\ node[n].role = "leader"
      /\ doing' = doing /\ mine' = mine /\ matchIndex' = matchIndex /\ call' = call
      /\ elected' = elected /\ committed' = committed
  BY DEF HandlePropose, leaderVars, histVars
<1>5. \A q \in Nodes : /\ node'[q].term = node[q].term /\ node'[q].vote = node[q].vote
                       /\ node'[q].role = node[q].role
  BY <1>3
<1>6. TermsRise
  BY <1>5, NodeTyped DEF TermsRise
<1>7. Lengthened(n)
  <2>1. node'[n].log = Append(node[n].log, e) /\ e.term = node'[n].term
    BY <1>2, <1>3
  <2> QED BY <1>4, <1>5, <2>1 DEF Lengthened, StaysInOffice
<1>8. LogMoves
  BY <1>3, <1>7 DEF LogMoves
<1>9. OfficeMoves
  BY <1>4, <1>5 DEF OfficeMoves, StaysInOffice
<1>10. CandidatesStand
  BY <1>3, <1>4, <1>5 DEF CandidatesStand
<1>11. NewVotes
  BY <1>5 DEF NewVotes, VoteAsBefore
<1>12. NewRequests /\ NewAnswers /\ NewMarks /\ NewCommits
  BY <1>1, <1>4 DEF NewRequests, NewAnswers, NewMarks, NewCommits
<1> QED BY <1>1, <1>6, <1>8, <1>9, <1>10, <1>11, <1>12 DEF Moves

LEMMA NextMoves ==
    ASSUME RaftInv, SendInv, [Next]_vars
    PROVE  RaftStep /\ TermsRise /\ Moves
<1>1. ASSUME NEW n \in Nodes, FollowTimesOut(n) PROVE RaftStep /\ TermsRise /\ Moves
  BY <1>1, FollowTimesOutMoves
<1>2. ASSUME NEW n \in Nodes, BecomeLeader(n) PROVE RaftStep /\ TermsRise /\ Moves
  BY <1>2, BecomeLeaderMoves
<1>3. ASSUME NEW n \in Nodes, CampaignEnds(n) PROVE RaftStep /\ TermsRise /\ Moves
  BY <1>3, CampaignEndsMoves
<1>4. ASSUME NEW n \in Nodes, LeadEnds(n) PROVE RaftStep /\ TermsRise /\ Moves
  BY <1>4, LeadEndsMoves
<1>5. ASSUME NEW n \in Nodes, NEW c \in Commands, HandlePropose(n, c)
      PROVE  RaftStep /\ TermsRise /\ Moves
  BY <1>5, ProposeMoves
<1>6. ASSUME NEW n \in Nodes, NEW i \in DOMAIN disk[n], Restart(n, disk[n][i])
      PROVE  RaftStep /\ TermsRise /\ Moves
  BY <1>6, RestartMoves
<1>7. ASSUME NEW n \in Nodes, NEW p \in Peers(n), Solicit(n, p)
      PROVE  RaftStep /\ TermsRise /\ Moves
  BY <1>7, SolicitMoves
<1>8. ASSUME NEW n \in Nodes, NEW p \in Peers(n), SolicitReplied(n, p)
      PROVE  RaftStep /\ TermsRise /\ Moves
  BY <1>8, SolicitRepliedMoves
<1>9. ASSUME NEW n \in Nodes, NEW p \in Peers(n), Push(n, p)
      PROVE  RaftStep /\ TermsRise /\ Moves
  BY <1>9, PushMoves
<1>10. ASSUME NEW n \in Nodes, NEW p \in Peers(n), PushReplied(n, p)
       PROVE  RaftStep /\ TermsRise /\ Moves
  BY <1>10, PushRepliedMoves
<1>11. ASSUME NEW n \in Nodes, NEW p \in Peers(n), CallFails(n, p)
       PROVE  RaftStep /\ TermsRise /\ Moves
  BY <1>11, CallFailsMoves
<1>12. ASSUME NEW m \in InFlight, HandleRequestVote(m) PROVE RaftStep /\ TermsRise /\ Moves
  BY <1>12, HandleRequestVoteMoves
<1>13. ASSUME NEW m \in InFlight, HandleAppendEntries(m) PROVE RaftStep /\ TermsRise /\ Moves
  BY <1>13, HandleAppendEntriesMoves
<1>14. UNCHANGED vars => RaftStep /\ TermsRise /\ Moves
  BY StutterMoves
<1> QED BY <1>1, <1>2, <1>3, <1>4, <1>5, <1>6, <1>7, <1>8, <1>9, <1>10, <1>11, <1>12, <1>13,
           <1>14 DEF Next

\* An entry a leader of its term has counted on a majority is in the log of every
\* later leader, whatever votes, restarts, overwritten logs and late requests come
\* between (_advance_commit, _handle_request_vote, _handle_append_entries;
\* checks.py, leader completeness).
THEOREM LeadersComplete == Spec => []LeaderCompleteness
<1>1. Init => CommitInv
  BY CommitInit
<1>2. CommitInv /\ [Next]_vars => CommitInv'
  <2>1. SUFFICES ASSUME CommitInv, [Next]_vars PROVE CommitInv'
    OBVIOUS
  <2>2. RaftInv /\ SendInv
    BY <2>1 DEF CommitInv
  <2>3. RaftStep /\ TermsRise /\ Moves
    BY <2>1, <2>2, NextMoves
  <2> QED BY <2>1, <2>3, CommitStep
<1>3. CommitInv => LeaderCompleteness
  BY CommitComplete
<1> QED BY <1>1, <1>2, <1>3, PTL DEF Spec

-----------------------------------------------------------------------------
(***************************************************************************)
(* State machine safety, until a request is sent out of office.            *)
(***************************************************************************)

VARIABLE strayed  \* history: some push task has sent a request out of office

\* A push task sends though its node leads no more, or in a later term: the case
\* that a look at role and term before the send would exclude.
Stray(n, p) == Push(n, p) /\ ~InOffice(n) /\ call'[n][p] # Over
Strays == \E n \in Nodes : \E p \in Peers(n) : Stray(n, p)

\* Spec, and a note of that.  The note constrains no step.
NotedNext == Next /\ (strayed' <=> strayed \/ Strays)
NotedSpec == Init /\ ~strayed /\ [][NotedNext]_<<vars, strayed>>

\* The log g has, up to k, what was chosen in t or before.
Settled(g, k, t, L, K) ==
    k = 0 \/ \E s \in Terms, i \in Nat :
                 s <= t /\ k <= i /\ Chosen(s, i, L, K) /\ Shares(g, L[s], k)

\* So have nodes up to their commit marks, and leaders' logs up to those sent,
SettledMarks(L, K) ==
    \A n \in Nodes : Settled(node[n].log, node[n].commit, node[n].term, L, K)

OfficeSent(m, L, K) ==
    m.op = "append" =>
        /\ m.term \in Terms /\ elected[m.term] # {}
        /\ Carried(L[m.term], m) /\ Settled(L[m.term], m.commit, m.term, L, K)

SettledRequests(L, K) == \A m \in InFlight : OfficeSent(m, L, K)

\* and nothing else is applied.
SettledApplied(L, K) ==
    \A c \in committed : \E s \in Terms, i \in Nat :
        c.index \in 1 .. i /\ Chosen(s, i, L, K) /\ c.entry = L[s][c.index]

SettledInv ==
    /\ RaftInv /\ SendInv
    /\ \E B \in SUBSET (Nodes \X Nat \X Nodes), L \in [Terms -> Seq(Entries)],
          K \in SUBSET (Nodes \X Terms \X Nat) :
             /\ Ballots(B) /\ LogsAgree(L) /\ Acks(B, L, K)
             /\ SettledMarks(L, K) /\ SettledRequests(L, K) /\ SettledApplied(L, K)

-----------------------------------------------------------------------------
\* What a step may do to the commit marks, to what was applied and to requests.
MarkMoves ==
    \A q \in Nodes :
        \/ node'[q].commit \in {0, node[q].commit}
        \/ CountsUpTo(q, node'[q].commit)
        \/ \E m \in InFlight :
              /\ m.op = "append" /\ m.to = q /\ TookEntries(m)
              /\ node'[q].commit = Min({m.commit, m.prev + Len(m.entries)})

AppliedToMark ==
    \A c \in committed' :
        c \in committed \/ \E q \in Nodes : /\ c.index \in 1 .. node'[q].commit
                                            /\ c.entry = node'[q].log[c.index]

SendsInOffice == \A n, p \in Nodes : Sends(n, p) /\ doing[n] = "lead" => InOffice(n)

MarkStep == MarkMoves /\ AppliedToMark /\ SendsInOffice

-----------------------------------------------------------------------------
\* What is chosen is in the log of its leader and of every later one.
LEMMA ChosenShared ==
    ASSUME RaftInv, NEW L \in [Terms -> Seq(Entries)], NEW K, Safe(L, K),
           NEW s \in Terms, NEW t \in Terms, NEW i \in Nat, Chosen(s, i, L, K),
           s <= t, elected[t] # {}
    PROVE  Shares(L[t], L[s], i)
<1>1. s \in Nat /\ t \in Nat
  BY TermsAreNumbers
<1>2. Own(s, i, L) /\ Len(L[s]) \in Nat
  BY LogTyped DEF Chosen
<1>3. CASE s = t
  BY <1>2, <1>3 DEF Own, Shares
<1>4. CASE s < t
  <2>1. Shares(L[t], L[s], i) \/ Lost(s, i, K)
    BY <1>2, <1>4 DEF Safe
  <2>2. ASSUME Lost(s, i, K) PROVE FALSE
    <3>1. PICK Q \in SUBSET Nodes : Majority(Q) /\ \A q \in Q : <<q, s, i>> \notin K
      BY <2>2 DEF Lost
    <3>2. PICK R \in SUBSET Nodes : Majority(R) /\ \A q \in R : <<q, s, i>> \in K
      BY DEF Chosen
    <3> QED BY <3>1, <3>2, MajoritiesMeet DEF Majority
  <2> QED BY <2>1, <2>2
<1> QED BY <1>1, <1>3, <1>4

LEMMA SettledShared ==
    ASSUME NEW L \in [Terms -> Seq(Entries)], NEW K, NEW t, NEW g \in Seq(Entries),
           NEW h \in Seq(Entries), NEW k \in Nat, NEW j \in 0 .. k,
           Settled(g, k, t, L, K), Shares(h, g, j)
    PROVE  Settled(h, j, t, L, K)
<1>1. CASE j = 0
  BY <1>1 DEF Settled
<1>2. CASE j # 0
  <2>1. k # 0
    BY <1>2
  <2>2. PICK s \in Terms, i \in Nat :
           s <= t /\ k <= i /\ Chosen(s, i, L, K) /\ Shares(g, L[s], k)
    BY <2>1 DEF Settled
  <2>3. Len(g) \in Nat /\ Len(h) \in Nat /\ Len(L[s]) \in Nat
    BY LogTyped
  <2>4. Shares(h, L[s], j)
    BY <2>2, <2>3 DEF Shares
  <2>5. j <= i
    BY <2>2
  <2> QED BY <2>2, <2>4, <2>5 DEF Settled
<1> QED BY <1>1, <1>2

\* A settled mark is within its log.
LEMMA SettledWithin ==
    ASSUME NEW L \in [Terms -> Seq(Entries)], NEW K, NEW t, NEW g \in Seq(Entries), NEW k \in Nat,
           Settled(g, k, t, L, K)
    PROVE  k <= Len(g) /\ Shares(g, g, k)
<1>1. Len(g) \in Nat
  OBVIOUS
<1> QED BY <1>1 DEF Settled, Shares

LEMMA SettledGrows ==
    ASSUME NEW B, NEW L, NEW K, NEW D, NEW M, NEW J, GhostStep(B, L, K, D, M, J),
           NEW g, NEW k \in Nat, NEW t \in Nat, Settled(g, k, t, L, K), NEW u \in Nat, t <= u
    PROVE  Settled(g, k, u, M, J)'
<1>1. /\ L \in [Terms -> Seq(Entries)] /\ M \in [Terms -> Seq(Entries)] /\ Extends(L, M)
  BY DEF GhostStep
<1>2. CASE k = 0
  BY <1>2 DEF Settled
<1>3. CASE k # 0
  <2>1. PICK s \in Terms, i \in Nat :
           s <= t /\ k <= i /\ Chosen(s, i, L, K) /\ Shares(g, L[s], k)
    BY <1>3 DEF Settled
  <2>2. elected[s] # {}
    BY <2>1 DEF Chosen, Own
  <2>3. Shares(g, M[s], k)
    BY <1>1, <2>1, <2>2, SharesGrows
  <2>4. Chosen(s, i, M, J)'
    BY <2>1, ChosenStays
  <2>5. s <= u
    BY <2>1, TermsAreNumbers
  <2> QED BY <2>1, <2>3, <2>4, <2>5 DEF Settled
<1> QED BY <1>2, <1>3

\* A log that a step changes keeps what was settled in it.
LEMMA SettledStays ==
    ASSUME NEW B, NEW L, NEW K, NEW D, NEW M, NEW J, GhostStep(B, L, K, D, M, J),
           NEW q \in Nodes, NEW k \in Nat, Settled(node[q].log, k, node[q].term, L, K),
           NEW h, h = node'[q].log, NEW u, u = node'[q].term
    PROVE  Settled(h, k, u, M, J)'
<1>1. /\ L \in [Terms -> Seq(Entries)] /\ RaftInv /\ RaftInv' /\ LogsAgree(L) /\ Safe(L, K)
      /\ LogMoves /\ TermsRise
  BY DEF GhostStep, Moves, Acks
<1>2. PICK g \in Seq(Entries), t \in Nat : g = node[q].log /\ t = node[q].term
  BY <1>1, NodeTyped
<1>3. h \in Seq(Entries) /\ u \in Nat /\ t <= u
  BY <1>1, <1>2, NodeTypedNext DEF TermsRise
<1>4. k <= Len(g) /\ Shares(g, g, k) /\ Len(g) \in Nat
  BY <1>1, <1>2, SettledWithin
<1>5. SUFFICES Shares(h, g, k)
  <2>1. k \in 0 .. k
    OBVIOUS
  <2>2. Settled(h, k, t, L, K)
    BY <1>1, <1>2, <1>3, <1>5, <2>1, SettledShared
  <2> QED BY <1>2, <1>3, <2>2, SettledGrows
<1>6. CASE h = g
  BY <1>4, <1>6
<1>7. CASE Lengthened(q)
  <2>1. PICK e \in Entries : h = Append(g, e)
    BY <1>2, <1>7 DEF Lengthened
  <2>2. Len(h) = Len(g) + 1 /\ \A j \in 1 .. Len(g) : h[j] = g[j]
    BY <2>1, AppendProperties
  <2> QED BY <1>4, <2>2 DEF Shares
<1>8. CASE Overwritten(q) /\ k # 0
  <2>1. PICK v \in Terms : /\ elected[v] # {} /\ v >= u
                           /\ Shares(h, L[v], Len(h)) /\ ~Shares(g, L[v], Len(h))
    BY <1>1, <1>2, <1>8 DEF Overwritten
  <2>2. PICK s \in Terms, i \in Nat :
           s <= t /\ k <= i /\ Chosen(s, i, L, K) /\ Shares(g, L[s], k)
    BY <1>2, <1>8 DEF Settled
  <2>3. s <= v
    BY <1>2, <1>3, <2>1, <2>2, TermsAreNumbers
  <2>4. Shares(L[v], L[s], i)
    BY <1>1, <2>1, <2>2, <2>3, ChosenShared
  <2>5. Len(L[v]) \in Nat /\ Len(L[s]) \in Nat /\ Len(h) \in Nat
    BY <1>1, <1>3, LogTyped
  <2>6. Shares(g, L[v], k)
    BY <1>4, <2>2, <2>4, <2>5 DEF Shares
  <2>7. Shares(h, L[v], k)
    BY <1>4, <2>1, <2>5, <2>6, KeepsShared
  <2> QED BY <1>4, <2>5, <2>6, <2>7 DEF Shares
<1>9. CASE k = 0
  BY <1>3, <1>4, <1>9 DEF Shares
<1> QED BY <1>1, <1>2, <1>6, <1>7, <1>8, <1>9 DEF LogMoves

\* What a follower takes is settled as far as its leader said.
LEMMA SettledTaken ==
    ASSUME NEW B, NEW L, NEW K, NEW D, NEW M, NEW J, GhostStep(B, L, K, D, M, J),
           NEW m \in InFlight, m.op = "append", TookEntries(m), OfficeSent(m, L, K),
           NEW k, k = Min({m.commit, m.prev + Len(m.entries)}),
           NEW h, h = node'[m.to].log, NEW u, u = node'[m.to].term
    PROVE  Settled(h, k, u, M, J)'
<1>1. /\ L \in [Terms -> Seq(Entries)] /\ RaftInv /\ RaftInv' /\ LogsAgree(L) /\ LogsShaped(L)
  BY DEF GhostStep, Acks
<1>2. m \in Requests /\ m \in AppendRequests /\ m.to \in Nodes
  BY <1>1, InFlightIs, RequestShapes DEF RaftInv
<1>3. PICK p \in Nodes : p = m.to
  BY <1>2
<1>4. PICK N \in Nat, c \in Nat : N = m.prev + Len(m.entries) /\ c = m.commit
  BY <1>2 DEF AppendRequests
<1>5. k \in Nat /\ k <= N /\ k <= c
  <2>1. {c, N} \in SUBSET Nat /\ {c, N} # {}
    OBVIOUS
  <2>2. k \in {c, N} /\ \A x \in {c, N} : k <= x
    BY <1>4, <2>1, MinIn
  <2> QED BY <2>2
<1>6. PICK t \in Terms : /\ t = m.term /\ elected[t] # {} /\ Carried(L[t], m)
                         /\ Settled(L[t], c, t, L, K)
  BY <1>4 DEF OfficeSent
<1>7. /\ L[t] \in Seq(Entries) /\ Agrees(L[t], L) /\ node[p].log \in Seq(Entries)
      /\ Agrees(node[p].log, L) /\ h \in Seq(Entries)
  BY <1>1, <1>3, <1>6, NodeTyped, NodeTypedNext DEF LogsAgree, LogsShaped
<1>8. Shares(h, L[t], N)
  BY <1>2, <1>3, <1>4, <1>6, <1>7, MergedShares DEF TookEntries
<1>9. Shares(h, L[t], k)
  <2>1. Len(h) \in Nat /\ Len(L[t]) \in Nat /\ k \in 0 .. N
    BY <1>5, <1>7
  <2> QED BY <1>8, <2>1, SharesLess
<1>10. Settled(h, k, t, L, K)
  <2>1. k \in 0 .. c
    BY <1>5
  <2> QED BY <1>1, <1>6, <1>7, <1>9, <2>1, SettledShared
<1>11. u = t /\ t \in Nat
  BY <1>6, TermsAreNumbers DEF TookEntries
<1> QED BY <1>5, <1>10, <1>11, SettledGrows

LEMMA SettledMarksStep ==
    ASSUME NEW B, NEW L, NEW K, NEW D, NEW M, NEW J, GhostStep(B, L, K, D, M, J), MarkMoves,
           SettledMarks(L, K), SettledRequests(L, K)
    PROVE  SettledMarks(M, J)'
<1>1. SUFFICES ASSUME NEW q \in Nodes
               PROVE  Settled(node[q].log, node[q].commit, node[q].term, M, J)'
  BY DEF SettledMarks
<1>2. PICK h, k, u : h = node'[q].log /\ k = node'[q].commit /\ u = node'[q].term
  OBVIOUS
<1>3. Settled(h, k, u, M, J)'
  <2>1. RaftInv /\ RaftInv'
    BY DEF GhostStep
  <2>2. CASE k = 0
    BY <2>2 DEF Settled
  <2>3. CASE k = node[q].commit
    <3>1. k \in Nat
      BY <2>1, <2>3, NodeTyped DEF NodeRecords
    <3> QED BY <1>2, <2>3, <3>1, SettledStays DEF SettledMarks
  <2>4. CASE CountsUpTo(q, k)
    <3>1. k \in Nat /\ k \in 1 .. Len(node[q].log) /\ h = node[q].log /\ u = node[q].term
      <4>1. node'[q] \in NodeRecords
        BY <2>1, NodeTypedNext
      <4>2. k \in Nat
        BY <1>2, <4>1 DEF NodeRecords
      <4> QED BY <1>2, <2>4, <4>2 DEF CountsUpTo
    <3>2. PICK t \in Terms : t = u /\ M[t] = h /\ Chosen(t, k, M, J)'
      BY <2>4, <3>1, CountedChosen
    <3>3. Shares(h, M[t], k) /\ k <= k /\ t <= u
      <4>1. h \in Seq(Entries) /\ t \in Nat
        BY <2>1, <3>1, NodeTyped, TermsAreNumbers
      <4> QED BY <3>1, <3>2, <4>1 DEF Shares
    <3> QED BY <3>1, <3>2, <3>3 DEF Settled
  <2>5. ASSUME NEW m \in InFlight, m.op = "append", m.to = q, TookEntries(m),
               k = Min({m.commit, m.prev + Len(m.entries)})
        PROVE  Settled(h, k, u, M, J)'
    BY <1>2, <2>5, SettledTaken DEF SettledRequests
  <2> QED BY <1>2, <2>2, <2>3, <2>4, <2>5 DEF MarkMoves
<1> QED BY <1>2, <1>3 DEF Settled

LEMMA CarriedGrows ==
    ASSUME NEW L \in [Terms -> Seq(Entries)], NEW M \in [Terms -> Seq(Entries)], Extends(L, M),
           NEW t \in Terms, elected[t] # {}, NEW m \in AppendRequests, Carried(L[t], m)
    PROVE  Carried(M[t], m)
<1>1. Len(L[t]) \in Nat /\ Len(M[t]) \in Nat
  BY LogTyped
<1>2. Len(L[t]) <= Len(M[t]) /\ \A j \in 1 .. Len(L[t]) : M[t][j] = L[t][j]
  BY Extended
<1>3. PICK b \in Nat, d \in Nat : b = m.prev /\ d = Len(m.entries)
  BY DEF AppendRequests
<1>4. /\ b + d <= Len(L[t]) /\ (b > 0 => L[t][b].term = m.prevTerm)
      /\ \A j \in 1 .. d : L[t][b + j] = m.entries[j]
  BY <1>3 DEF Carried
<1>5. b + d <= Len(M[t]) /\ (b > 0 => b \in 1 .. Len(L[t]))
  BY <1>1, <1>2, <1>4
<1>6. b > 0 => M[t][b].term = m.prevTerm
  BY <1>2, <1>4, <1>5
<1>7. ASSUME NEW j \in 1 .. d PROVE M[t][b + j] = m.entries[j]
  <2>1. b + j \in 1 .. Len(L[t])
    BY <1>1, <1>4
  <2> QED BY <1>2, <1>4, <2>1
<1> QED BY <1>3, <1>5, <1>6, <1>7 DEF Carried

LEMMA OfficeSentStays ==
    ASSUME NEW B, NEW L, NEW K, NEW D, NEW M, NEW J, GhostStep(B, L, K, D, M, J),
           NEW m \in AppendRequests, OfficeSent(m, L, K)
    PROVE  OfficeSent(m, M, J)'
<1>1. /\ L \in [Terms -> Seq(Entries)] /\ M \in [Terms -> Seq(Entries)] /\ Extends(L, M)
  BY DEF GhostStep
<1>2. PICK t \in Terms, c \in Nat :
         /\ m.op = "append" /\ t = m.term /\ c = m.commit /\ elected[t] # {}
         /\ Carried(L[t], m) /\ Settled(L[t], c, t, L, K)
  BY DEF OfficeSent, AppendRequests
<1>3. elected'[t] # {} /\ Carried(M[t], m)
  BY <1>1, <1>2, Extended, CarriedGrows
<1>4. /\ L[t] \in Seq(Entries) /\ M[t] \in Seq(Entries) /\ Len(L[t]) \in Nat /\ Len(M[t]) \in Nat
  BY <1>1, LogTyped
<1>5. Shares(M[t], L[t], c)
  <2>1. c <= Len(L[t])
    BY <1>1, <1>2, <1>4, SettledWithin
  <2>2. Len(L[t]) <= Len(M[t]) /\ \A j \in 1 .. Len(L[t]) : M[t][j] = L[t][j]
    BY <1>1, <1>2, Extended
  <2> QED BY <1>4, <2>1, <2>2 DEF Shares
<1>6. Settled(M[t], c, t, L, K)
  <2>1. c \in 0 .. c
    OBVIOUS
  <2> QED BY <1>1, <1>2, <1>4, <1>5, <2>1, SettledShared
<1>7. PICK g : g = M[t]
  OBVIOUS
<1>8. Settled(g, c, t, M, J)'
  BY <1>2, <1>6, <1>7, TermsAreNumbers, SettledGrows
<1> QED BY <1>2, <1>3, <1>7, <1>8 DEF OfficeSent

LEMMA SettledRequestsStep ==
    ASSUME NEW B, NEW L, NEW K, NEW D, NEW M, NEW J, GhostStep(B, L, K, D, M, J), SendsInOffice,
           SettledMarks(L, K), SettledRequests(L, K)
    PROVE  SettledRequests(M, J)'
<1>1. SUFFICES ASSUME NEW m \in InFlight', m.op = "append" PROVE OfficeSent(m, M, J)'
  BY DEF SettledRequests, OfficeSent
<1>2. RaftInv /\ LogsAgree(L) /\ NewRequests /\ L \in [Terms -> Seq(Entries)]
  BY DEF GhostStep, Moves
<1>3. m \in AppendRequests
  <2>1. TypeOK'
    BY DEF GhostStep, RaftInv
  <2>2. m \in Requests
    <3>1. CASE m \in late'
      BY <2>1, <3>1 DEF TypeOK
    <3>2. CASE m \notin late'
      <4>1. PICK x \in Nodes \X Nodes :
               call'[x[1]][x[2]].st = "asked" /\ m = call'[x[1]][x[2]].req
        BY <3>2 DEF InFlight
      <4>2. PICK n \in Nodes, p \in Nodes : n = x[1] /\ p = x[2]
        OBVIOUS
      <4>3. call'[n][p] \in Calls
        BY <2>1 DEF TypeOK
      <4> QED BY <4>1, <4>2, <4>3, CallShapes
    <3> QED BY <3>1, <3>2
  <2> QED BY <1>1, <2>2, RequestShapes
<1>4. CASE m \in InFlight
  BY <1>3, <1>4, OfficeSentStays DEF SettledRequests
<1>5. ASSUME NEW n \in Nodes, NEW p \in Nodes, Asks(n, p, m), Sends(n, p)
      PROVE  OfficeSent(m, M, J)'
  <2>1. /\ doing[n] = "lead"
        /\ \E k \in 1 .. Len(node[n].log) + 1 : m = AppendRequest(n, p, k)
    BY <1>1, <1>5 DEF Asks
  <2>2. node[n].role = "leader" /\ node[n].term = mine[n]
    BY <1>5, <2>1 DEF SendsInOffice, InOffice
  <2>3. PICK t \in Terms : t = node[n].term /\ elected[t] # {}
    BY <1>2, <2>2, LeaderLed DEF RaftInv
  <2>4. node[n].log = L[t]
    BY <1>2, <2>2, <2>3 DEF LogsAgree
  <2>5. m.term = t /\ Carried(L[t], m)
    BY <1>2, <2>1, <2>2, <2>3, <2>4, AppendRequestIs
  <2>6. m.commit = node[n].commit
    BY <2>1 DEF AppendRequest
  <2>7. Settled(L[t], m.commit, t, L, K)
    BY <2>3, <2>4, <2>6 DEF SettledMarks
  <2>8. OfficeSent(m, L, K)
    BY <2>3, <2>5, <2>7 DEF OfficeSent
  <2> QED BY <1>3, <2>8, OfficeSentStays
<1> QED BY <1>2, <1>4, <1>5, InFlightMoves

LEMMA SettledAppliedStep ==
    ASSUME NEW B, NEW L, NEW K, NEW D, NEW M, NEW J, GhostStep(B, L, K, D, M, J),
           AppliedToMark, SettledApplied(L, K), SettledMarks(M, J)'
    PROVE  SettledApplied(M, J)'
<1>1. SUFFICES ASSUME NEW c \in committed'
               PROVE  \E s \in Terms, i \in Nat :
                         c.index \in 1 .. i /\ Chosen(s, i, M, J)' /\ c.entry = M[s][c.index]
  BY DEF SettledApplied
<1>2. CASE c \in committed
  <2>1. PICK s \in Terms, i \in Nat :
           c.index \in 1 .. i /\ Chosen(s, i, L, K) /\ c.entry = L[s][c.index]
    BY <1>2 DEF SettledApplied
  <2>2. Chosen(s, i, M, J)' /\ \A j \in 1 .. i : M[s][j] = L[s][j]
    BY <2>1, ChosenStays
  <2> QED BY <2>1, <2>2
<1>3. ASSUME NEW q \in Nodes, c.index \in 1 .. node'[q].commit, c.entry = node'[q].log[c.index]
      PROVE  \E s \in Terms, i \in Nat :
                c.index \in 1 .. i /\ Chosen(s, i, M, J)' /\ c.entry = M[s][c.index]
  <2>1. PICK h, k, u : h = node'[q].log /\ k = node'[q].commit /\ u = node'[q].term
    OBVIOUS
  <2>2. k \in Nat /\ k # 0
    <3>1. node'[q] \in NodeRecords
      BY NodeTypedNext DEF GhostStep
    <3>2. k \in Nat
      BY <2>1, <3>1 DEF NodeRecords
    <3> QED BY <1>3, <2>1, <3>2
  <2>3. PICK s \in Terms, i \in Nat :
           k <= i /\ Chosen(s, i, M, J)' /\ Shares(h, M[s], k)
    BY <2>1, <2>2 DEF SettledMarks, Settled
  <2>4. c.index \in 1 .. k /\ c.entry = h[c.index] /\ c.index \in 1 .. i
    BY <1>3, <2>1, <2>2, <2>3
  <2>5. c.entry = M[s][c.index]
    BY <2>3, <2>4 DEF Shares
  <2> QED BY <2>3, <2>4, <2>5
<1> QED BY <1>1, <1>2, <1>3 DEF AppliedToMark

LEMMA SettledStep ==
    ASSUME SettledInv, RaftStep, TermsRise, Moves, MarkStep
    PROVE  SettledInv'
<1>1. RaftInv /\ RaftInv' /\ SendInv /\ SendInv'
  BY RaftStepHolds, SendInvStep DEF SettledInv
<1>2. PICK B \in SUBSET (Nodes \X Nat \X Nodes), L \in [Terms -> Seq(Entries)],
           K \in SUBSET (Nodes \X Terms \X Nat) :
              /\ Ballots(B) /\ LogsAgree(L) /\ Acks(B, L, K)
              /\ SettledMarks(L, K) /\ SettledRequests(L, K) /\ SettledApplied(L, K)
  BY DEF SettledInv
<1>3. PICK D \in SUBSET (Nodes \X Nat \X Nodes), M \in [Terms -> Seq(Entries)],
           J \in SUBSET (Nodes \X Terms \X Nat) : GhostStep(B, L, K, D, M, J)
  BY <1>1, <1>2, GhostStepIs
<1>4. Ballots(D)' /\ LogsAgree(M)' /\ Acks(D, M, J)'
  BY <1>3, AcksStep DEF GhostStep
<1>5. SettledMarks(M, J)' /\ SettledRequests(M, J)'
  BY <1>2, <1>3, SettledMarksStep, SettledRequestsStep DEF MarkStep
<1>6. SettledApplied(M, J)'
  BY <1>2, <1>3, <1>5, SettledAppliedStep DEF MarkStep
<1> QED BY <1>1, <1>4, <1>5, <1>6 DEF SettledInv

LEMMA SettledInit ==
    ASSUME Init
    PROVE  SettledInv
<1>1. CommitInv
  BY CommitInit
<1>2. PICK B \in SUBSET (Nodes \X Nat \X Nodes), L \in [Terms -> Seq(Entries)],
           K \in SUBSET (Nodes \X Terms \X Nat) : Ballots(B) /\ LogsAgree(L) /\ Acks(B, L, K)
  BY <1>1 DEF CommitInv
<1>3. committed = {} /\ \A n \in Nodes : node[n].commit = 0
  BY DEF Init, Boot
<1>4. ASSUME NEW m \in InFlight PROVE FALSE
  <2>1. late = {} /\ \A n, p \in Nodes : call[n][p].st # "asked"
    BY ConstantCalls DEF Init, NoCalls
  <2>2. m \in late \/ \E n, p \in Nodes : call[n][p].st = "asked" /\ m = call[n][p].req
    BY <1>1, InFlightIs DEF CommitInv, RaftInv
  <2> QED BY <2>1, <2>2
<1>5. SettledMarks(L, K) /\ SettledRequests(L, K) /\ SettledApplied(L, K)
  BY <1>3, <1>4 DEF SettledMarks, Settled, SettledRequests, SettledApplied
<1> QED BY <1>1, <1>2, <1>5 DEF CommitInv, SettledInv

LEMMA SettledSafe ==
    ASSUME SettledInv
    PROVE  StateMachineSafety
<1>1. PICK L \in [Terms -> Seq(Entries)], K \in SUBSET (Nodes \X Terms \X Nat) :
         RaftInv /\ Safe(L, K) /\ SettledApplied(L, K)
  BY DEF SettledInv, Acks
<1>2. ASSUME NEW s \in Terms, NEW t \in Terms, NEW i \in Nat, NEW j \in Nat, NEW k,
             Chosen(s, i, L, K), Chosen(t, j, L, K), k \in 1 .. i, k \in 1 .. j, s <= t
      PROVE  L[s][k] = L[t][k]
  <2>1. elected[t] # {}
    BY <1>2 DEF Chosen, Own
  <2>2. Shares(L[t], L[s], i)
    BY <1>1, <1>2, <2>1, ChosenShared
  <2> QED BY <1>2, <2>2 DEF Shares
<1>3. SUFFICES ASSUME NEW c \in committed, NEW d \in committed, c.index = d.index
               PROVE  c.entry = d.entry
  BY DEF StateMachineSafety
<1>4. PICK s \in Terms, i \in Nat :
         c.index \in 1 .. i /\ Chosen(s, i, L, K) /\ c.entry = L[s][c.index]
  BY <1>1 DEF SettledApplied
<1>5. PICK t \in Terms, j \in Nat :
         d.index \in 1 .. j /\ Chosen(t, j, L, K) /\ d.entry = L[t][d.index]
  BY <1>1 DEF SettledApplied
<1>6. s <= t \/ t <= s
  BY TermsAreNumbers
<1> QED BY <1>2, <1>3, <1>4, <1>5, <1>6

-----------------------------------------------------------------------------
\* What each action does to the marks and to requests.
LEMMA PlainMarks ==
    ASSUME committed' = committed, \A q \in Nodes : node'[q].commit \in {0, node[q].commit}
    PROVE  MarkMoves /\ AppliedToMark
BY DEF MarkMoves, AppliedToMark

LEMMA NothingSent ==
    ASSUME \A n, p \in Nodes : call'[n][p] = call[n][p] \/ call'[n][p].st # "asked"
    PROVE  SendsInOffice
BY DEF SendsInOffice, Sends

LEMMA OneCallSent ==
    ASSUME RaftInv, NEW n \in Nodes, NEW p \in Nodes, NEW x, call' = [call EXCEPT ![n][p] = x],
           x.st # "asked" \/ doing[n] # "lead" \/ InOffice(n)
    PROVE  SendsInOffice
<1>1. call \in [Nodes -> [Nodes -> Calls]]
  BY DEF RaftInv, TypeOK
<1>2. \A q, r \in Nodes : call'[q][r] = call[q][r] \/ (q = n /\ r = p /\ call'[q][r] = x)
  BY <1>1
<1> QED BY <1>2 DEF SendsInOffice, Sends

LEMMA BackMarks ==
    ASSUME RaftInv, NEW n \in Nodes, BackToFollow(n), committed' = committed,
           \A q \in Nodes : node'[q].commit \in {0, node[q].commit}
    PROVE  MarkStep
<1>1. \A q, p \in Nodes : call'[q][p] = call[q][p] \/ call'[q][p] = Over
  BY BackToFollowIs DEF RaftInv, Still
<1>2. SendsInOffice
  BY <1>1, ConstantCalls, NothingSent
<1> QED BY <1>2, PlainMarks DEF MarkStep

LEMMA DeposedMarks ==
    ASSUME RaftInv, NEW n \in Nodes, NEW t \in Nat,
           node' = node \/ node' = [node EXCEPT ![n] = BecomeFollower(@, t)]
    PROVE  \A q \in Nodes : node'[q].commit \in {0, node[q].commit}
<1>1. CASE node' = node
  BY <1>1
<1>2. CASE node' = [node EXCEPT ![n] = BecomeFollower(@, t)]
  <2>0. node[n] \in NodeRecords
    BY NodeTyped
  <2>1. PICK s \in NodeRecords : s = BecomeFollower(node[n], t) /\ s.commit = node[n].commit
    BY <2>0, FollowerIs
  <2>2. node' = [node EXCEPT ![n] = s]
    BY <1>2, <2>1, Zenon
  <2>3. node'[n] = s /\ \A q \in Nodes \ {n} : node'[q] = node[q]
    BY <2>2, NodeSet DEF RaftInv
  <2> QED BY <2>1, <2>3
<1> QED BY <1>1, <1>2

LEMMA CampaignMarks ==
    ASSUME RaftInv, NEW n \in Nodes, Campaign(n)
    PROVE  MarkStep
<1>1. /\ \A q \in Nodes : node'[q].commit \in {0, node[q].commit}
      /\ \A q, p \in Nodes : call'[q][p] \in {call[q][p], Over, Born}
  BY CampaignIs DEF RaftInv
<1>2. committed' = committed
  BY DEF Campaign, histVars
<1>3. SendsInOffice
  BY <1>1, ConstantCalls, NothingSent
<1> QED BY <1>1, <1>2, <1>3, PlainMarks DEF MarkStep

LEMMA CampaignEndsMarks ==
    ASSUME RaftInv, NEW n \in Nodes, CampaignEnds(n)
    PROVE  MarkStep
<1>1. CASE ~Campaign(n)
  <2>1. node' = node /\ BackToFollow(n) /\ committed' = committed
    BY <1>1 DEF CampaignEnds, histVars
  <2> QED BY <2>1, BackMarks
<1> QED BY <1>1, CampaignMarks

LEMMA BecomeLeaderMarks ==
    ASSUME RaftInv, NEW n \in Nodes, BecomeLeader(n)
    PROVE  MarkStep
<1>1. /\ \A q \in Nodes : node'[q].commit \in {0, node[q].commit}
      /\ \A q, p \in Nodes : call'[q][p] \in {call[q][p], Idle, Over}
  BY BecomeLeaderIs DEF RaftInv, Still
<1>2. committed' = committed
  BY DEF BecomeLeader
<1>3. SendsInOffice
  BY <1>1, ConstantCalls, NothingSent
<1> QED BY <1>1, <1>2, <1>3, PlainMarks DEF MarkStep

LEMMA LeadEndsMarks ==
    ASSUME RaftInv, NEW n \in Nodes, LeadEnds(n)
    PROVE  MarkStep
<1>1. node' = node /\ BackToFollow(n) /\ committed' = committed
  BY DEF LeadEnds, histVars
<1> QED BY <1>1, BackMarks

LEMMA ProposeMarks ==
    ASSUME RaftInv, NEW n \in Nodes, NEW c \in Commands, HandlePropose(n, c)
    PROVE  MarkStep
<1>1. \A q \in Nodes : node'[q].commit \in {0, node[q].commit}
  BY ProposedIs DEF RaftInv
<1>2. call' = call /\ committed' = committed
  BY DEF HandlePropose, histVars
<1> QED BY <1>1, <1>2, NothingSent, PlainMarks DEF MarkStep

LEMMA RestartMarks ==
    ASSUME RaftInv, NEW n \in Nodes, NEW d, Restart(n, d)
    PROVE  MarkStep
<1>1. node' = [node EXCEPT ![n] = Boot(d)] /\ BackToFollow(n) /\ committed' = committed
  BY DEF Restart, histVars
<1>2. node'[n] = Boot(d) /\ \A q \in Nodes \ {n} : node'[q] = node[q]
  BY <1>1 DEF RaftInv, TypeOK
<1>3. Boot(d).commit = 0
  BY DEF Boot
<1> QED BY <1>1, <1>2, <1>3, BackMarks

LEMMA SolicitMarks ==
    ASSUME RaftInv, NEW n \in Nodes, NEW p \in Peers(n), Solicit(n, p)
    PROVE  MarkStep
<1>1. PICK x : call' = [call EXCEPT ![n][p] = x]
  BY DEF Solicit
<1>2. doing[n] # "lead" /\ node' = node /\ committed' = committed /\ p \in Nodes
  BY DEF Solicit, histVars, Peers
<1> QED BY <1>1, <1>2, OneCallSent, PlainMarks DEF MarkStep

LEMMA SolicitRepliedMarks ==
    ASSUME RaftInv, NEW n \in Nodes, NEW p \in Peers(n), SolicitReplied(n, p)
    PROVE  MarkStep
<1>1. PICK r : r = call[n][p].reply
  OBVIOUS
<1>2. /\ call[n][p].st = "answered" /\ call' = [call EXCEPT ![n][p] = Over] /\ p \in Nodes
      /\ committed' = committed
      /\ node' = node \/ node' = [node EXCEPT ![n] = BecomeFollower(@, r.term)]
  BY <1>1 DEF SolicitReplied, histVars, Peers
<1>3. r.term \in Nat
  <2>1. call[n][p] \in Calls
    BY <1>2 DEF RaftInv, TypeOK
  <2> QED BY <1>1, <1>2, <2>1, CallShapes DEF Replies
<1>4. \A q \in Nodes : node'[q].commit \in {0, node[q].commit}
  BY <1>2, <1>3, DeposedMarks
<1> QED BY <1>2, <1>4, ConstantCalls, OneCallSent, PlainMarks DEF MarkStep

LEMMA PushMarks ==
    ASSUME RaftInv, NEW n \in Nodes, NEW p \in Peers(n), Push(n, p), ~Stray(n, p)
    PROVE  MarkStep
<1>1. PICK x : call' = [call EXCEPT ![n][p] = x]
  BY DEF Push
<1>2. node' = node /\ committed' = committed /\ p \in Nodes
  BY DEF Push, histVars, Peers
<1>3. call'[n][p] = x
  BY <1>1, <1>2 DEF RaftInv, TypeOK
<1>4. x = Over \/ InOffice(n)
  BY <1>3 DEF Stray
<1> QED BY <1>1, <1>2, <1>4, ConstantCalls, OneCallSent, PlainMarks DEF MarkStep

LEMMA CallFailsMarks ==
    ASSUME RaftInv, NEW n \in Nodes, NEW p \in Peers(n), CallFails(n, p)
    PROVE  MarkStep
<1>1. PICK x : x \in {Idle, Over} /\ call' = [call EXCEPT ![n][p] = x]
  BY DEF CallFails
<1>2. node' = node /\ committed' = committed /\ p \in Nodes
  BY DEF CallFails, histVars, Peers
<1> QED BY <1>1, <1>2, ConstantCalls, OneCallSent, PlainMarks DEF MarkStep

\* A leader counts a mark and applies up to it.
LEMMA PushAcceptedMarks ==
    ASSUME RaftInv, NEW n \in Nodes, NEW p \in Peers(n), PushAccepted(n, p), InOffice(n)
    PROVE  MarkStep
<1>1. /\ \A q \in Nodes \ {n} : node'[q] = node[q]
      /\ node'[n].commit = node[n].commit \/ CountsUpTo(n, node'[n].commit)
  BY PushAcceptedCounts
<1>2. MarkMoves
  BY <1>1 DEF MarkMoves
<1>3. AppliedToMark
  <2>1. Apply(n, node'[n].commit) /\ node[n].commit \in Nat
    BY NodeTyped DEF PushAccepted, NodeRecords
  <2>2. ASSUME NEW c \in committed', c \notin committed
        PROVE  c.index \in 1 .. node'[n].commit /\ c.entry = node'[n].log[c.index]
    <3>1. PICK i \in node[n].commit + 1 .. node'[n].commit :
             c.index = i /\ c.entry = node'[n].log[i]
      BY <2>1, <2>2 DEF Apply
    <3> QED BY <2>1, <3>1
  <2> QED BY <2>2 DEF AppliedToMark
<1>4. SendsInOffice
  <2>1. p \in Nodes /\ call' = [call EXCEPT ![n][p] = Idle]
    BY DEF PushAccepted, Peers
  <2> QED BY <2>1, OneCallSent
<1> QED BY <1>2, <1>3, <1>4 DEF MarkStep

LEMMA PushRepliedMarks ==
    ASSUME RaftInv, NEW n \in Nodes, NEW p \in Peers(n), PushReplied(n, p)
    PROVE  MarkStep
<1>1. PICK r : r = call[n][p].reply
  OBVIOUS
<1>2. call[n][p].st = "answered" /\ p \in Nodes
  BY DEF PushReplied, Peers
<1>3. r.term \in Nat
  <2>1. call[n][p] \in Calls
    BY <1>2 DEF RaftInv, TypeOK
  <2> QED BY <1>1, <1>2, <2>1, CallShapes DEF Replies
<1>4. CASE /\ call' = [call EXCEPT ![n][p] = Over] /\ committed' = committed
           /\ node' = node \/ node' = [node EXCEPT ![n] = BecomeFollower(@, r.term)]
  <2>1. \A q \in Nodes : node'[q].commit \in {0, node[q].commit}
    BY <1>3, <1>4, DeposedMarks
  <2> QED BY <1>2, <1>4, <2>1, ConstantCalls, OneCallSent, PlainMarks DEF MarkStep
<1>5. CASE InOffice(n) /\ PushAccepted(n, p)
  BY <1>5, PushAcceptedMarks
<1>6. CASE InOffice(n) /\ PushRefused(n, p)
  <2>1. PICK x : call' = [call EXCEPT ![n][p] = x]
    BY <1>6 DEF PushRefused
  <2>2. node' = node /\ committed' = committed
    BY <1>6 DEF PushRefused
  <2> QED BY <1>2, <1>6, <2>1, <2>2, OneCallSent, PlainMarks DEF MarkStep
<1> QED BY <1>1, <1>4, <1>5, <1>6 DEF PushReplied

LEMMA HandlerSends ==
    ASSUME RaftInv, NEW m \in Requests, NEW r, Reply(m, r)
    PROVE  SendsInOffice
<1>1. \A q, p \in Nodes : call'[q][p] = call[q][p] \/ call'[q][p].st = "answered"
  BY ReplyCalls DEF Answers
<1> QED BY <1>1, NothingSent

LEMMA HandleRequestVoteMarks ==
    ASSUME RaftInv, NEW m \in InFlight, HandleRequestVote(m)
    PROVE  MarkStep
<1>1. m \in Requests /\ committed' = committed /\ \E r : Reply(m, r)
  BY InFlightIs DEF RaftInv, HandleRequestVote, histVars
<1>2. \A q \in Nodes : node'[q].commit \in {0, node[q].commit}
  BY HandleRequestVoteStep
<1>3. SendsInOffice
  BY <1>1, HandlerSends
<1> QED BY <1>1, <1>2, <1>3, PlainMarks DEF MarkStep

LEMMA HandleAppendEntriesMarks ==
    ASSUME RaftInv, NEW m \in InFlight, HandleAppendEntries(m)
    PROVE  MarkStep
<1>1. m \in Requests /\ m.to \in Nodes /\ m.op = "append" /\ \E r : Reply(m, r)
  BY InFlightIs, RequestShapes DEF RaftInv, HandleAppendEntries
<1>2. SendsInOffice
  BY <1>1, HandlerSends
<1>3. /\ \A q \in Nodes \ {m.to} : node'[q] = node[q]
      /\ TookEntries(m) \/ TookNothing(m)
  BY HandleAppendEntriesStep
<1>4. MarkMoves
  BY <1>1, <1>3 DEF MarkMoves, TookEntries, TookNothing
<1>5. AppliedToMark
  <2>1. /\ committed' = committed \/ Apply(m.to, node'[m.to].commit)
        /\ node[m.to].commit \in Nat
    BY <1>1, NodeTyped DEF HandleAppendEntries, NodeRecords
  <2>2. ASSUME NEW c \in committed', c \notin committed
        PROVE  c.index \in 1 .. node'[m.to].commit /\ c.entry = node'[m.to].log[c.index]
    <3>1. PICK i \in node[m.to].commit + 1 .. node'[m.to].commit :
             c.index = i /\ c.entry = node'[m.to].log[i]
      BY <2>1, <2>2 DEF Apply
    <3> QED BY <2>1, <3>1
  <2> QED BY <1>1, <2>2 DEF AppliedToMark
<1> QED BY <1>2, <1>4, <1>5 DEF MarkStep

LEMMA NextMarks ==
    ASSUME RaftInv, [Next]_vars, ~Strays \/ UNCHANGED vars
    PROVE  MarkStep
<1>1. CASE UNCHANGED vars
  <2>1. node' = node /\ call' = call /\ committed' = committed
    BY <1>1 DEF vars, histVars
  <2> QED BY <2>1, NothingSent, PlainMarks DEF MarkStep
<1>2. CASE Next /\ ~Strays
  <2>1. ASSUME NEW n \in Nodes,
               \/ FollowTimesOut(n) \/ BecomeLeader(n) \/ CampaignEnds(n) \/ LeadEnds(n)
               \/ \E c \in Commands : HandlePropose(n, c)
               \/ \E i \in DOMAIN disk[n] : Restart(n, disk[n][i])
        PROVE  MarkStep
    BY <2>1, CampaignMarks, BecomeLeaderMarks, CampaignEndsMarks, LeadEndsMarks, ProposeMarks,
       RestartMarks DEF FollowTimesOut
  <2>2. ASSUME NEW n \in Nodes, NEW p \in Peers(n),
               \/ Solicit(n, p) \/ SolicitReplied(n, p)
               \/ Push(n, p) \/ PushReplied(n, p) \/ CallFails(n, p)
        PROVE  MarkStep
    BY <1>2, <2>2, SolicitMarks, SolicitRepliedMarks, PushMarks, PushRepliedMarks,
       CallFailsMarks DEF Strays
  <2>3. ASSUME NEW m \in InFlight, HandleRequestVote(m) \/ HandleAppendEntries(m)
        PROVE  MarkStep
    BY <2>3, HandleRequestVoteMarks, HandleAppendEntriesMarks
  <2> QED BY <1>2, <2>1, <2>2, <2>3 DEF Next
<1> QED BY <1>1, <1>2

\* Any step but a stray one keeps the marks settled.
LEMMA SettledKept ==
    ASSUME SettledInv, [Next]_vars, ~Strays \/ UNCHANGED vars
    PROVE  SettledInv'
<1>1. RaftInv /\ SendInv
  BY DEF SettledInv
<1>2. RaftStep /\ TermsRise /\ Moves
  BY <1>1, NextMoves
<1>3. MarkStep
  BY <1>1, NextMarks
<1> QED BY <1>2, <1>3, SettledStep

\* Whatever the code does, two entries are only ever applied at one index after some
\* push task has sent a request while its node did not lead in the task's term
\* (_push, _handle_append_entries, _apply; checks.py, state machine safety).
THEOREM AppliedAlike == NotedSpec => Spec /\ [](~strayed => StateMachineSafety)
<1> DEFINE Inv == ~strayed => SettledInv
<1>1. Init /\ ~strayed => Inv
  BY SettledInit
<1>2. Inv /\ [NotedNext]_<<vars, strayed>> => Inv'
  <2>1. SUFFICES ASSUME Inv, [NotedNext]_<<vars, strayed>>, ~strayed' PROVE SettledInv'
    OBVIOUS
  <2>2. CASE UNCHANGED <<vars, strayed>>
    <3>1. SettledInv /\ UNCHANGED vars
      BY <2>1, <2>2
    <3> QED BY <3>1, SettledKept
  <2>3. CASE NotedNext
    BY <2>1, <2>3, SettledKept DEF NotedNext
  <2> QED BY <2>1, <2>2, <2>3
<1>3. Inv => (~strayed => StateMachineSafety)
  BY SettledSafe
<1>4. [NotedNext]_<<vars, strayed>> => [Next]_vars
  BY DEF NotedNext
<1> QED BY <1>1, <1>2, <1>3, <1>4, PTL DEF NotedSpec, Spec

=============================================================================
