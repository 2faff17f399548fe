------------------------------ MODULE RaftNode ------------------------------
(***************************************************************************)
(* The raft example, src/examples/raft/raft/node.py with its storage.py    *)
(* and wire.py: elections, log replication and what a peer remembers       *)
(* across restarts.                                                        *)
(*                                                                         *)
(* Handlers are synchronous, so one message is one step.  The run loop and *)
(* the calls it makes are tasks that suspend: a campaign and a leadership  *)
(* go on, with the term they began in, after a handler has changed the     *)
(* node under them, until they look at it again.  A call holds at most one *)
(* request or one answer; a caller that gives up leaves its request behind *)
(* and it may still land.  Election timeouts may fire at any time.         *)
(***************************************************************************)
EXTENDS Integers, Sequences, FiniteSets, FiniteSetsExt

CONSTANTS
    Nodes,
    Nobody,       \* voted_for is None
    Commands,     \* what clients propose
    Noop,         \* the empty command
    Elections,    \* bound: the elections called, as pairs <<node, term>>
    Bounds        \* bounds of the environment, any of which a behaviour may have:
                  \*   log     entries a leader's log may hold when a client proposes
                  \*   open    calls waiting at once, late requests apart
                  \*   faults  restarts, calls that fail and requests left behind

ASSUME RaftAssumption ==
    /\ IsFiniteSet(Nodes) /\ Nobody \notin Nodes /\ Noop \notin Commands
    /\ Elections \subseteq Nodes \X Nat
    /\ Bounds \subseteq [log : Nat, open : Nat, faults : Nat]

VARIABLES
    node,       \* what a process keeps in memory: _state (term, vote, log),
                \* role and commit_index
    disk,       \* saved records, oldest first: the durable one, then those
                \* a crash may still lose
    doing,      \* the coroutine run() is in: _follow, _campaign or _lead
    mine,       \* the local "term" of that campaign or leadership
    granted,    \* votes a campaign has counted
    nextIndex, matchIndex,
    call,       \* the solicit or push task of each node for each peer
    late,       \* requests in flight whose caller has given up
    env,        \* the bounds of this behaviour, less the faults it has had
    elected,    \* history: who became leader of each term
    committed   \* history: entries applied, with who applied them first and in which term

leaderVars == <<nextIndex, matchIndex>>
histVars   == <<elected, committed>>
vars == <<node, disk, doing, mine, granted, leaderVars, call, late, env, histVars>>

-----------------------------------------------------------------------------
\* Safeguards: the rules the code can switch off, as it ships them.

\* slip: a rule switched off.
Off == FALSE

reject_stale_term == TRUE
one_vote_per_term == TRUE
check_log_up_to_date == TRUE
persist_before_reply == TRUE
sync_before_vote == TRUE
sync_before_ack == TRUE
commit_own_term_only == TRUE
leader_noop == TRUE

-----------------------------------------------------------------------------
\* Helpers

Entry(t, c) == [term |-> t, command |-> c]
State(s)    == [term |-> s.term, vote |-> s.vote, log |-> s.log]
Boot(d)     == [term |-> d.term, vote |-> d.vote, log |-> d.log,
                role |-> "follower", commit |-> 0]
LastTerm(s) == IF s.log = <<>> THEN 0 ELSE s.log[Len(s.log)].term
Peers(n)    == Nodes \ {n}
Quorum      == Cardinality(Nodes) \div 2 + 1

Idle == [st |-> "idle"]
Born == [st |-> "born"]
Over == [st |-> "over"]
Asked(m)       == [st |-> "asked", req |-> m]
Answered(upTo, r) == [st |-> "answered", upTo |-> upTo, reply |-> r]
NoCalls        == [p \in Nodes |-> Over]

\* _persist: the record is saved, and flushed with all before it if asked to.
Saved(d, s, sync) ==
    IF ~persist_before_reply THEN d
    ELSE IF sync THEN <<State(s)>> ELSE Append(d, State(s))

Persist(n) == disk' = [disk EXCEPT ![n] = Saved(@, node'[n], TRUE)]

BecomeFollower(s, t) == [s EXCEPT !.term = t, !.vote = Nobody, !.role = "follower"]

\* The coroutine is left, and with it its locals; run() comes round to _follow.
\* next_index and match_index stay, but unread until _become_leader sets them.
BackToFollow(n) ==
    /\ doing' = [doing EXCEPT ![n] = "follow"]
    /\ mine' = [mine EXCEPT ![n] = 0]
    /\ granted' = [granted EXCEPT ![n] = 0]
    /\ nextIndex' = [nextIndex EXCEPT ![n] = [p \in Nodes |-> 1]]
    /\ matchIndex' = [matchIndex EXCEPT ![n] = [p \in Nodes |-> 0]]
    /\ call' = [call EXCEPT ![n] = NoCalls]

\* The tasks for these peers end; a request of theirs in flight may outlive them.
Outlives(n, ps) ==
    \E p \in ps : call[n][p].st = "asked" /\ late' = late \cup {call[n][p].req}
Abandon(n, ps) ==
    \/ UNCHANGED <<late, env>>
    \/ /\ env.faults > 0
       /\ env' = [env EXCEPT !.faults = @ - 1]
       /\ Outlives(n, ps)

\* The bound on calls that wait for a request to land or an answer to return.
MayCall ==
    Cardinality({x \in Nodes \X Nodes : call[x[1]][x[2]].st \in {"asked", "answered"}})
        < env.open

\* _apply: entries up to the commit mark reach the state machine.
Apply(n, to) ==
    committed' = committed \cup
        {[index |-> i, entry |-> node'[n].log[i], under |-> node'[n].term, by |-> n] :
           i \in {j \in node[n].commit + 1 .. to :
                    \A c \in committed : ~(c.index = j /\ c.entry = node'[n].log[j])}}

-----------------------------------------------------------------------------
\* Elections

\* _campaign up to its await, from _follow's timeout or after a lost election.
Campaign(n) ==
    /\ <<n, node[n].term + 1>> \in Elections
    /\ node' = [node EXCEPT ![n].role = "candidate", ![n].vote = n, ![n].term = @ + 1]
    /\ Persist(n)
    /\ doing' = [doing EXCEPT ![n] = "campaign"]
    /\ mine' = [mine EXCEPT ![n] = node[n].term + 1]
    /\ granted' = [granted EXCEPT ![n] = 1]
    /\ call' = [call EXCEPT ![n] = [p \in Nodes |-> IF p = n THEN Over ELSE Born]]
    /\ UNCHANGED <<leaderVars, histVars>>

FollowTimesOut(n) ==
    doing[n] = "follow" /\ Campaign(n) /\ UNCHANGED <<late, env>>

\* A solicit task's first step builds its request from the node as it is now.
Solicit(n, p) ==
    /\ doing[n] = "campaign" /\ call[n][p] = Born
    /\ MayCall
    /\ call' = [call EXCEPT ![n][p] =
                  Asked([op |-> "vote", from |-> n, to |-> p, term |-> mine[n],
                         index |-> Len(node[n].log), last |-> LastTerm(node[n])])]
    /\ UNCHANGED <<node, disk, doing, mine, granted, leaderVars, late, env, histVars>>

\* The rest of solicit once its call is answered.
SolicitReplied(n, p) ==
    /\ doing[n] = "campaign" /\ call[n][p].st = "answered"
    /\ LET r == call[n][p].reply
           stale == node[n].role # "candidate" \/ node[n].term # mine[n]
       IN IF r.term > node[n].term
          THEN /\ node' = [node EXCEPT ![n] = BecomeFollower(@, r.term)]
               /\ Persist(n)
               /\ UNCHANGED granted
          ELSE /\ granted' = IF ~stale /\ r.ok THEN [granted EXCEPT ![n] = @ + 1] ELSE granted
               /\ UNCHANGED <<node, disk>>
    /\ call' = [call EXCEPT ![n][p] = Over]
    /\ UNCHANGED <<doing, mine, leaderVars, late, env, histVars>>

\* The election is settled for us and nothing has deposed us meanwhile.
BecomeLeader(n) ==
    /\ doing[n] = "campaign" /\ granted[n] >= Quorum
    /\ node[n].role = "candidate" /\ node[n].term = mine[n]
    /\ node' = [node EXCEPT ![n].role = "leader",
                    ![n].log = IF leader_noop THEN Append(@, Entry(node[n].term, Noop)) ELSE @]
    /\ Persist(n)
    /\ nextIndex' = [nextIndex EXCEPT ![n] = [p \in Nodes |-> Len(node[n].log) + 1]]
    /\ matchIndex' = [matchIndex EXCEPT ![n] = [p \in Nodes |-> 0]]
    /\ elected' = [elected EXCEPT ![node[n].term] = @ \cup {n}]
    /\ doing' = [doing EXCEPT ![n] = "lead"]
    /\ call' = [call EXCEPT ![n] = [p \in Nodes |-> IF p = n THEN Over ELSE Idle]]
    /\ Abandon(n, Peers(n))
    /\ granted' = [granted EXCEPT ![n] = 0]
    /\ UNCHANGED <<mine, committed>>

\* The campaign times out or is settled against us; run() looks at the role.
CampaignEnds(n) ==
    /\ doing[n] = "campaign"
    /\ Abandon(n, Peers(n))
    /\ \/ node[n].role = "candidate" /\ Campaign(n)
       \/ /\ node[n].role = "follower"
          /\ BackToFollow(n)
          /\ UNCHANGED <<node, disk, histVars>>

-----------------------------------------------------------------------------
\* Leadership

\* slip: the slice starts one entry late.
AppendRequestOffByOne(n, p, next) ==
    [op |-> "append", from |-> n, to |-> p, term |-> mine[n], prev |-> next - 1,
     prevTerm |-> IF next > 1 THEN node[n].log[next - 1].term ELSE 0,
     entries |-> SubSeq(node[n].log, next + 1, Len(node[n].log)),
     commit |-> node[n].commit]

\* The request a push task sends, with the leadership's term and the node's
\* log and commit mark as they are now.
AppendRequest(n, p, next) ==
    [op |-> "append", from |-> n, to |-> p, term |-> mine[n], prev |-> next - 1,
     prevTerm |-> IF next > 1 THEN node[n].log[next - 1].term ELSE 0,
     entries |-> SubSeq(node[n].log, next, Len(node[n].log)),
     commit |-> node[n].commit]

\* A push task wakes and sends without asking who leads; log[prev - 1] raises,
\* and ends the task, when a new leader has cut the log shorter than that.
Push(n, p) ==
    /\ doing[n] = "lead" /\ call[n][p] = Idle
    /\ MayCall
    /\ call' = [call EXCEPT ![n][p] =
                  IF nextIndex[n][p] - 1 > Len(node[n].log) THEN Over
                  ELSE Asked(AppendRequest(n, p, nextIndex[n][p]))]
    /\ UNCHANGED <<node, disk, doing, mine, granted, leaderVars, late, env, histVars>>

InOffice(n) == node[n].role = "leader" /\ node[n].term = mine[n]

\* _advance_commit, with the marks as the reply leaves them.
Replicas(n, i) == 1 + Cardinality({p \in Peers(n) : matchIndex'[n][p] >= i})
CommitMark(n) ==
    LET enough == {i \in node[n].commit + 1 .. Len(node[n].log) : Replicas(n, i) >= Quorum}
    IN IF enough = {} THEN node[n].commit
       ELSE IF commit_own_term_only /\ node[n].log[Max(enough)].term # mine[n]
       THEN node[n].commit
       ELSE Max(enough)

\* A follower took the entries: count them, and pause before the next push.
PushAccepted(n, p) ==
    LET upTo == call[n][p].upTo
    IN /\ matchIndex' = [matchIndex EXCEPT ![n][p] = upTo]
       /\ nextIndex' = [nextIndex EXCEPT ![n][p] = upTo + 1]
       /\ call' = [call EXCEPT ![n][p] = Idle]
       /\ node' = [node EXCEPT ![n].commit = CommitMark(n)]
       /\ Apply(n, node'[n].commit)

\* It refused them: ask again at once, one entry earlier.
PushRefused(n, p) ==
    LET next == IF nextIndex[n][p] > 1 THEN nextIndex[n][p] - 1 ELSE 1
    IN /\ nextIndex' = [nextIndex EXCEPT ![n][p] = next]
       /\ call' = [call EXCEPT ![n][p] = Asked(AppendRequest(n, p, next))]
       /\ UNCHANGED <<node, matchIndex, committed>>

PushReplied(n, p) ==
    /\ doing[n] = "lead" /\ call[n][p].st = "answered"
    /\ LET r == call[n][p].reply
       IN IF r.term > node[n].term
          THEN /\ node' = [node EXCEPT ![n] = BecomeFollower(@, r.term)]
               /\ Persist(n)
               /\ call' = [call EXCEPT ![n][p] = Over]
               /\ UNCHANGED <<leaderVars, committed>>
          ELSE /\ UNCHANGED disk
               /\ IF ~InOffice(n)
                  THEN /\ call' = [call EXCEPT ![n][p] = Over]
                       /\ UNCHANGED <<node, leaderVars, committed>>
                  ELSE IF r.ok THEN PushAccepted(n, p) ELSE PushRefused(n, p)
    /\ UNCHANGED <<doing, mine, granted, late, env, elected>>

\* _lead's heartbeat finds that the leadership is over.
LeadEnds(n) ==
    /\ doing[n] = "lead" /\ ~InOffice(n)
    /\ Abandon(n, Peers(n))
    /\ BackToFollow(n)
    /\ UNCHANGED <<node, disk, histVars>>

\* wire.call returns None: refused, torn or too late.
CallFails(n, p) ==
    /\ call[n][p].st \in {"asked", "answered"}
    /\ env.faults > 0
    /\ env' = [env EXCEPT !.faults = @ - 1]
    /\ UNCHANGED late \/ Outlives(n, {p})
    /\ call' = [call EXCEPT ![n][p] =
                  IF doing[n] = "lead" /\ InOffice(n) THEN Idle ELSE Over]
    /\ UNCHANGED <<node, disk, doing, mine, granted, leaderVars, histVars>>

-----------------------------------------------------------------------------
\* RPC handling, one message in one step

\* The request arrives, and its answer sets out if its caller still waits.
Reply(m, r) ==
    \/ /\ m \in late
       /\ late' = late \ {m}
       /\ UNCHANGED call
    \/ /\ call[m.from][m.to] = Asked(m)
       /\ call' = [call EXCEPT ![m.from][m.to] =
                     Answered(IF m.op = "append" THEN m.prev + Len(m.entries) ELSE 0, r)]
       /\ UNCHANGED late

Heard(n, m) == IF m.term > node[n].term THEN BecomeFollower(node[n], m.term) ELSE node[n]

HeardDisk(n, m) ==
    IF m.term > node[n].term THEN Saved(disk[n], Heard(n, m), TRUE) ELSE disk[n]

UpToDate(s, m) == m.last > LastTerm(s) \/ (m.last = LastTerm(s) /\ m.index >= Len(s.log))

Grants(s, m) ==
    /\ reject_stale_term => m.term >= s.term
    /\ one_vote_per_term => s.vote \in {Nobody, m.from}
    /\ check_log_up_to_date => UpToDate(s, m)

HandleRequestVote(m) ==
    LET n == m.to
        s == Heard(n, m)
    IN /\ m.op = "vote"
       /\ node' = [node EXCEPT ![n] = IF Grants(s, m) THEN [s EXCEPT !.vote = m.from] ELSE s]
       /\ disk' = [disk EXCEPT ![n] =
                     IF Grants(s, m) THEN Saved(HeardDisk(n, m), node'[n], sync_before_vote)
                     ELSE HeardDisk(n, m)]
       /\ Reply(m, [term |-> s.term, ok |-> Grants(s, m)])
       /\ UNCHANGED <<doing, mine, granted, leaderVars, env, histVars>>

\* slip: the log is cut after prev whether or not the entries conflict.
MergedAlwaysCuts(log, prev, entries) == SubSeq(log, 1, prev) \o entries

\* The follower's log after the loop over the entries: everything from the
\* first one it lacks or has with another term is replaced.
Merged(log, prev, entries) ==
    LET new == {i \in 1 .. Len(entries) :
                  prev + i > Len(log) \/ log[prev + i].term # entries[i].term}
    IN IF new = {} THEN log
       ELSE SubSeq(log, 1, prev + Min(new) - 1) \o SubSeq(entries, Min(new), Len(entries))

Matches(s, m) ==
    m.prev <= Len(s.log) /\ (m.prev > 0 => s.log[m.prev].term = m.prevTerm)

HandleAppendEntries(m) ==
    LET n == m.to
        s == Heard(n, m)
        stale == reject_stale_term /\ m.term < s.term
        f == IF s.role = "candidate" THEN [s EXCEPT !.role = "follower"] ELSE s
        upTo == Min({m.commit, m.prev + Len(m.entries)})
    IN /\ m.op = "append"
       /\ IF stale \/ ~Matches(f, m)
          THEN /\ node' = [node EXCEPT ![n] = IF stale THEN s ELSE f]
               /\ disk' = [disk EXCEPT ![n] = HeardDisk(n, m)]
               /\ UNCHANGED committed
          ELSE /\ node' = [node EXCEPT ![n] =
                             [f EXCEPT !.log = Merged(f.log, m.prev, m.entries),
                                       !.commit = Max({f.commit, upTo})]]
               /\ disk' = [disk EXCEPT ![n] = Saved(HeardDisk(n, m), node'[n], sync_before_ack)]
               /\ Apply(n, node'[n].commit)
       /\ Reply(m, [term |-> s.term, ok |-> ~stale /\ Matches(f, m)])
       /\ UNCHANGED <<doing, mine, granted, leaderVars, env, elected>>

\* _handle_propose at a node that takes itself for the leader.
HandlePropose(n, c) ==
    /\ node[n].role = "leader" /\ Len(node[n].log) < env.log
    /\ \A p \in Nodes : \A i \in DOMAIN node[p].log : node[p].log[i].command # c
    /\ node' = [node EXCEPT ![n].log = Append(@, Entry(node[n].term, c))]
    /\ Persist(n)
    /\ UNCHANGED <<doing, mine, granted, leaderVars, call, late, env, histVars>>

\* The process or its machine goes down and a new one boots from whatever
\* record the disk has kept.  A request that outlives the process is one
\* abandoned just before, by CallFails.
Restart(n, d) ==
    /\ env.faults > 0
    /\ env' = [env EXCEPT !.faults = @ - 1]
    /\ node' = [node EXCEPT ![n] = Boot(d)]
    /\ disk' = [disk EXCEPT ![n] = <<d>>]
    /\ BackToFollow(n)
    /\ UNCHANGED <<late, histVars>>

-----------------------------------------------------------------------------
Blank == [term |-> 0, vote |-> Nobody, log |-> <<>>]

Init ==
    /\ node = [n \in Nodes |-> Boot(Blank)]
    /\ disk = [n \in Nodes |-> <<Blank>>]
    /\ doing = [n \in Nodes |-> "follow"]
    /\ mine = [n \in Nodes |-> 0] /\ granted = [n \in Nodes |-> 0]
    /\ nextIndex = [n \in Nodes |-> [p \in Nodes |-> 1]]
    /\ matchIndex = [n \in Nodes |-> [p \in Nodes |-> 0]]
    /\ call = [n \in Nodes |-> NoCalls] /\ late = {} /\ env \in Bounds
    /\ elected = [t \in {e[2] : e \in Elections} |-> {}] /\ committed = {}

InFlight == late \cup {call[x[1]][x[2]].req :
                         x \in {y \in Nodes \X Nodes : call[y[1]][y[2]].st = "asked"}}

Next ==
    \/ \E n \in Nodes :
         \/ FollowTimesOut(n) \/ BecomeLeader(n) \/ CampaignEnds(n) \/ LeadEnds(n)
         \/ \E c \in Commands : HandlePropose(n, c)
         \/ \E i \in DOMAIN disk[n] : Restart(n, disk[n][i])
    \/ \E n \in Nodes : \E p \in Peers(n) :
         \/ Solicit(n, p) \/ SolicitReplied(n, p)
         \/ Push(n, p) \/ PushReplied(n, p) \/ CallFails(n, p)
    \/ \E m \in InFlight : HandleRequestVote(m) \/ HandleAppendEntries(m)

Spec == Init /\ [][Next]_vars

-----------------------------------------------------------------------------
\* Two nodes never become leader of one term, though voters restart and votes are
\* counted while the node that asked for them changes (_campaign,
\* _handle_request_vote; checks.py, election safety).
ElectionSafety == \A t \in DOMAIN elected : Cardinality(elected[t]) <= 1

\* Logs that agree on the term at an index agree on everything up to it, whatever
\* old leaders go on pushing (_push, _handle_append_entries; checks.py, log
\* matching).
LogMatching ==
    \A n, p \in Nodes : \A i \in DOMAIN node[n].log \cap DOMAIN node[p].log :
        node[n].log[i].term = node[p].log[i].term =>
            SubSeq(node[n].log, 1, i) = SubSeq(node[p].log, 1, i)

\* What the leader of a term committed by counting is in the log of every leader of a
\* later one (_advance_commit against _handle_request_vote; checks.py, leader
\* completeness).  What a node was first to apply without leading came to it in the push
\* of a deposed leader, and only StateMachineSafety is about it.
LeaderCompleteness ==
    \A n \in Nodes, c \in committed :
        node[n].role = "leader" /\ node[n].term > c.under /\ c.by \in elected[c.under] =>
            c.index <= Len(node[n].log) /\ node[n].log[c.index] = c.entry

\* No index is applied as two different entries, on any node or by a node before
\* and after a restart (_apply; checks.py, state machine safety).
StateMachineSafety ==
    \A c, d \in committed : c.index = d.index => c.entry = d.entry
=============================================================================
