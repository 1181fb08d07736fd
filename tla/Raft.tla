--------------------------------- MODULE Raft ---------------------------------
(***************************************************************************)
(* The consensus node of raft-from-scratch (src/raft_node.py), a cluster   *)
(* of them talking through rpc.py.                                         *)
(*                                                                         *)
(* Every handler runs under the node's lock and is one action.  What the   *)
(* lock does not cover is the remote call: a worker thread captures the    *)
(* request under the lock, calls the peer without it, and takes the lock   *)
(* again to digest the reply.  A call in flight is a record in voteCalls   *)
(* or appendCalls; its three steps (capture, handler at the peer, digest)  *)
(* are separate actions, so anything may happen between them.              *)
(*                                                                         *)
(* last_applied equals commit_index whenever the lock is free, because     *)
(* every assignment to commit_index is followed by the apply loop; both    *)
(* are Len(applied[n]), the commands n's state machine has consumed.       *)
(***************************************************************************)
EXTENDS RaftLog, FiniteSets

CONSTANTS
    Node,              \* all_nodes
    Command,           \* client commands, each submitted once
    None,              \* voted_for is None
    SnapshotInterval,  \* config.snapshot_interval
    Timely,            \* every call is over before its caller's next election timeout
    MaxTerm,           \* bound: elections stop at this term
    VoteFanout,        \* bound: peers a candidate's RequestVote calls reach
    Contender,         \* bound: the nodes whose election timer may fire
    MaxAppendCalls,    \* bound: AppendEntries calls in flight in the cluster
    Stoppable          \* bound: the nodes that may stop and restart

ASSUME RaftAssumption ==
    /\ IsFiniteSet(Node)
    /\ None \notin Node
    /\ SnapshotInterval \in Nat \ {0}
    /\ Timely \in BOOLEAN
    /\ MaxTerm \in Nat
    /\ VoteFanout \in Nat
    /\ Contender \subseteq Node
    /\ MaxAppendCalls \in Nat
    /\ Stoppable \subseteq Node

VARIABLES
    running,        \* self.running
    currentTerm,    \* self.current_term, persistent
    votedFor,       \* self.voted_for, persistent
    state,          \* self.state
    log,            \* self.log, persistent
    applied,        \* commands applied to self.state_machine
    nextIndex,      \* self.next_index
    matchIndex,     \* self.match_index
    pending,        \* self.pending_commits: <<node, index, command>>
    resolved,       \* futures resolved: <<command submitted, command applied>>
    submitted,      \* commands handed to submit_command
    votesReceived,  \* the votes_received sets: <<candidate, term, voter>>
    voteCalls,      \* RequestVote calls in flight
    appendCalls     \* AppendEntries calls in flight

electionVars == <<currentTerm, votedFor, state, votesReceived, voteCalls>>
leaderVars == <<nextIndex, matchIndex>>
clientVars == <<pending, resolved, submitted>>
vars == <<running, electionVars, leaderVars, clientVars, log, applied, appendCalls>>

Peers(n) == Node \ {n}
NodeState == {"follower", "candidate", "leader"}
IsMajority(S) == Cardinality(S) > Cardinality(Node) \div 2
CommitIndex(n) == Len(applied[n])

VotesOf(n, term) == {v \in Node : <<n, term, v>> \in votesReceived}

\* A call is sent, then answered, and gone when the reply has been digested; the
\* calls of a node that restarts are orphaned, and nobody waits for the reply.
Stage == {"sent", "answered", "orphaned"}
CallsFrom(n) == {c \in voteCalls \cup appendCalls : c.from = n /\ c.stage # "orphaned"}

Init ==
    /\ running = [n \in Node |-> TRUE]
    /\ currentTerm = [n \in Node |-> 0]
    /\ votedFor = [n \in Node |-> None]
    /\ state = [n \in Node |-> "follower"]
    /\ log = [n \in Node |-> EmptyLog]
    /\ applied = [n \in Node |-> <<>>]
    /\ nextIndex = [n \in Node |-> [p \in Node |-> 1]]
    /\ matchIndex = [n \in Node |-> [p \in Node |-> 0]]
    /\ pending = {}
    /\ resolved = {}
    /\ submitted = {}
    /\ votesReceived = {}
    /\ voteCalls = {}
    /\ appendCalls = {}

-------------------------------------------------------------------------------
(* Helpers that run under the lock of the node they change.                  *)

\* Variant: a message of the present term clears the vote too.
VoteAfterForgetful(n, t) == IF t >= currentTerm[n] THEN None ELSE votedFor[n]

\* _update_term, as the new values of one node's term, vote and role.
TermAfter(n, t) == IF t > currentTerm[n] THEN t ELSE currentTerm[n]
VoteAfter(n, t) == IF t > currentTerm[n] THEN None ELSE votedFor[n]
RoleAfter(n, t) == IF t > currentTerm[n] THEN "follower" ELSE state[n]

UpdateTerm(n, t) ==
    /\ currentTerm' = [currentTerm EXCEPT ![n] = t]
    /\ votedFor' = [votedFor EXCEPT ![n] = None]
    /\ state' = [state EXCEPT ![n] = "follower"]

\* _apply_committed_entries up to index c: each entry applied, its future (if
\* this node holds one for the index) resolved, and a snapshot taken whenever
\* snapshot_interval entries have been applied since the last one.
CommandsBetween(l, first, last) == [k \in 1 .. (last - first) |-> EntryAt(l, first + k).command]

SnapshotIndex(n, l, c) ==
    l.lastIncludedIndex + SnapshotInterval * ((c - l.lastIncludedIndex) \div SnapshotInterval)

ApplyCommitted(n, l, c) ==
    LET due == {p \in pending : p[1] = n /\ p[2] \in CommitIndex(n) + 1 .. c}
        s   == SnapshotIndex(n, l, c)
    IN /\ applied' = [applied EXCEPT ![n] = @ \o CommandsBetween(l, CommitIndex(n), c)]
       /\ resolved' = resolved \cup {<<p[3], EntryAt(l, p[2]).command>> : p \in due}
       /\ pending' = pending \ due
       /\ log' = [log EXCEPT ![n] = Compact(l, s, GetTerm(l, s))]

-------------------------------------------------------------------------------
(* Elections.                                                                *)

\* _election_timeout_handler and _start_election.  Under Timely the timer,
\* restarted whenever a node becomes candidate or follower, fires only after
\* the calls that node made earlier have returned (RPC_TIMEOUT is shorter
\* than election_timeout_min).  Every peer is called; the calls to peers
\* outside reached find them disconnected, which has no effect.  A
\* votes_received set lives as long as some worker of its election holds it.
ElectionTimeout(n) ==
    LET t == currentTerm[n] + 1 IN
    /\ running[n]
    /\ state[n] # "leader"
    /\ n \in Contender
    /\ t <= MaxTerm
    /\ Timely => CallsFrom(n) = {}
    /\ currentTerm' = [currentTerm EXCEPT ![n] = t]
    /\ state' = [state EXCEPT ![n] = "candidate"]
    /\ votedFor' = [votedFor EXCEPT ![n] = n]
    /\ votesReceived' =
          {v \in votesReceived : v[1] = n => \E c \in voteCalls : c.from = n /\ c.term = v[2]}
             \cup {<<n, t, n>>}
    /\ \E reached \in SUBSET Peers(n) :
          /\ Cardinality(reached) <= VoteFanout
          /\ voteCalls' = voteCalls \cup
                {[from |-> n, to |-> p, term |-> t,
                  lastLogIndex |-> LogLen(log[n]), lastLogTerm |-> LastTerm(log[n]),
                  granted |-> FALSE, replyTerm |-> 0, stage |-> "sent"] : p \in reached}
    /\ UNCHANGED <<running, leaderVars, clientVars, log, applied, appendCalls>>

\* Variant: the vote given earlier in the term is not looked at.
CanVoteTwice(n, term, candidate) == term = TermAfter(n, term)

\* can_vote in handle_request_vote, after the term has been updated.
CanVote(n, term, candidate) == VoteAfter(n, term) \in {None, candidate}

\* handle_request_vote at the receiver of call c.
HandleRequestVote(c) ==
    LET n     == c.to
        stale == c.term < currentTerm[n]
        grant == /\ ~stale
                 /\ CanVote(n, c.term, c.from)
                 /\ AtLeastAsFresh(c.lastLogTerm, c.lastLogIndex,
                                   LastTerm(log[n]), LogLen(log[n]))
    IN /\ running[n]
       /\ c.stage # "answered"
       /\ currentTerm' = [currentTerm EXCEPT ![n] = TermAfter(n, c.term)]
       /\ state' = [state EXCEPT ![n] = RoleAfter(n, c.term)]
       /\ votedFor' = [votedFor EXCEPT ![n] = IF grant THEN c.from ELSE VoteAfter(n, c.term)]
       /\ voteCalls' = (voteCalls \ {c}) \cup
             {d \in {[c EXCEPT !.stage = "answered", !.granted = grant,
                               !.replyTerm = TermAfter(n, c.term)]} : c.stage = "sent"}
       /\ UNCHANGED <<running, votesReceived, leaderVars, clientVars, log, applied, appendCalls>>

\* _become_leader: the leader's view of its peers starts afresh.
BecomeLeader(n) ==
    /\ state' = [state EXCEPT ![n] = "leader"]
    /\ nextIndex' = [nextIndex EXCEPT ![n] = [p \in Node |-> LogLen(log[n]) + 1]]
    /\ matchIndex' = [matchIndex EXCEPT ![n] = [p \in Node |-> 0]]

\* _request_vote_worker once the reply is in.  The reply is weighed against
\* the node's present role and term; the term of the election it answers is
\* not looked at.
RequestVoteReply(c) ==
    LET n     == c.from
        votes == VotesOf(n, c.term) \cup {c.to}
    IN /\ c.stage = "answered"
       /\ voteCalls' = voteCalls \ {c}
       /\ \/ /\ ~running[n] \/ state[n] # "candidate"
             /\ UNCHANGED <<currentTerm, votedFor, state, votesReceived, leaderVars>>
          \/ /\ running[n] /\ state[n] = "candidate"
             /\ c.replyTerm > currentTerm[n]
             /\ UpdateTerm(n, c.replyTerm)
             /\ UNCHANGED <<votesReceived, leaderVars>>
          \/ /\ running[n] /\ state[n] = "candidate"
             /\ c.replyTerm <= currentTerm[n]
             /\ ~c.granted
             /\ UNCHANGED <<currentTerm, votedFor, state, votesReceived, leaderVars>>
          \/ /\ running[n] /\ state[n] = "candidate"
             /\ c.replyTerm <= currentTerm[n]
             /\ c.granted
             /\ votesReceived' = votesReceived \cup {<<n, c.term, c.to>>}
             /\ IF IsMajority(votes)
                THEN BecomeLeader(n)
                ELSE UNCHANGED <<state, leaderVars>>
             /\ UNCHANGED <<currentTerm, votedFor>>
       /\ UNCHANGED <<running, clientVars, log, applied, appendCalls>>

\* A call that comes to nothing: the peer is disconnected or gone and the
\* transport answers (0, False), or it raises and the worker swallows it.
RequestVoteLost(c) ==
    /\ voteCalls' = voteCalls \ {c}
    /\ UNCHANGED <<running, currentTerm, votedFor, state, votesReceived, leaderVars,
                   clientVars, log, applied, appendCalls>>

-------------------------------------------------------------------------------
(* Replication.                                                              *)

\* submit_command on a leader.  The future is filed under the entry's index,
\* in place of any future still filed there.
SubmitCommand(n, cmd) ==
    LET i == LogLen(log[n]) + 1 IN
    /\ state[n] = "leader"
    /\ cmd \notin submitted
    /\ submitted' = submitted \cup {cmd}
    /\ log' = [log EXCEPT ![n] = AppendEntry(@, [term |-> currentTerm[n], command |-> cmd])]
    /\ pending' = {p \in pending : ~(p[1] = n /\ p[2] = i)} \cup {<<n, i, cmd>>}
    /\ UNCHANGED <<running, electionVars, leaderVars, resolved, applied, appendCalls>>

\* Variant: a peer that has every entry is sent no heartbeat.
CanReplicateNoHeartbeat(n, p) ==
    /\ state[n] = "leader"
    /\ p # n
    /\ nextIndex[n][p] \in log[n].lastIncludedIndex + 1 .. LogLen(log[n])

\* _append_entries_worker up to the call.  The thread was started by a
\* heartbeat timer, by submit_command or by _become_leader, and may run at any
\* later time, after stop too.  A peer behind the snapshot gets nothing.
CanReplicate(n, p) ==
    /\ state[n] = "leader"
    /\ p # n
    /\ nextIndex[n][p] - 1 >= log[n].lastIncludedIndex

AppendEntriesCall(n, p) ==
    LET next == nextIndex[n][p]
        prev == next - 1
    IN /\ CanReplicate(n, p)
       /\ Cardinality(appendCalls) < MaxAppendCalls
       /\ appendCalls' = appendCalls \cup
             {[from |-> n, to |-> p, term |-> currentTerm[n],
               prevLogIndex |-> prev, prevLogTerm |-> GetTerm(log[n], prev),
               entries |-> GetEntries(log[n], next), leaderCommit |-> CommitIndex(n),
               success |-> FALSE, replyTerm |-> 0, stage |-> "sent"]}
       /\ UNCHANGED <<running, electionVars, leaderVars, clientVars, log, applied>>

AnswerAppend(c, term, success) ==
    appendCalls' = (appendCalls \ {c}) \cup
        {d \in {[c EXCEPT !.stage = "answered", !.replyTerm = term, !.success = success]} :
            c.stage = "sent"}

\* handle_append_entries at the receiver of call c.
HandleAppendEntries(c) ==
    LET n      == c.to
        merged == MergeEntries(log[n], c.prevLogIndex, c.entries)
        commit == Min({c.leaderCommit, LogLen(merged)})
    IN /\ running[n]
       /\ c.stage # "answered"
       /\ \/ /\ c.term < currentTerm[n]
             /\ AnswerAppend(c, currentTerm[n], FALSE)
             /\ UNCHANGED <<currentTerm, votedFor, state, log, applied, pending, resolved>>
          \/ /\ c.term >= currentTerm[n]
             /\ currentTerm' = [currentTerm EXCEPT ![n] = TermAfter(n, c.term)]
             /\ votedFor' = [votedFor EXCEPT ![n] = VoteAfter(n, c.term)]
             /\ state' = [state EXCEPT ![n] = RoleAfter(n, c.term)]
             /\ \/ /\ ~MatchLog(log[n], c.prevLogIndex, c.prevLogTerm)
                   /\ AnswerAppend(c, c.term, FALSE)
                   /\ UNCHANGED <<log, applied, pending, resolved>>
                \/ /\ MatchLog(log[n], c.prevLogIndex, c.prevLogTerm)
                   /\ AnswerAppend(c, c.term, TRUE)
                   /\ IF c.leaderCommit > CommitIndex(n)
                      THEN ApplyCommitted(n, merged, commit)
                      ELSE /\ log' = [log EXCEPT ![n] = merged]
                           /\ UNCHANGED <<applied, pending, resolved>>
       /\ UNCHANGED <<running, votesReceived, voteCalls, leaderVars, submitted>>

\* The transport answers (0, False) for a peer that is disconnected or gone.
AppendEntriesUnreachable(c) ==
    /\ c.stage # "answered"
    /\ AnswerAppend(c, 0, FALSE)
    /\ UNCHANGED <<running, electionVars, leaderVars, clientVars, log, applied>>

\* The call raises, before or after the peer handled it.
AppendEntriesLost(c) ==
    /\ appendCalls' = appendCalls \ {c}
    /\ UNCHANGED <<running, electionVars, leaderVars, clientVars, log, applied>>

\* Variant: the leader's own log counts as a majority.
AnyMatch(n, m) == LogLen(log[n])

\* _update_commit_index for leader n whose match_index is m: N is the highest
\* index a majority has reached, the leader's own log included, and commits
\* only if its entry is of the current term.  (An N past the leader's own log
\* raises in get_term and the worker swallows it.)
MajorityMatch(n, m) ==
    LET reach == [m EXCEPT ![n] = LogLen(log[n])]
    IN Max({i \in {reach[p] : p \in Node} : IsMajority({p \in Node : reach[p] >= i})})

MayCommit(n, i) ==
    /\ CommitIndex(n) < i /\ i <= LogLen(log[n])
    /\ GetTerm(log[n], i) = currentTerm[n]

UpdateCommitIndex(n, m) ==
    LET N == MajorityMatch(n, m) IN
    IF MayCommit(n, N)
    THEN ApplyCommitted(n, log[n], N)
    ELSE UNCHANGED <<log, applied, pending, resolved>>

\* Variant: next_index may reach 0.
RetryIndexUnclamped(i) == i - 1

\* Where the worker retries after a refusal.
RetryIndex(i) == Max({1, i - 1})

\* _append_entries_worker once the reply is in.  As with votes, only the
\* present role is checked, not the term the call was made in.
AppendEntriesReply(c) ==
    LET n     == c.from
        p     == c.to
        match == c.prevLogIndex + Len(c.entries)
        leading == running[n] /\ c.replyTerm <= currentTerm[n] /\ state[n] = "leader"
    IN /\ c.stage = "answered"
       /\ appendCalls' = appendCalls \ {c}
       /\ \/ /\ running[n]
             /\ c.replyTerm > currentTerm[n]
             /\ UpdateTerm(n, c.replyTerm)
             /\ UNCHANGED <<leaderVars, log, applied, pending, resolved>>
          \/ /\ leading
             /\ c.success /\ c.entries # <<>>
             /\ matchIndex' = [matchIndex EXCEPT ![n][p] = match]
             /\ nextIndex' = [nextIndex EXCEPT ![n][p] = match + 1]
             /\ UpdateCommitIndex(n, matchIndex'[n])
             /\ UNCHANGED <<currentTerm, votedFor, state>>
          \/ /\ leading
             /\ ~c.success
             /\ nextIndex' = [nextIndex EXCEPT ![n][p] = RetryIndex(@)]
             /\ UNCHANGED <<currentTerm, votedFor, state, matchIndex, log, applied,
                            pending, resolved>>
          \/ /\ \/ ~running[n]
                \/ c.replyTerm <= currentTerm[n] /\ state[n] # "leader"
                \/ leading /\ c.success /\ c.entries = <<>>
             /\ UNCHANGED <<currentTerm, votedFor, state, leaderVars, log, applied,
                            pending, resolved>>
       /\ UNCHANGED <<running, votesReceived, voteCalls, submitted>>

-------------------------------------------------------------------------------
(* Stopping and restarting.                                                  *)

\* stop: timers are cancelled and the node leaves the registry; its role, and
\* the calls its threads are making, stay as they are.
Stop(n) ==
    /\ n \in Stoppable
    /\ running[n]
    /\ running' = [running EXCEPT ![n] = FALSE]
    /\ UNCHANGED <<electionVars, leaderVars, clientVars, log, applied, appendCalls>>

\* The process is started anew: __init__ and start on the same storage.  Term,
\* vote, log and snapshot are read back, all else is new.  Requests it sent
\* earlier may still reach their peers, but nobody waits for the answers.
Orphaned(calls, n) ==
    {c \in calls : c.from # n} \cup
    {[c EXCEPT !.stage = "orphaned"] : c \in {d \in calls : d.from = n /\ d.stage # "answered"}}

Restart(n) ==
    /\ ~running[n]
    /\ running' = [running EXCEPT ![n] = TRUE]
    /\ state' = [state EXCEPT ![n] = "follower"]
    /\ applied' = [applied EXCEPT ![n] = SubSeq(@, 1, log[n].lastIncludedIndex)]
    /\ nextIndex' = [nextIndex EXCEPT ![n] = [p \in Node |-> 1]]
    /\ matchIndex' = [matchIndex EXCEPT ![n] = [p \in Node |-> 0]]
    /\ pending' = {p \in pending : p[1] # n}
    /\ votesReceived' = {v \in votesReceived : v[1] # n}
    /\ voteCalls' = Orphaned(voteCalls, n)
    /\ appendCalls' = Orphaned(appendCalls, n)
    /\ UNCHANGED <<currentTerm, votedFor, log, resolved, submitted>>

-------------------------------------------------------------------------------
Next ==
    \/ \E n \in Node : ElectionTimeout(n)
    \/ \E c \in voteCalls : HandleRequestVote(c)
    \/ \E c \in voteCalls : RequestVoteReply(c)
    \/ \E c \in voteCalls : RequestVoteLost(c)
    \/ \E n \in Node, cmd \in Command : SubmitCommand(n, cmd)
    \/ \E n, p \in Node : AppendEntriesCall(n, p)
    \/ \E c \in appendCalls : HandleAppendEntries(c)
    \/ \E c \in appendCalls : AppendEntriesUnreachable(c)
    \/ \E c \in appendCalls : AppendEntriesLost(c)
    \/ \E c \in appendCalls : AppendEntriesReply(c)
    \/ \E n \in Node : Stop(n)
    \/ \E n \in Node : Restart(n)

Spec == Init /\ [][Next]_vars

\* Heartbeat timers re-arm themselves for as long as a node leads
\* (_schedule_next_heartbeat), so every peer is called again and again; and
\* no connection fails for ever: among endless calls to p some are handled,
\* and among the endless answers of p some come back.  A worker with a reply
\* in hand always finishes.
FairSpec ==
    /\ Spec
    /\ WF_vars(\E c \in appendCalls : AppendEntriesReply(c))
    /\ \A p \in Node :
          /\ SF_vars(\E n \in Node : AppendEntriesCall(n, p))
          /\ SF_vars(\E c \in appendCalls : c.to = p /\ HandleAppendEntries(c))
          /\ SF_vars(\E c \in appendCalls : c.to = p /\ c.replyTerm > 0 /\ AppendEntriesReply(c))

-------------------------------------------------------------------------------
(* Properties.                                                               *)

LogEntry == [term : Nat, command : Command]

\* The fields of a call in flight that elections depend on.
IsVoteCall(c) ==
    /\ DOMAIN c = {"from", "to", "term", "lastLogIndex", "lastLogTerm",
                   "granted", "replyTerm", "stage"}
    /\ c.from \in Node /\ c.to \in Node
    /\ c.term \in Nat /\ c.replyTerm \in Nat
    /\ c.granted \in BOOLEAN /\ c.stage \in Stage

IsAppendCall(c) ==
    /\ DOMAIN c = {"from", "to", "term", "prevLogIndex", "prevLogTerm", "entries",
                   "leaderCommit", "success", "replyTerm", "stage"}
    /\ c.from \in Node /\ c.to \in Node
    /\ c.term \in Nat /\ c.replyTerm \in Nat

\* The variables elections read and write keep their shape.
ElectionTypeOK ==
    /\ running \in [Node -> BOOLEAN]
    /\ currentTerm \in [Node -> Nat]
    /\ votedFor \in [Node -> Node \cup {None}]
    /\ state \in [Node -> NodeState]
    /\ votesReceived \subseteq Node \X Nat \X Node
    /\ \A c \in voteCalls : IsVoteCall(c)
    /\ \A c \in appendCalls : IsAppendCall(c)

\* Every variable keeps its shape, and the applied commands end between the
\* snapshot and the end of the log (commit_index, last_included_index).
TypeOK ==
    /\ ElectionTypeOK
    /\ \A n \in Node :
          /\ log[n].entries \in Seq(LogEntry)
          /\ log[n].lastIncludedIndex <= CommitIndex(n)
          /\ CommitIndex(n) <= LogLen(log[n])
    /\ nextIndex \in [Node -> [Node -> Nat \ {0}]]
    /\ matchIndex \in [Node -> [Node -> Nat]]

\* "Split-brain prevention": two nodes are never leaders of the same term
\* (raft_node.py _request_vote_worker, handle_request_vote).
ElectionSafety ==
    \A m, n \in Node :
        state[m] = "leader" /\ state[n] = "leader" /\ currentTerm[m] = currentTerm[n] => m = n

\* "Log matching": where two logs hold an entry of the same term at the same
\* index, they agree on it and on every earlier entry both still hold
\* (handle_append_entries, log.match_log, log.truncate).
LogMatching ==
    \A m, n \in Node :
        LET held == {i \in 1 .. Min({LogLen(log[m]), LogLen(log[n])}) :
                        /\ i > log[m].lastIncludedIndex
                        /\ i > log[n].lastIncludedIndex}
        IN \A i \in held :
              EntryAt(log[m], i).term = EntryAt(log[n], i).term =>
                  \A j \in held : j <= i => EntryAt(log[m], j) = EntryAt(log[n], j)

\* "Ordered, durable append-only logs with consistency guarantees": an entry
\* sits at one index, the same in every log (LogEntry.index, which
\* submit_command sets; handle_append_entries, log.truncate).
EntryKeepsIndex ==
    \A m, n \in Node : \A i \in DOMAIN log[m].entries, j \in DOMAIN log[n].entries :
        log[m].entries[i] = log[n].entries[j] =>
            log[m].lastIncludedIndex + i = log[n].lastIncludedIndex + j

\* "State machine safety": the state machines of two nodes have never
\* consumed different commands at the same index (_apply_committed_entries).
StateMachineSafety ==
    \A m, n \in Node : IsPrefix(applied[m], applied[n]) \/ IsPrefix(applied[n], applied[m])

\* "Leader completeness": a leader holds every command that a node of its own
\* or an earlier term has applied (the freshness check of handle_request_vote
\* together with the commit rule of _update_commit_index).
LeaderCompleteness ==
    \A l, n \in Node :
        state[l] = "leader" /\ currentTerm[n] <= currentTerm[l] =>
            /\ CommitIndex(n) <= LogLen(log[l])
            /\ \A i \in log[l].lastIncludedIndex + 1 .. CommitIndex(n) :
                  EntryAt(log[l], i).command = applied[n][i]

\* What a node has applied is still in its own log: no truncation reaches
\* below commit_index (handle_append_entries, log.truncate).
AppliedStaysInLog ==
    \A n \in Node : \A i \in log[n].lastIncludedIndex + 1 .. CommitIndex(n) :
        EntryAt(log[n], i).command = applied[n][i]

\* n has the command on disk, in its log or in a snapshot.
Holds(n, cmd) ==
    \/ \E i \in DOMAIN log[n].entries : log[n].entries[i].command = cmd
    \/ \E i \in 1 .. log[n].lastIncludedIndex : applied[n][i] = cmd

\* The result a client was given comes from a command a majority holds on
\* disk: whatever stops and restarts, it is not forgotten (submit_command's
\* future, "Durable state across crashes").
ResolvedIsDurable == \A r \in resolved : IsMajority({n \in Node : Holds(n, r[2])})

\* Under a leader that stays, a submitted command is applied on every node
\* (the retries of _append_entries_worker walk next_index back until the logs
\* meet, and a later heartbeat carries commit_index).
SubmittedIsApplied ==
    \A cmd \in Command :
        cmd \in submitted ~> \A n \in Node : \E i \in DOMAIN applied[n] : applied[n][i] = cmd

\* A node never votes for two candidates of one term, restarts included, and
\* its term never goes back (_update_term, _save_state).
VoteIsFinal ==
    [][\A n \in Node :
          /\ currentTerm[n] <= currentTerm'[n]
          /\ currentTerm[n] = currentTerm'[n] /\ votedFor[n] # None => votedFor'[n] = votedFor[n]
      ]_vars
===============================================================================
