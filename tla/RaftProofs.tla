------------------------------ MODULE RaftProofs ------------------------------
(***************************************************************************)
(* Election safety of raft-from-scratch, for every cluster, every number   *)
(* of commands and every bound: under Timely, two leaders never share a    *)
(* term; and, Timely or not, a node's vote is final within a term.         *)
(***************************************************************************)
EXTENDS Raft, FiniteSetTheorems, TLAPS

-------------------------------------------------------------------------------
(* The inductive invariant.                                                  *)

\* c has v's vote in term t, or v has gone on to a later term.
Cast(c, t, v) ==
    \/ currentTerm[v] > t
    \/ currentTerm[v] = t /\ votedFor[v] = c

\* The votes that are counted, or on their way to be.
Ballots ==
    votesReceived \cup
    {<<c.from, c.term, c.to>> : c \in {d \in voteCalls : d.stage = "answered" /\ d.granted}}

BallotsWereCast == \A b \in Ballots : Cast(b[1], b[2], b[3])

OneVotePerTerm == \A a, b \in Ballots : a[2] = b[2] /\ a[3] = b[3] => a[1] = b[1]

LeadersWereElected == \A n \in Node : state[n] = "leader" => IsMajority(VotesOf(n, currentTerm[n]))

\* What Timely buys: the votes a candidate is waiting for are of its term.
CallsAreCurrent ==
    \A c \in voteCalls :
        c.stage # "orphaned" /\ state[c.from] = "candidate" => c.term = currentTerm[c.from]

ElectionInv ==
    /\ ElectionTypeOK
    /\ BallotsWereCast
    /\ OneVotePerTerm
    /\ Timely => LeadersWereElected
    /\ Timely => CallsAreCurrent

-------------------------------------------------------------------------------
\* Two majorities of the cluster share a node (the len > total // 2 test of
\* _request_vote_worker).
LEMMA MajoritiesIntersect ==
    ASSUME NEW S \in SUBSET Node, NEW T \in SUBSET Node, IsMajority(S), IsMajority(T)
    PROVE  S \cap T # {}
<1>1. IsFiniteSet(Node) /\ IsFiniteSet(S) /\ IsFiniteSet(T)
  BY RaftAssumption, FS_Subset
<1>2. Cardinality(Node) \in Nat /\ Cardinality(S) \in Nat /\ Cardinality(T) \in Nat
  BY <1>1, FS_CardinalityType
<1>3. Cardinality(S) + Cardinality(T) > Cardinality(Node)
  BY <1>2 DEF IsMajority
<1>4. QED
  BY <1>1, <1>3, FS_MajoritiesIntersect

\* The invariant says what it is meant to say.
LEMMA ElectionInvImpliesSafety == Timely /\ ElectionInv => ElectionSafety
<1> SUFFICES ASSUME Timely, ElectionInv,
                    NEW m \in Node, NEW n \in Node,
                    state[m] = "leader", state[n] = "leader",
                    currentTerm[m] = currentTerm[n]
             PROVE  m = n
  BY DEF ElectionSafety
<1> DEFINE t == currentTerm[m]
<1>1. IsMajority(VotesOf(m, t)) /\ IsMajority(VotesOf(n, t))
  BY DEF ElectionInv, LeadersWereElected
<1>2. PICK v \in Node : v \in VotesOf(m, t) /\ v \in VotesOf(n, t)
  BY <1>1, MajoritiesIntersect DEF VotesOf
<1>3. <<m, t, v>> \in Ballots /\ <<n, t, v>> \in Ballots
  BY <1>2 DEF VotesOf, Ballots
<1>4. QED
  BY <1>3 DEF ElectionInv, OneVotePerTerm

\* No vote has been cast and nobody leads.
LEMMA InitElectionInv == Init => ElectionInv
<1> SUFFICES ASSUME Init PROVE ElectionInv
  OBVIOUS
<1>1. ElectionTypeOK
  BY DEF Init, ElectionTypeOK, NodeState
<1>2. Ballots = {}
  BY DEF Init, Ballots
<1>3. LeadersWereElected
  BY DEF Init, LeadersWereElected
<1>4. CallsAreCurrent
  BY DEF Init, CallsAreCurrent
<1>5. QED
  BY <1>1, <1>2, <1>3, <1>4 DEF ElectionInv, BallotsWereCast, OneVotePerTerm

-------------------------------------------------------------------------------
(* One lemma per step that touches votes, terms or roles.                    *)

\* _start_election: the new term is the node's own, and nobody has voted in
\* it on the node's behalf before.
LEMMA ElectionTimeoutStep ==
    ASSUME ElectionInv, NEW n \in Node, ElectionTimeout(n)
    PROVE  ElectionInv'
<1> DEFINE t == currentTerm[n] + 1
<1> USE DEF ElectionInv
<1>1. PICK reached \in SUBSET Peers(n) :
         voteCalls' = voteCalls \cup
            {[from |-> n, to |-> p, term |-> t,
              lastLogIndex |-> LogLen(log[n]), lastLogTerm |-> LastTerm(log[n]),
              granted |-> FALSE, replyTerm |-> 0, stage |-> "sent"] : p \in reached}
  BY DEF ElectionTimeout
<1>2. /\ currentTerm' = [currentTerm EXCEPT ![n] = t]
      /\ state' = [state EXCEPT ![n] = "candidate"]
      /\ votedFor' = [votedFor EXCEPT ![n] = n]
      /\ UNCHANGED <<running, appendCalls>>
  BY DEF ElectionTimeout
<1>3. /\ votesReceived' \subseteq votesReceived \cup {<<n, t, n>>}
      /\ \A v \in votesReceived : v[1] # n => v \in votesReceived'
  BY DEF ElectionTimeout
<1>4. Timely => \A c \in voteCalls : c.stage # "orphaned" => c.from # n
  BY DEF ElectionTimeout, CallsFrom
<1>5. ElectionTypeOK'
  <2>1. t \in Nat
    BY DEF ElectionTypeOK
  <2>2. \A c \in voteCalls' \ voteCalls : IsVoteCall(c)
    <3> SUFFICES ASSUME NEW c \in voteCalls', c \notin voteCalls
                 PROVE  IsVoteCall(c)
      OBVIOUS
    <3>1. PICK p \in reached :
             c = [from |-> n, to |-> p, term |-> t,
                  lastLogIndex |-> LogLen(log[n]), lastLogTerm |-> LastTerm(log[n]),
                  granted |-> FALSE, replyTerm |-> 0, stage |-> "sent"]
      BY <1>1
    <3>2. p \in Node
      BY DEF Peers
    <3>3. DOMAIN c = {"from", "to", "term", "lastLogIndex", "lastLogTerm",
                      "granted", "replyTerm", "stage"}
      BY <3>1
    <3>4. QED
      BY <3>1, <3>2, <3>3, <2>1 DEF IsVoteCall, Stage
  <2>3. votesReceived' \subseteq Node \X Nat \X Node
    BY <1>3, <2>1 DEF ElectionTypeOK
  <2>4. /\ \A c \in voteCalls' : IsVoteCall(c)
        /\ \A c \in appendCalls' : IsAppendCall(c)
    BY <1>2, <2>2 DEF ElectionTypeOK
  <2>5. QED
    BY <1>2, <2>1, <2>3, <2>4 DEF ElectionTypeOK, NodeState, IsVoteCall, IsAppendCall
<1>6. Ballots' \subseteq Ballots \cup {<<n, t, n>>}
  BY <1>1, <1>3 DEF Ballots
<1>7. \A b \in Ballots : b[1] \in Node /\ b[2] \in Nat /\ b[3] \in Node
  BY DEF Ballots, ElectionTypeOK, IsVoteCall
<1>8. BallotsWereCast'
  <2> SUFFICES ASSUME NEW b \in Ballots' PROVE Cast(b[1], b[2], b[3])'
    BY DEF BallotsWereCast
  <2>1. CASE b = <<n, t, n>>
    BY <2>1, <1>2 DEF Cast, ElectionTypeOK
  <2>2. CASE b \in Ballots
    BY <2>2, <1>2, <1>7 DEF BallotsWereCast, Cast, ElectionTypeOK
  <2>3. QED
    BY <2>1, <2>2, <1>6
<1>9. OneVotePerTerm'
  <2>1. \A b \in Ballots : ~(b[2] = t /\ b[3] = n)
    BY <1>7 DEF BallotsWereCast, Cast, ElectionTypeOK
  <2>2. QED
    BY <2>1, <1>6 DEF OneVotePerTerm
<1>10. ASSUME Timely PROVE LeadersWereElected'
  <2> SUFFICES ASSUME NEW m \in Node, state'[m] = "leader"
               PROVE  IsMajority(VotesOf(m, currentTerm[m])')
    BY DEF LeadersWereElected, IsMajority
  <2>1. m # n /\ state[m] = "leader" /\ currentTerm'[m] = currentTerm[m]
    BY <1>2 DEF ElectionTypeOK
  <2>2. VotesOf(m, currentTerm[m])' = VotesOf(m, currentTerm[m])
    BY <2>1, <1>3 DEF VotesOf
  <2>3. QED
    BY <1>10, <2>1, <2>2 DEF LeadersWereElected
<1>11. ASSUME Timely PROVE CallsAreCurrent'
  BY <1>11, <1>1, <1>2, <1>4 DEF CallsAreCurrent, ElectionTypeOK
<1>12. QED
  BY <1>5, <1>8, <1>9, <1>10, <1>11

\* A step of node n that counts and casts no vote: its term stays, with its
\* vote, and it keeps its role or falls back to follower; or its term rises
\* and it is a follower (_update_term).
Quiet(n) ==
    /\ \/ /\ currentTerm' = currentTerm
          /\ votedFor' = votedFor
          /\ state' \in {state, [state EXCEPT ![n] = "follower"]}
       \/ \E t \in Nat :
             /\ t > currentTerm[n]
             /\ currentTerm' = [currentTerm EXCEPT ![n] = t]
             /\ votedFor' = [votedFor EXCEPT ![n] = None]
             /\ state' = [state EXCEPT ![n] = "follower"]
    /\ \A c \in voteCalls' : c \in voteCalls \/ (IsVoteCall(c) /\ c.stage = "orphaned")
    /\ votesReceived' \subseteq votesReceived
    /\ \A v \in votesReceived : state'[v[1]] = "leader" => v \in votesReceived'

\* Such a step keeps every vote cast and elects nobody.
LEMMA QuietStep ==
    ASSUME ElectionInv, NEW n \in Node, Quiet(n),
           running' \in [Node -> BOOLEAN], \A c \in appendCalls' : IsAppendCall(c)
    PROVE  ElectionInv'
<1> USE DEF ElectionInv
<1>1. /\ currentTerm' \in [Node -> Nat]
      /\ votedFor' \in [Node -> Node \cup {None}]
      /\ state' \in [Node -> NodeState]
  BY DEF Quiet, ElectionTypeOK, NodeState
<1>2. ElectionTypeOK'
  <2>1. votesReceived' \subseteq Node \X Nat \X Node /\ \A c \in voteCalls' : IsVoteCall(c)
    BY DEF Quiet, ElectionTypeOK
  <2>2. QED
    BY <1>1, <2>1 DEF ElectionTypeOK, IsVoteCall, IsAppendCall
<1>3. \A m \in Node :
         \/ /\ currentTerm'[m] = currentTerm[m] /\ votedFor'[m] = votedFor[m]
            /\ state'[m] \in {state[m], "follower"}
         \/ currentTerm'[m] > currentTerm[m] /\ state'[m] = "follower"
  BY DEF Quiet, ElectionTypeOK
<1>4. Ballots' \subseteq Ballots
  BY DEF Quiet, Ballots
<1>5. \A b \in Ballots : b[1] \in Node /\ b[2] \in Nat /\ b[3] \in Node
  BY DEF Ballots, ElectionTypeOK, IsVoteCall
<1>6. BallotsWereCast'
  BY <1>1, <1>3, <1>4, <1>5 DEF BallotsWereCast, Cast, ElectionTypeOK
<1>7. OneVotePerTerm'
  BY <1>4 DEF OneVotePerTerm
<1>8. ASSUME Timely PROVE LeadersWereElected'
  <2> SUFFICES ASSUME NEW m \in Node, state'[m] = "leader"
               PROVE  IsMajority(VotesOf(m, currentTerm[m])')
    BY DEF LeadersWereElected, IsMajority
  <2>1. state[m] = "leader" /\ currentTerm'[m] = currentTerm[m]
    BY <1>3
  <2>2. VotesOf(m, currentTerm[m])' = VotesOf(m, currentTerm[m])
    BY <2>1 DEF VotesOf, Quiet
  <2>3. QED
    BY <1>8, <2>1, <2>2 DEF LeadersWereElected
<1>9. ASSUME Timely PROVE CallsAreCurrent'
  BY <1>9, <1>1, <1>3 DEF CallsAreCurrent, Quiet, ElectionTypeOK, IsVoteCall
<1>10. QED
  BY <1>2, <1>6, <1>7, <1>8, <1>9

\* handle_request_vote: a vote is granted in the voter's present term, to the
\* candidate it has voted for already or, if it has not voted, to any.
LEMMA HandleRequestVoteStep ==
    ASSUME ElectionInv, NEW c \in voteCalls, HandleRequestVote(c)
    PROVE  ElectionInv'
<1> USE DEF ElectionInv
<1> DEFINE n == c.to
           grant == /\ ~(c.term < currentTerm[n])
                    /\ CanVote(n, c.term, c.from)
                    /\ AtLeastAsFresh(c.lastLogTerm, c.lastLogIndex,
                                      LastTerm(log[n]), LogLen(log[n]))
           d == [c EXCEPT !.stage = "answered", !.granted = grant,
                          !.replyTerm = TermAfter(n, c.term)]
<1>1. IsVoteCall(c) /\ n \in Node /\ c.from \in Node /\ c.term \in Nat
  BY DEF ElectionTypeOK, IsVoteCall
<1>2. /\ currentTerm' = [currentTerm EXCEPT ![n] = TermAfter(n, c.term)]
      /\ state' = [state EXCEPT ![n] = RoleAfter(n, c.term)]
      /\ votedFor' = [votedFor EXCEPT ![n] = IF grant THEN c.from ELSE VoteAfter(n, c.term)]
      /\ voteCalls' \subseteq (voteCalls \ {c}) \cup {d}
      /\ d \in voteCalls' => c.stage = "sent" \/ d \in voteCalls
      /\ UNCHANGED <<running, votesReceived, appendCalls>>
  BY DEF HandleRequestVote
<1>3. TermAfter(n, c.term) \in Nat /\ TermAfter(n, c.term) >= currentTerm[n]
  BY <1>1 DEF TermAfter, ElectionTypeOK
<1>4. grant \in BOOLEAN
  BY DEF CanVote, AtLeastAsFresh
<1>5. /\ DOMAIN d = DOMAIN c
      /\ d.from = c.from /\ d.to = n /\ d.term = c.term
      /\ d.granted = grant /\ d.stage = "answered" /\ d.replyTerm = TermAfter(n, c.term)
  <2> HIDE DEF grant
  <2>1. QED
    BY <1>1, <1>4 DEF IsVoteCall
<1> HIDE DEF d
<1>6. ElectionTypeOK'
  <2>1. IsVoteCall(d)
    BY <1>1, <1>3, <1>4, <1>5 DEF IsVoteCall, Stage
  <2>2. /\ currentTerm' \in [Node -> Nat]
        /\ votedFor' \in [Node -> Node \cup {None}]
        /\ state' \in [Node -> NodeState]
    BY <1>1, <1>2, <1>3 DEF ElectionTypeOK, NodeState, RoleAfter, VoteAfter
  <2>3. (\A e \in voteCalls' : IsVoteCall(e)) /\ (\A e \in appendCalls' : IsAppendCall(e))
    BY <1>2, <2>1 DEF ElectionTypeOK
  <2>4. QED
    BY <1>2, <2>2, <2>3 DEF ElectionTypeOK, IsVoteCall, IsAppendCall
<1>7. \A b \in Ballots : b[1] \in Node /\ b[2] \in Nat /\ b[3] \in Node
  BY DEF Ballots, ElectionTypeOK, IsVoteCall
<1>8. Ballots' \subseteq Ballots \cup (IF grant THEN {<<c.from, c.term, n>>} ELSE {})
  BY <1>2, <1>5 DEF Ballots
<1>9. ASSUME grant PROVE /\ TermAfter(n, c.term) = c.term
                         /\ VoteAfter(n, c.term) \in {None, c.from}
  BY <1>9, <1>1 DEF CanVote, TermAfter, ElectionTypeOK
<1>10. \A b \in Ballots : b[3] = n /\ b[2] = c.term /\ grant => b[1] = c.from
  <2> SUFFICES ASSUME NEW b \in Ballots, b[3] = n, b[2] = c.term, grant PROVE b[1] = c.from
    OBVIOUS
  <2>1. Cast(b[1], c.term, n)
    BY DEF BallotsWereCast
  <2>2. currentTerm[n] = c.term /\ votedFor[n] = b[1]
    BY <2>1, <1>1, <1>9, <1>3 DEF Cast, TermAfter, ElectionTypeOK
  <2>3. VoteAfter(n, c.term) = b[1]
    BY <2>2, <1>1 DEF VoteAfter, ElectionTypeOK
  <2>4. QED
    BY <2>3, <1>7, <1>9, RaftAssumption
<1>11. BallotsWereCast'
  <2> SUFFICES ASSUME NEW b \in Ballots' PROVE Cast(b[1], b[2], b[3])'
    BY DEF BallotsWereCast
  <2>1. CASE grant /\ b = <<c.from, c.term, n>>
    BY <2>1, <1>1, <1>2, <1>9 DEF Cast, ElectionTypeOK
  <2>2. CASE b \in Ballots
    <3>1. Cast(b[1], b[2], b[3])
      BY <2>2 DEF BallotsWereCast
    <3>2. CASE b[3] # n
      BY <3>1, <3>2, <2>2, <1>2, <1>7 DEF Cast, ElectionTypeOK
    <3>3. CASE b[3] = n /\ currentTerm[n] > b[2]
      BY <3>3, <2>2, <1>1, <1>2, <1>3, <1>7 DEF Cast, ElectionTypeOK
    <3>4. CASE b[3] = n /\ currentTerm[n] = b[2] /\ votedFor[n] = b[1]
      <4>1. CASE c.term > b[2]
        BY <4>1, <3>4, <2>2, <1>1, <1>2, <1>7 DEF Cast, TermAfter, ElectionTypeOK
      <4>2. CASE ~(c.term > b[2])
        <5>1. TermAfter(n, c.term) = b[2] /\ VoteAfter(n, c.term) = b[1]
          BY <4>2, <3>4, <1>1 DEF TermAfter, VoteAfter
        <5>2. grant => b[1] = c.from
          BY <5>1, <2>2, <1>7, <1>9, RaftAssumption
        <5>3. votedFor'[n] = b[1] /\ currentTerm'[n] = b[2]
          BY <5>1, <5>2, <1>1, <1>2 DEF ElectionTypeOK
        <5>4. QED
          BY <5>3, <3>4 DEF Cast
      <4>3. QED
        BY <4>1, <4>2
    <3>5. QED
      BY <3>1, <3>2, <3>3, <3>4 DEF Cast
  <2>3. QED
    BY <2>1, <2>2, <1>8
<1>12. OneVotePerTerm'
  BY <1>8, <1>10 DEF OneVotePerTerm
<1>13. ASSUME Timely PROVE LeadersWereElected'
  <2> SUFFICES ASSUME NEW m \in Node, state'[m] = "leader"
               PROVE  IsMajority(VotesOf(m, currentTerm[m])')
    BY DEF LeadersWereElected, IsMajority
  <2>1. state[m] = "leader" /\ currentTerm'[m] = currentTerm[m]
    BY <1>1, <1>2 DEF ElectionTypeOK, RoleAfter, TermAfter
  <2>2. VotesOf(m, currentTerm[m])' = VotesOf(m, currentTerm[m])
    BY <2>1, <1>2 DEF VotesOf
  <2>3. QED
    BY <1>13, <2>1, <2>2 DEF LeadersWereElected
<1>14. ASSUME Timely PROVE CallsAreCurrent'
  <2>1. \A m \in Node : state'[m] = "candidate" =>
           state[m] = "candidate" /\ currentTerm'[m] = currentTerm[m]
    BY <1>1, <1>2 DEF ElectionTypeOK, RoleAfter, TermAfter
  <2>2. QED
    BY <1>14, <2>1, <1>1, <1>2, <1>5 DEF CallsAreCurrent, ElectionTypeOK, IsVoteCall
<1>15. QED
  BY <1>6, <1>11, <1>12, <1>13, <1>14

\* _request_vote_worker: only a majority of the votes of its present term
\* turns a candidate into a leader.
LEMMA RequestVoteReplyStep ==
    ASSUME ElectionInv, NEW c \in voteCalls, RequestVoteReply(c)
    PROVE  ElectionInv'
<1> DEFINE n == c.from
<1>1. IsVoteCall(c) /\ n \in Node /\ c.to \in Node
  BY DEF ElectionInv, ElectionTypeOK, IsVoteCall
<1>2. /\ c.stage = "answered"
      /\ voteCalls' = voteCalls \ {c}
      /\ UNCHANGED <<running, appendCalls>>
  BY DEF RequestVoteReply
<1>3. /\ running' \in [Node -> BOOLEAN]
      /\ \A e \in appendCalls' : IsAppendCall(e)
  BY <1>2 DEF ElectionInv, ElectionTypeOK
<1>4. CASE UNCHANGED <<currentTerm, votedFor, state, votesReceived>>
  <2>1. Quiet(n)
    BY <1>2, <1>4 DEF Quiet
  <2>2. QED
    BY <2>1, <1>1, <1>3, QuietStep
<1>5. CASE c.replyTerm > currentTerm[n] /\ UpdateTerm(n, c.replyTerm) /\ UNCHANGED votesReceived
  <2>1. Quiet(n)
    BY <1>1, <1>2, <1>5 DEF Quiet, UpdateTerm, IsVoteCall
  <2>2. QED
    BY <2>1, <1>1, <1>3, QuietStep
<1>6. CASE /\ state[n] = "candidate"
           /\ c.granted
           /\ votesReceived' = votesReceived \cup {<<n, c.term, c.to>>}
           /\ IF IsMajority(VotesOf(n, c.term) \cup {c.to})
              THEN state' = [state EXCEPT ![n] = "leader"]
              ELSE state' = state
           /\ UNCHANGED <<currentTerm, votedFor>>
  <2>1. (Timely => c.term = currentTerm[n]) /\ c.term \in Nat
    BY <1>1, <1>2, <1>6 DEF ElectionInv, CallsAreCurrent, IsVoteCall
  <2>2. Ballots' \subseteq Ballots
    BY <1>2, <1>6 DEF Ballots
  <2>3. ElectionTypeOK'
    <3>1. votesReceived' \subseteq Node \X Nat \X Node /\ \A e \in voteCalls' : IsVoteCall(e)
      BY <1>1, <1>2, <1>6, <2>1 DEF ElectionInv, ElectionTypeOK
    <3>2. state' \in [Node -> NodeState]
      BY <1>6 DEF ElectionInv, ElectionTypeOK, NodeState
    <3>3. QED
      BY <3>1, <3>2, <1>2, <1>3, <1>6 DEF ElectionInv, ElectionTypeOK, IsVoteCall, IsAppendCall
  <2>4. BallotsWereCast' /\ OneVotePerTerm'
    BY <2>2, <1>6 DEF ElectionInv, BallotsWereCast, OneVotePerTerm, Cast
  <2>5. ASSUME Timely PROVE LeadersWereElected'
    <3> SUFFICES ASSUME NEW m \in Node, state'[m] = "leader"
                 PROVE  IsMajority(VotesOf(m, currentTerm[m])')
      BY DEF LeadersWereElected, IsMajority
    <3>1. CASE m # n
      <4>1. state[m] = "leader"
        BY <3>1, <1>6 DEF ElectionInv, ElectionTypeOK
      <4>2. VotesOf(m, currentTerm[m])' = VotesOf(m, currentTerm[m])
        BY <3>1, <1>6 DEF VotesOf
      <4>3. QED
        BY <2>5, <4>1, <4>2 DEF ElectionInv, LeadersWereElected
    <3>2. CASE m = n
      <4>1. IsMajority(VotesOf(n, c.term) \cup {c.to})
        BY <3>2, <1>6
      <4>2. VotesOf(m, currentTerm[m])' = VotesOf(n, c.term) \cup {c.to}
        BY <2>5, <3>2, <1>1, <1>6, <2>1 DEF VotesOf
      <4>3. QED
        BY <4>1, <4>2
    <3>3. QED
      BY <3>1, <3>2
  <2>6. ASSUME Timely PROVE CallsAreCurrent'
    BY <2>6, <1>1, <1>2, <1>6 DEF ElectionInv, ElectionTypeOK, IsVoteCall, CallsAreCurrent
  <2>7. QED
    BY <2>3, <2>4, <2>5, <2>6 DEF ElectionInv
<1>7. QED
  BY <1>4, <1>5, <1>6 DEF RequestVoteReply, BecomeLeader

\* Every other step is quiet for some node.
LEMMA HandleAppendEntriesStep ==
    ASSUME ElectionInv, NEW c \in appendCalls, HandleAppendEntries(c)
    PROVE  ElectionInv'
<1> DEFINE n == c.to
<1>1. IsAppendCall(c) /\ n \in Node /\ c.term \in Nat /\ currentTerm[n] \in Nat
  BY DEF ElectionInv, ElectionTypeOK, IsAppendCall
<1>2. UNCHANGED <<running, votesReceived, voteCalls>>
  BY DEF HandleAppendEntries
<1>3. \A e \in appendCalls' : IsAppendCall(e)
  <2>1. PICK t \in Nat, b \in BOOLEAN : AnswerAppend(c, t, b)
    BY <1>1 DEF HandleAppendEntries
  <2>2. QED
    BY <2>1, <1>1 DEF ElectionInv, ElectionTypeOK, AnswerAppend, IsAppendCall
<1>4. Quiet(n)
  <2>1. CASE UNCHANGED <<currentTerm, votedFor, state>>
    BY <2>1, <1>2 DEF Quiet
  <2>2. CASE /\ c.term >= currentTerm[n]
             /\ currentTerm' = [currentTerm EXCEPT ![n] = TermAfter(n, c.term)]
             /\ votedFor' = [votedFor EXCEPT ![n] = VoteAfter(n, c.term)]
             /\ state' = [state EXCEPT ![n] = RoleAfter(n, c.term)]
    <3>1. CASE c.term = currentTerm[n]
      <4>1. /\ TermAfter(n, c.term) = currentTerm[n]
            /\ VoteAfter(n, c.term) = votedFor[n]
            /\ RoleAfter(n, c.term) = state[n]
        BY <3>1, <1>1 DEF TermAfter, VoteAfter, RoleAfter
      <4>2. UNCHANGED <<currentTerm, votedFor, state>>
        BY <4>1, <2>2, <1>1 DEF ElectionInv, ElectionTypeOK
      <4>3. QED
        BY <4>2, <1>2 DEF Quiet
    <3>2. CASE c.term > currentTerm[n]
      BY <3>2, <2>2, <1>1, <1>2 DEF Quiet, TermAfter, VoteAfter, RoleAfter
    <3>3. QED
      BY <3>1, <3>2, <2>2, <1>1
  <2>3. QED
    BY <2>1, <2>2 DEF HandleAppendEntries
<1>5. QED
  BY <1>1, <1>2, <1>3, <1>4, QuietStep DEF ElectionInv, ElectionTypeOK

\* A reply to AppendEntries can only depose the leader that reads it.
LEMMA AppendEntriesReplyStep ==
    ASSUME ElectionInv, NEW c \in appendCalls, AppendEntriesReply(c)
    PROVE  ElectionInv'
<1> DEFINE n == c.from
<1>1. IsAppendCall(c) /\ n \in Node /\ c.replyTerm \in Nat
  BY DEF ElectionInv, ElectionTypeOK, IsAppendCall
<1>2. UNCHANGED <<running, votesReceived, voteCalls>> /\ appendCalls' \subseteq appendCalls
  BY DEF AppendEntriesReply
<1>3. Quiet(n)
  <2>1. CASE UNCHANGED <<currentTerm, votedFor, state>>
    BY <2>1, <1>2 DEF Quiet
  <2>2. CASE c.replyTerm > currentTerm[n] /\ UpdateTerm(n, c.replyTerm)
    BY <2>2, <1>1, <1>2 DEF Quiet, UpdateTerm
  <2>3. QED
    BY <2>1, <2>2 DEF AppendEntriesReply
<1>4. QED
  BY <1>1, <1>2, <1>3, QuietStep DEF ElectionInv, ElectionTypeOK

\* A restart keeps term and vote, and what the old object counted is gone.
LEMMA RestartStep ==
    ASSUME ElectionInv, NEW n \in Node, Restart(n)
    PROVE  ElectionInv'
<1>1. /\ running' = [running EXCEPT ![n] = TRUE]
      /\ state' = [state EXCEPT ![n] = "follower"]
      /\ votesReceived' = {v \in votesReceived : v[1] # n}
      /\ voteCalls' = Orphaned(voteCalls, n) /\ appendCalls' = Orphaned(appendCalls, n)
      /\ UNCHANGED <<currentTerm, votedFor>>
  BY DEF Restart
<1>2. \A c \in voteCalls' : c \in voteCalls \/ (IsVoteCall(c) /\ c.stage = "orphaned")
  <2> SUFFICES ASSUME NEW c \in voteCalls', c \notin voteCalls
               PROVE  IsVoteCall(c) /\ c.stage = "orphaned"
    OBVIOUS
  <2>1. PICK d \in voteCalls : c = [d EXCEPT !.stage = "orphaned"]
    BY <1>1 DEF Orphaned
  <2>2. IsVoteCall(d)
    BY DEF ElectionInv, ElectionTypeOK
  <2>3. /\ DOMAIN c = DOMAIN d /\ c.stage = "orphaned"
        /\ c.from = d.from /\ c.to = d.to /\ c.term = d.term
        /\ c.replyTerm = d.replyTerm /\ c.granted = d.granted
    BY <2>1, <2>2 DEF IsVoteCall
  <2>4. QED
    BY <2>2, <2>3 DEF IsVoteCall, Stage
<1>3. \A c \in appendCalls' : IsAppendCall(c)
  <2> SUFFICES ASSUME NEW c \in appendCalls', c \notin appendCalls
               PROVE  IsAppendCall(c)
    BY DEF ElectionInv, ElectionTypeOK
  <2>1. PICK d \in appendCalls : c = [d EXCEPT !.stage = "orphaned"]
    BY <1>1 DEF Orphaned
  <2>2. IsAppendCall(d)
    BY DEF ElectionInv, ElectionTypeOK
  <2>3. /\ DOMAIN c = DOMAIN d
        /\ c.from = d.from /\ c.to = d.to /\ c.term = d.term /\ c.replyTerm = d.replyTerm
    BY <2>1, <2>2 DEF IsAppendCall
  <2>4. QED
    BY <2>2, <2>3 DEF IsAppendCall
<1>4. Quiet(n)
  BY <1>1, <1>2 DEF Quiet, ElectionInv, ElectionTypeOK
<1>5. QED
  BY <1>1, <1>3, <1>4, QuietStep DEF ElectionInv, ElectionTypeOK

\* Steps that leave terms, votes and roles alone.
LEMMA OtherStep ==
    ASSUME ElectionInv, NEW n \in Node,
           UNCHANGED <<currentTerm, votedFor, state, votesReceived>>,
           voteCalls' \subseteq voteCalls,
           running' \in [Node -> BOOLEAN], \A c \in appendCalls' : IsAppendCall(c)
    PROVE  ElectionInv'
<1>1. Quiet(n)
  BY DEF Quiet
<1>2. QED
  BY <1>1, QuietStep

\* A new AppendEntries call has the shape of a call and disturbs no vote.
LEMMA AppendEntriesCallStep ==
    ASSUME ElectionInv, NEW n \in Node, NEW p \in Node, AppendEntriesCall(n, p)
    PROVE  ElectionInv'
<1>1. PICK c : /\ appendCalls' = appendCalls \cup {c}
               /\ c = [from |-> n, to |-> p, term |-> currentTerm[n],
                       prevLogIndex |-> nextIndex[n][p] - 1,
                       prevLogTerm |-> GetTerm(log[n], nextIndex[n][p] - 1),
                       entries |-> GetEntries(log[n], nextIndex[n][p]),
                       leaderCommit |-> CommitIndex(n),
                       success |-> FALSE, replyTerm |-> 0, stage |-> "sent"]
  BY DEF AppendEntriesCall
<1>2. DOMAIN c = {"from", "to", "term", "prevLogIndex", "prevLogTerm", "entries",
                  "leaderCommit", "success", "replyTerm", "stage"}
  BY <1>1
<1>3. c.from = n /\ c.to = p /\ c.term = currentTerm[n] /\ c.replyTerm = 0
  BY <1>1
<1>4. IsAppendCall(c)
  BY <1>2, <1>3 DEF IsAppendCall, ElectionInv, ElectionTypeOK
<1>5. QED
  BY <1>1, <1>4, OtherStep DEF AppendEntriesCall, ElectionInv, ElectionTypeOK, electionVars

\* Nor does an answer the transport makes up.
LEMMA AppendEntriesUnreachableStep ==
    ASSUME ElectionInv, NEW c \in appendCalls, AppendEntriesUnreachable(c)
    PROVE  ElectionInv'
<1>1. IsAppendCall(c) /\ c.from \in Node
  BY DEF ElectionInv, ElectionTypeOK, IsAppendCall
<1>2. \A e \in appendCalls' : IsAppendCall(e)
  <2> DEFINE d == [c EXCEPT !.stage = "answered", !.replyTerm = 0, !.success = FALSE]
  <2>1. appendCalls' \subseteq (appendCalls \ {c}) \cup {d}
    BY DEF AppendEntriesUnreachable, AnswerAppend
  <2>2. DOMAIN d = DOMAIN c /\ d.from = c.from /\ d.to = c.to /\ d.term = c.term /\ d.replyTerm = 0
    BY <1>1 DEF IsAppendCall
  <2>3. IsAppendCall(d)
    BY <1>1, <2>2 DEF IsAppendCall
  <2>4. QED
    BY <2>1, <2>3 DEF ElectionInv, ElectionTypeOK
<1>3. QED
  BY <1>1, <1>2, OtherStep DEF AppendEntriesUnreachable, electionVars, ElectionInv, ElectionTypeOK

-------------------------------------------------------------------------------
(* The theorems.                                                             *)

\* Every action of a node keeps the invariant.
LEMMA NextElectionInv == ElectionInv /\ [Next]_vars => ElectionInv'
<1> SUFFICES ASSUME ElectionInv, [Next]_vars PROVE ElectionInv'
  OBVIOUS
<1>1. ASSUME NEW n \in Node, ElectionTimeout(n) PROVE ElectionInv'
  BY <1>1, ElectionTimeoutStep
<1>2. ASSUME NEW c \in voteCalls, HandleRequestVote(c) PROVE ElectionInv'
  BY <1>2, HandleRequestVoteStep
<1>3. ASSUME NEW c \in voteCalls, RequestVoteReply(c) PROVE ElectionInv'
  BY <1>3, RequestVoteReplyStep
<1>4. ASSUME NEW c \in voteCalls, RequestVoteLost(c) PROVE ElectionInv'
  BY <1>4, OtherStep DEF RequestVoteLost, ElectionInv, ElectionTypeOK, IsVoteCall
<1>5. ASSUME NEW n \in Node, NEW cmd \in Command, SubmitCommand(n, cmd) PROVE ElectionInv'
  BY <1>5, OtherStep DEF SubmitCommand, electionVars, ElectionInv, ElectionTypeOK
<1>6. ASSUME NEW n \in Node, NEW p \in Node, AppendEntriesCall(n, p) PROVE ElectionInv'
  BY <1>6, AppendEntriesCallStep
<1>7. ASSUME NEW c \in appendCalls, HandleAppendEntries(c) PROVE ElectionInv'
  BY <1>7, HandleAppendEntriesStep
<1>8. ASSUME NEW c \in appendCalls, AppendEntriesUnreachable(c) PROVE ElectionInv'
  BY <1>8, AppendEntriesUnreachableStep
<1>9. ASSUME NEW c \in appendCalls, AppendEntriesLost(c) PROVE ElectionInv'
  BY <1>9, OtherStep DEF AppendEntriesLost, electionVars, ElectionInv, ElectionTypeOK, IsAppendCall
<1>10. ASSUME NEW c \in appendCalls, AppendEntriesReply(c) PROVE ElectionInv'
  BY <1>10, AppendEntriesReplyStep
<1>11. ASSUME NEW n \in Node, Stop(n) PROVE ElectionInv'
  BY <1>11, OtherStep DEF Stop, electionVars, ElectionInv, ElectionTypeOK
<1>12. ASSUME NEW n \in Node, Restart(n) PROVE ElectionInv'
  BY <1>12, RestartStep
<1>13. ASSUME UNCHANGED vars PROVE ElectionInv'
  <2>1. /\ UNCHANGED <<running, currentTerm, votedFor, state, votesReceived,
                       voteCalls, appendCalls>>
        /\ Ballots' = Ballots
    BY <1>13 DEF vars, electionVars, Ballots
  <2>2. /\ ElectionTypeOK'
        /\ Timely => LeadersWereElected' /\ CallsAreCurrent'
    BY <2>1 DEF ElectionInv, ElectionTypeOK, LeadersWereElected, CallsAreCurrent, VotesOf,
                IsMajority, IsVoteCall, IsAppendCall
  <2>3. QED
    BY <2>1, <2>2 DEF ElectionInv, BallotsWereCast, OneVotePerTerm, Cast
<1>14. QED
  BY <1>1, <1>2, <1>3, <1>4, <1>5, <1>6, <1>7, <1>8, <1>9, <1>10, <1>11, <1>12, <1>13 DEF Next

\* Terms, votes, roles and calls keep their types, whatever happens to the
\* calls in flight: every assignment to current_term, voted_for and state.
THEOREM ElectionTypes == Spec => []ElectionTypeOK
<1>1. ElectionInv => ElectionTypeOK
  BY DEF ElectionInv
<1>2. QED
  BY <1>1, InitElectionInv, NextElectionInv, PTL DEF Spec

\* "Split-brain prevention": if every call is over before its caller's next
\* election, two nodes never lead the same term, whatever the cluster's size
\* and whatever is lost, delayed or restarted (_request_vote_worker,
\* handle_request_vote, __init__).
THEOREM ElectionIsSafe == ASSUME Timely PROVE Spec => []ElectionSafety
<1>1. ElectionInv => ElectionSafety
  BY ElectionInvImpliesSafety
<1>2. QED
  BY <1>1, InitElectionInv, NextElectionInv, PTL DEF Spec

\* A step changes a node's vote only together with its term, and its term
\* only upwards (_update_term, _start_election, handle_request_vote).
LEMMA VoteStep ==
    ASSUME ElectionTypeOK, [Next]_vars
    PROVE  \A n \in Node :
              /\ currentTerm[n] <= currentTerm'[n]
              /\ currentTerm[n] = currentTerm'[n] /\ votedFor[n] # None => votedFor'[n] = votedFor[n]
<1> DEFINE Final == \A n \in Node :
              /\ currentTerm[n] <= currentTerm'[n]
              /\ currentTerm[n] = currentTerm'[n] /\ votedFor[n] # None => votedFor'[n] = votedFor[n]
<1>1. CASE UNCHANGED <<currentTerm, votedFor>>
  BY <1>1 DEF ElectionTypeOK
<1>2. ASSUME NEW n \in Node, NEW t \in Nat, UpdateTerm(n, t), t > currentTerm[n]
      PROVE  Final
  BY <1>2 DEF UpdateTerm, ElectionTypeOK
<1>3. ASSUME NEW n \in Node, ElectionTimeout(n) PROVE Final
  BY <1>3 DEF ElectionTimeout, ElectionTypeOK
<1>4. ASSUME NEW c \in voteCalls, HandleRequestVote(c) PROVE Final
  <2>1. c.to \in Node /\ c.term \in Nat /\ currentTerm[c.to] \in Nat
    BY DEF ElectionTypeOK, IsVoteCall
  <2>2. /\ currentTerm' = [currentTerm EXCEPT ![c.to] = TermAfter(c.to, c.term)]
        /\ \/ votedFor' = [votedFor EXCEPT ![c.to] = VoteAfter(c.to, c.term)]
           \/ /\ CanVote(c.to, c.term, c.from)
              /\ votedFor' = [votedFor EXCEPT ![c.to] = c.from]
    BY <1>4 DEF HandleRequestVote
  <2>3. QED
    BY <2>1, <2>2 DEF ElectionTypeOK, TermAfter, VoteAfter, CanVote
<1>5. ASSUME NEW c \in voteCalls, RequestVoteReply(c) PROVE Final
  <2>1. c.from \in Node /\ c.replyTerm \in Nat
    BY DEF ElectionTypeOK, IsVoteCall
  <2>2. QED
    BY <2>1, <1>1, <1>2, <1>5 DEF RequestVoteReply
<1>6. ASSUME NEW c \in appendCalls, HandleAppendEntries(c) PROVE Final
  <2>1. c.to \in Node /\ c.term \in Nat /\ currentTerm[c.to] \in Nat
    BY DEF ElectionTypeOK, IsAppendCall
  <2>2. \/ UNCHANGED <<currentTerm, votedFor>>
        \/ /\ currentTerm' = [currentTerm EXCEPT ![c.to] = TermAfter(c.to, c.term)]
           /\ votedFor' = [votedFor EXCEPT ![c.to] = VoteAfter(c.to, c.term)]
    BY <1>6 DEF HandleAppendEntries
  <2>3. QED
    BY <2>1, <2>2, <1>1 DEF ElectionTypeOK, TermAfter, VoteAfter
<1>7. ASSUME NEW c \in appendCalls, AppendEntriesReply(c) PROVE Final
  <2>1. c.from \in Node /\ c.replyTerm \in Nat
    BY DEF ElectionTypeOK, IsAppendCall
  <2>2. QED
    BY <2>1, <1>1, <1>2, <1>7 DEF AppendEntriesReply
<1>8. QED
  BY <1>1, <1>3, <1>4, <1>5, <1>6, <1>7
     DEF Next, vars, electionVars, RequestVoteLost, SubmitCommand, AppendEntriesCall,
         AppendEntriesUnreachable, AppendEntriesLost, Stop, Restart

\* A node never votes twice in a term and never goes back to an earlier one,
\* restarts included, however late the replies are.
THEOREM VotesAreFinal == Spec => VoteIsFinal
<1>1. ElectionTypeOK /\ [Next]_vars =>
        [\A n \in Node :
            /\ currentTerm[n] <= currentTerm'[n]
            /\ currentTerm[n] = currentTerm'[n] /\ votedFor[n] # None => votedFor'[n] = votedFor[n]
        ]_vars
  BY VoteStep
<1>2. QED
  BY <1>1, ElectionTypes, PTL DEF Spec, VoteIsFinal
===============================================================================
