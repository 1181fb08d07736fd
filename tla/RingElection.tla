--------------------------- MODULE RingElection ---------------------------
(***************************************************************************)
(* src/leader-election/src/ring_algorithm.py on the local transport.  A    *)
(* token collects the nodes it passes; who meets a token that already      *)
(* lists him ends the round and sends the winner around.                   *)
(*                                                                         *)
(* Of the list a token carries only the members matter (the code asks for  *)
(* membership and maximum).  The ring is fixed at construction and never   *)
(* skips a node that has stopped: messages for such a node are dropped.    *)
(***************************************************************************)
EXTENDS Naturals, FiniteSets, FiniteSetsExt

CONSTANTS
  RingNodes,    \* ids; the ring is in their order
  RingMayStop,  \* the nodes on which stop() may be called
  RingTriggers  \* the nodes on which trigger_election() is called

ASSUME RingAssumption ==
  /\ RingNodes \subseteq Nat \ {0}
  /\ IsFiniteSet(RingNodes)
  /\ RingNodes # {}

NoWinner == 0   \* None

VARIABLES
  rState,     \* "new", "running", "stopped"
  rLeads,     \* is_leader_flag
  rLeader,    \* current_leader
  rElecting,  \* in_election
  rTokens,    \* "election" messages on their way
  rElected    \* "elected" messages on their way

ringVars == <<rState, rLeads, rLeader, rElecting, rTokens, rElected>>

RingTypeOK ==
  /\ rState \in [RingNodes -> {"new", "running", "stopped"}]
  /\ rLeads \in [RingNodes -> BOOLEAN]
  /\ rLeader \in [RingNodes -> RingNodes \cup {NoWinner}]
  /\ rElecting \in [RingNodes -> BOOLEAN]
  /\ rTokens \subseteq [to : RingNodes, candidates : SUBSET RingNodes]
  /\ rElected \subseteq [to : RingNodes, winner : RingNodes, sender : RingNodes]

RingInit ==
  /\ rState = [n \in RingNodes |-> "new"]
  /\ rLeads = [n \in RingNodes |-> FALSE]
  /\ rLeader = [n \in RingNodes |-> NoWinner]
  /\ rElecting = [n \in RingNodes |-> FALSE]
  /\ rTokens = {}
  /\ rElected = {}

\* next_node: the successor in the sorted ring
NextNode(n) ==
  LET after == {m \in RingNodes : m > n}
  IN  IF after = {} THEN Min(RingNodes) ELSE Min(after)

RingUp(n) == rState[n] = "running"

\* transport.send towards a node that runs, or to nobody
ToNext(n, m) == IF rState'[NextNode(n)] = "running" THEN {m} ELSE {}

Token(n, members) == ToNext(n, [to |-> NextNode(n), candidates |-> members])
Announcement(n, w, sender) == ToNext(n, [to |-> NextNode(n), winner |-> w, sender |-> sender])

\* The leader flag and the leader at n once it knows the winner
\* (_election_complete, or the middle of handle_elected_message)
Settle(n, w) ==
  /\ rElecting' = [rElecting EXCEPT ![n] = FALSE]
  /\ rLeader' = [rLeader EXCEPT ![n] = w]
  /\ rLeads' = [rLeads EXCEPT ![n] = (w = n)]

\* _start_election, with _send_election_message
RingElect(n) ==
  \/ /\ rElecting[n]
     /\ UNCHANGED <<rLeads, rLeader, rElecting, rTokens>>
  \/ /\ ~rElecting[n]
     /\ IF NextNode(n) = n
        THEN Settle(n, n) /\ UNCHANGED rTokens
        ELSE /\ rElecting' = [rElecting EXCEPT ![n] = TRUE]
             /\ rTokens' = rTokens \cup Token(n, {n})
             /\ UNCHANGED <<rLeads, rLeader>>

RingStart(n) ==
  /\ rState[n] = "new"
  /\ rState' = [rState EXCEPT ![n] = "running"]
  /\ RingElect(n)
  /\ UNCHANGED rElected

\* stop: what is on its way to n is dropped when it arrives
RingStop(n) ==
  /\ n \in RingMayStop
  /\ RingUp(n)
  /\ rState' = [rState EXCEPT ![n] = "stopped"]
  /\ rLeads' = [rLeads EXCEPT ![n] = FALSE]
  /\ rTokens' = {m \in rTokens : m.to # n}
  /\ rElected' = {m \in rElected : m.to # n}
  /\ UNCHANGED <<rLeader, rElecting>>

\* trigger_election
RingTrigger(n) ==
  /\ n \in RingTriggers
  /\ RingUp(n)
  /\ UNCHANGED <<rState, rElected>>
  /\ RingElect(n)

\* _monitor_leader: there are no heartbeats, so a leader that stopped is never missed
RingMonitor(n) ==
  /\ RingUp(n)
  /\ rLeader[n] = NoWinner /\ ~rElecting[n]
  /\ UNCHANGED <<rState, rElected>>
  /\ RingElect(n)

\* Variant: a token also ends at a node in election
EndsRoundEarly(n, m) == n \in m.candidates \/ rElecting[n]

\* The token has come around
EndsRound(n, m) == n \in m.candidates

\* handle_election_message
HandleToken(n) ==
  \E m \in rTokens :
    /\ m.to = n
    /\ UNCHANGED rState
    /\ \/ /\ EndsRound(n, m)
          /\ Settle(n, Max(m.candidates))
          /\ rTokens' = rTokens \ {m}
          /\ rElected' = rElected \cup Announcement(n, Max(m.candidates), n)
       \/ /\ ~EndsRound(n, m)
          /\ rElecting' = [rElecting EXCEPT ![n] = TRUE]
          /\ rTokens' = (rTokens \ {m}) \cup Token(n, m.candidates \cup {n})
          /\ UNCHANGED <<rLeads, rLeader, rElected>>

\* Variant: the announcement ends with the winner
ReturnsToWinner(n, m) == m.winner = n

\* The announcement is back where it began
Returns(n, m) == m.sender = n

\* handle_elected_message
HandleElected(n) ==
  \E m \in rElected :
    /\ m.to = n
    /\ UNCHANGED <<rState, rTokens>>
    /\ \/ /\ Returns(n, m)
          /\ rElected' = rElected \ {m}
          /\ UNCHANGED <<rLeads, rLeader, rElecting>>
       \/ /\ ~Returns(n, m)
          /\ Settle(n, m.winner)
          /\ rElected' = (rElected \ {m}) \cup Announcement(n, m.winner, m.sender)

RingNext ==
  \E n \in RingNodes :
    \/ RingStart(n) \/ RingStop(n) \/ RingTrigger(n) \/ RingMonitor(n)
    \/ HandleToken(n) \/ HandleElected(n)

\* Messages are delivered, monitors look again.
RingFairness ==
  \A n \in RingNodes :
    WF_ringVars(RingMonitor(n)) /\ WF_ringVars(HandleToken(n)) /\ WF_ringVars(HandleElected(n))

RingSpec == RingInit /\ [][RingNext]_ringVars /\ RingFairness

(***************************************************************************)
(* Properties                                                              *)
(***************************************************************************)
\* However many tokens are on their way, started by whomever and whenever, they
\* can elect only the highest id: a token that meets a node it lists has passed
\* all the others (ring_algorithm.py:169).  So no two nodes ever lead.
RingElectsTheHighest ==
  \A n \in RingNodes :
    /\ rLeader[n] \in {NoWinner, Max(RingNodes)}
    /\ rLeads[n] => n = Max(RingNodes)

\* If every node comes up and stays up, everybody comes to know the leader,
\* although the tokens of the first nodes meet nodes that are not up yet and
\* are lost, and although a lost token leaves its node waiting
\* (ring_algorithm.py:111, :249).
RingAgrees ==
  <>[]((\A n \in RingNodes : RingUp(n)) => \A n \in RingNodes : rLeader[n] = Max(RingNodes))
=============================================================================
