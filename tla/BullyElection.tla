--------------------------- MODULE BullyElection ---------------------------
(***************************************************************************)
(* src/leader-election/src/bully_algorithm.py, on the local transport: the *)
(* node with the highest id bullies its way to leadership.                 *)
(*                                                                         *)
(* A node holds its lock in every handler and timer, so each of them is    *)
(* one action.  LocalNetwork delivers every message in a thread of its     *)
(* own: messages overtake one another, and those for a node that is not    *)
(* running are dropped.  OK is not represented: its handler does nothing   *)
(* (bully_algorithm.py:310), nor is the term of an ELECTION, which nobody  *)
(* reads.                                                                  *)
(***************************************************************************)
EXTENDS Naturals, FiniteSets, FiniteSetsExt

CONSTANTS
  BullyNodes,    \* ids of the nodes; ids are compared
  BullyMaxTerm,  \* bound: terms stop growing here
  BullyMaxUnderWay, \* bound: no heartbeats while so many messages are on their way
  BullyMayStop,  \* the nodes on which stop() may be called, once each
  BullyTriggers  \* the nodes on which trigger_election() is called

ASSUME BullyAssumption ==
  /\ BullyNodes \subseteq Nat \ {0}
  /\ IsFiniteSet(BullyNodes)
  /\ BullyMaxTerm \in Nat /\ BullyMaxUnderWay \in Nat

Nobody == 0   \* None

VARIABLES
  bState,    \* "new", "running" or "stopped"
  bLeads,    \* is_leader_flag
  bLeader,   \* current_leader
  bElecting, \* in_election
  bTerm,     \* term
  bTimer,    \* an election timer of the node has not fired yet
  bMsgs      \* messages on their way

bullyVars == <<bState, bLeads, bLeader, bElecting, bTerm, bTimer, bMsgs>>

Running(n) == bState[n] = "running"

BullyMessages ==
  [type : {"ELECTION"}, to : BullyNodes, from : BullyNodes]
    \cup [type : {"COORDINATOR", "HEARTBEAT"}, to : BullyNodes, from : BullyNodes,
          term : 0..BullyMaxTerm]

BullyTypeOK ==
  /\ bState \in [BullyNodes -> {"new", "running", "stopped"}]
  /\ bLeads \in [BullyNodes -> BOOLEAN]
  /\ bLeader \in [BullyNodes -> BullyNodes \cup {Nobody}]
  /\ bElecting \in [BullyNodes -> BOOLEAN]
  /\ bTerm \in [BullyNodes -> 0..BullyMaxTerm]
  /\ bTimer \in [BullyNodes -> BOOLEAN]
  /\ bMsgs \subseteq BullyMessages

BullyInit ==
  /\ bState = [n \in BullyNodes |-> "new"]
  /\ bLeads = [n \in BullyNodes |-> FALSE]
  /\ bLeader = [n \in BullyNodes |-> Nobody]
  /\ bElecting = [n \in BullyNodes |-> FALSE]
  /\ bTerm = [n \in BullyNodes |-> 0]
  /\ bTimer = [n \in BullyNodes |-> FALSE]
  /\ bMsgs = {}

(***************************************************************************)
(* What the handlers are made of                                           *)
(***************************************************************************)
Higher(n) == {m \in BullyNodes : m > n}

NextTerm(t) == IF t < BullyMaxTerm THEN t + 1 ELSE t

\* transport.send: dropped unless both ends run once the handler is over
Post(sender, targets, m) ==
  IF bState'[sender] = "running"
  THEN {[m EXCEPT !.to = t] : t \in {p \in targets : bState'[p] = "running"}}
  ELSE {}

Claim(n, type) == [type |-> type, to |-> n, from |-> n, term |-> bTerm'[n]]

\* _become_leader; `rest` are the messages that stay on their way
BecomeLeader(n, rest) ==
  /\ bElecting' = [bElecting EXCEPT ![n] = FALSE]
  /\ bLeads' = [bLeads EXCEPT ![n] = TRUE]
  /\ bLeader' = [bLeader EXCEPT ![n] = n]
  /\ bMsgs' = rest \cup Post(n, BullyNodes \ {n}, Claim(n, "COORDINATOR"))

\* _start_election
StartElection(n, rest) ==
  \/ /\ bElecting[n]
     /\ bMsgs' = rest
     /\ UNCHANGED <<bLeads, bLeader, bElecting, bTerm, bTimer>>
  \/ /\ ~bElecting[n]
     /\ bTerm' = [bTerm EXCEPT ![n] = NextTerm(@)]
     /\ \/ /\ Higher(n) = {}
           /\ BecomeLeader(n, rest)
           /\ UNCHANGED bTimer
        \/ /\ Higher(n) # {}
           /\ bElecting' = [bElecting EXCEPT ![n] = TRUE]
           /\ bTimer' = [bTimer EXCEPT ![n] = TRUE]
           /\ bMsgs' = rest \cup Post(n, Higher(n), [type |-> "ELECTION", to |-> n, from |-> n])
           /\ UNCHANGED <<bLeads, bLeader>>

Yields(n, claimant) == claimant >= n

\* Variant: the claim of a lower node is rejected, and that is all
AcknowledgeOrReject(n, m, rest) ==
  \/ /\ ~Yields(n, m.from)
     /\ bMsgs' = rest
     /\ UNCHANGED <<bLeads, bLeader, bElecting, bTerm, bTimer>>
  \/ /\ Yields(n, m.from)
     /\ bLeader' = [bLeader EXCEPT ![n] = m.from]
     /\ bElecting' = [bElecting EXCEPT ![n] = FALSE]
     /\ bTerm' = [bTerm EXCEPT ![n] = m.term]
     /\ bLeads' = [bLeads EXCEPT ![n] = FALSE]
     /\ bMsgs' = rest
     /\ UNCHANGED <<bTimer>>

\* handle_coordinator_msg, also the end of a heartbeat of a higher term
Acknowledge(n, m, rest) ==
  \/ /\ ~Yields(n, m.from)
     /\ StartElection(n, rest)
  \/ /\ Yields(n, m.from)
     /\ bLeader' = [bLeader EXCEPT ![n] = m.from]
     /\ bElecting' = [bElecting EXCEPT ![n] = FALSE]
     /\ bTerm' = [bTerm EXCEPT ![n] = m.term]
     /\ bLeads' = [bLeads EXCEPT ![n] = FALSE]
     /\ bMsgs' = rest
     /\ UNCHANGED <<bTimer>>

(***************************************************************************)
(* Actions                                                                 *)
(***************************************************************************)
BullyStart(n) ==
  /\ bState[n] = "new"
  /\ bState' = [bState EXCEPT ![n] = "running"]
  /\ StartElection(n, bMsgs)

\* stop: messages that arrive later are dropped; the timer stays armed
BullyStop(n) ==
  /\ n \in BullyMayStop
  /\ Running(n)
  /\ bState' = [bState EXCEPT ![n] = "stopped"]
  /\ bLeads' = [bLeads EXCEPT ![n] = FALSE]
  /\ bMsgs' = {m \in bMsgs : m.to # n}
  /\ UNCHANGED <<bLeader, bElecting, bTerm, bTimer>>

\* trigger_election
BullyTrigger(n) ==
  /\ n \in BullyTriggers
  /\ Running(n)
  /\ UNCHANGED bState
  /\ StartElection(n, bMsgs)

\* _monitor_leader finds that no heartbeat has arrived lately
BullyMonitor(n) ==
  /\ Running(n)
  /\ ~bLeads[n]
  /\ UNCHANGED bState
  /\ StartElection(n, bMsgs)

\* Variant: wins only who has nobody above
UnansweredAtTop(n) == bElecting[n] /\ ~bLeads[n] /\ Higher(n) = {}

\* Nobody has claimed the lead since the election began
Unanswered(n) == bElecting[n] /\ ~bLeads[n]

\* _election_timeout_check, which does not ask whether an OK has arrived, nor
\* whether the node still runs.  Assumption on time: a message takes less than an
\* election timeout, so what n sent before this election has arrived.
BullyTimeout(n) ==
  /\ bTimer[n]
  /\ \A m \in bMsgs : m.from # n
  /\ bTimer' = [bTimer EXCEPT ![n] = FALSE]
  /\ IF Unanswered(n)
     THEN UNCHANGED <<bState, bTerm>> /\ BecomeLeader(n, bMsgs)
     ELSE UNCHANGED <<bState, bLeads, bLeader, bElecting, bTerm, bMsgs>>

\* One turn of heartbeat_loop.  It may be long in coming: a node that leads again
\* while its old thread is about to end has no such thread (_start_heartbeat).
BullyHeartbeat(n) ==
  /\ Running(n) /\ bLeads[n]
  /\ Cardinality(bMsgs) < BullyMaxUnderWay
  /\ UNCHANGED <<bState, bLeads, bLeader, bElecting, bTerm, bTimer>>
  /\ bMsgs' = bMsgs \cup Post(n, BullyNodes \ {n}, Claim(n, "HEARTBEAT"))

\* handle_election_msg; the OK it answers with has no effect
HandleElection(n, m) ==
  /\ m.type = "ELECTION"
  /\ IF n > m.from /\ ~bElecting[n] /\ ~bLeads[n]
     THEN StartElection(n, bMsgs \ {m})
     ELSE /\ bMsgs' = bMsgs \ {m}
          /\ UNCHANGED <<bLeads, bLeader, bElecting, bTerm, bTimer>>

\* handle_heartbeat_msg
HandleHeartbeat(n, m) ==
  /\ m.type = "HEARTBEAT"
  /\ IF m.from # bLeader[n] /\ m.term > bTerm[n]
     THEN Acknowledge(n, m, bMsgs \ {m})
     ELSE /\ bTerm' = [bTerm EXCEPT ![n] =
                         IF m.from = bLeader[n] /\ m.term > @ THEN m.term ELSE @]
          /\ bMsgs' = bMsgs \ {m}
          /\ UNCHANGED <<bLeads, bLeader, bElecting, bTimer>>

BullyReceive(n) ==
  \E m \in bMsgs :
    /\ m.to = n
    /\ UNCHANGED bState
    /\ \/ HandleElection(n, m)
       \/ m.type = "COORDINATOR" /\ Acknowledge(n, m, bMsgs \ {m})
       \/ HandleHeartbeat(n, m)

BullyNext ==
  \E n \in BullyNodes :
    \/ BullyStart(n) \/ BullyStop(n) \/ BullyTrigger(n) \/ BullyMonitor(n)
    \/ BullyTimeout(n) \/ BullyHeartbeat(n) \/ BullyReceive(n)

(***************************************************************************)
(* Fairness: timers fire, the monitor looks again and again, messages are  *)
(* delivered to running nodes.                                             *)
(***************************************************************************)
BullyFairness ==
  \A n \in BullyNodes :
    /\ WF_bullyVars(BullyTimeout(n))
    /\ WF_bullyVars(BullyMonitor(n))
    /\ WF_bullyVars(BullyReceive(n))

(***************************************************************************)
(* Properties                                                              *)
(***************************************************************************)
\* Once nodes have stopped stopping, the highest running one leads for good:
\* late COORDINATORs of dead nodes, claims of lower nodes and stale timers do
\* not unseat it (bully_algorithm.py:4, "The node with the highest ID becomes
\* the leader").
HighestRunning == {n \in BullyNodes : Running(n) /\ \A m \in Higher(n) : ~Running(m)}
HighestLeads == <>[](\A n \in HighestRunning : bLeads[n])

\* While the node with the highest id of all runs, a lower one that leads as well
\* does so only until messages that are already on their way arrive: its claim, which
\* the highest node answers with its own, or that answer (_become_leader,
\* handle_coordinator_msg: "hold an election (which we will win)").
ClaimUnderWay(n, m) ==
  \E c \in bMsgs : c.type = "COORDINATOR" /\ c.from = n /\ c.to = m
LowerLeadIsAnswered ==
  \A top, n \in BullyNodes :
    /\ Higher(top) = {} /\ Running(top)
    /\ n # top /\ Running(n) /\ bLeads[n]
    => ClaimUnderWay(n, top) \/ ClaimUnderWay(top, n)

BullySpec == BullyInit /\ [][BullyNext]_bullyVars /\ BullyFairness
=============================================================================
