--------------------------- MODULE LeaseElection ---------------------------
(***************************************************************************)
(* src/leader-election/src/lease_algorithm.py on the local transport: a    *)
(* quorum of grants makes a leader, whose lease the others learn from its  *)
(* heartbeats.                                                             *)
(*                                                                         *)
(* Time is the step LeaseExpires of one node's copy of the lease: the      *)
(* copies are issued at different moments and run out at different ones.   *)
(* The copy of the leader itself is written once, in _become_leader, and   *)
(* never again, so it runs out however often the leader renews.            *)
(***************************************************************************)
EXTENDS Naturals, FiniteSets

CONSTANTS
  LeaseNodes,
  LeaseMaxTerm,    \* bound: no request beyond this term
  LeaseMaxSleepers, \* bound: threads of a node sleeping before an attempt
  LeaseContenders, \* bound: the nodes whose backoff ends in the time considered
  LeaseTriggers,   \* the nodes on which trigger_election() is called
  LeaseMayStop,    \* the nodes on which stop() may be called
  NoHolder         \* None

ASSUME LeaseAssumption ==
  /\ IsFiniteSet(LeaseNodes)
  /\ NoHolder \notin LeaseNodes
  /\ LeaseMaxTerm \in Nat /\ LeaseMaxSleepers \in Nat

VARIABLES
  lState,      \* "new", "running", "stopped"
  lLeads,      \* is_leader_flag
  lContends,   \* in_contention
  lTerm,       \* term
  lVotedFor,   \* voted_for
  lVotes,      \* votes_received
  lHolder,     \* current_lease.holder, or NoHolder when there is no lease
  lValid,      \* current_lease.is_valid()
  lAttempts,   \* threads of the node sleeping before _attempt_acquire_lease
  lGivesUp,    \* the timer of _contention_timeout is armed
  lMsgs,       \* messages on their way
  lElected     \* history: <<node, term>> of every _become_leader

leaseVars == <<lState, lLeads, lContends, lTerm, lVotedFor, lVotes, lHolder, lValid,
               lAttempts, lGivesUp, lMsgs, lElected>>

LeaseTypeOK ==
  /\ lState \in [LeaseNodes -> {"new", "running", "stopped"}]
  /\ lLeads \in [LeaseNodes -> BOOLEAN]
  /\ lContends \in [LeaseNodes -> BOOLEAN]
  /\ lTerm \in [LeaseNodes -> 0..LeaseMaxTerm]
  /\ lVotedFor \in [LeaseNodes -> LeaseNodes \cup {NoHolder}]
  /\ lVotes \in [LeaseNodes -> SUBSET LeaseNodes]
  /\ lHolder \in [LeaseNodes -> LeaseNodes \cup {NoHolder}]
  /\ lValid \in [LeaseNodes -> BOOLEAN]
  /\ lAttempts \in [LeaseNodes -> 0..LeaseMaxSleepers]
  /\ lGivesUp \in [LeaseNodes -> BOOLEAN]
  /\ lMsgs \subseteq [type : {"request_lease", "grant_lease", "heartbeat"},
                      to : LeaseNodes, from : LeaseNodes, term : 0..LeaseMaxTerm]
  /\ lElected \subseteq LeaseNodes \X (0..LeaseMaxTerm)

LeaseInit ==
  /\ lState = [n \in LeaseNodes |-> "new"]
  /\ lLeads = [n \in LeaseNodes |-> FALSE]
  /\ lContends = [n \in LeaseNodes |-> FALSE]
  /\ lTerm = [n \in LeaseNodes |-> 0]
  /\ lVotedFor = [n \in LeaseNodes |-> NoHolder]
  /\ lVotes = [n \in LeaseNodes |-> {}]
  /\ lHolder = [n \in LeaseNodes |-> NoHolder]
  /\ lValid = [n \in LeaseNodes |-> FALSE]
  /\ lAttempts = [n \in LeaseNodes |-> 0]
  /\ lGivesUp = [n \in LeaseNodes |-> FALSE]
  /\ lMsgs = {}
  /\ lElected = {}

LeaseUp(n) == lState[n] = "running"
Quorum(votes) == Cardinality(votes) >= Cardinality(LeaseNodes) \div 2 + 1

HasLease(n) == lHolder[n] # NoHolder /\ lValid[n]
Expired(n) == lHolder[n] # NoHolder /\ ~lValid[n]

\* transport.send of one message to each of the targets that run
Send(type, n, targets, term) ==
  [type : {type}, to : {t \in targets : LeaseUp(t)}, from : {n}, term : {term}]

Peers(n) == LeaseNodes \ {n}

\* _start_contention; the caller says which nodes lead at that moment
StartContention(n, leads) ==
  IF lContends[n] \/ leads
  THEN UNCHANGED <<lContends, lAttempts>>
  ELSE /\ lContends' = [lContends EXCEPT ![n] = TRUE]
       /\ lAttempts' = [lAttempts EXCEPT ![n] = @ + 1]

(***************************************************************************)
(* Actions                                                                 *)
(***************************************************************************)
LeaseStart(n) ==
  /\ lState[n] = "new"
  /\ lState' = [lState EXCEPT ![n] = "running"]
  /\ StartContention(n, lLeads[n])
  /\ UNCHANGED <<lLeads, lTerm, lVotedFor, lVotes, lHolder, lValid, lGivesUp, lMsgs, lElected>>

\* stop, with _relinquish_lease
LeaseStop(n) ==
  /\ n \in LeaseMayStop
  /\ LeaseUp(n)
  /\ lState' = [lState EXCEPT ![n] = "stopped"]
  /\ lLeads' = [lLeads EXCEPT ![n] = FALSE]
  /\ lHolder' = [lHolder EXCEPT ![n] = IF lLeads[n] THEN NoHolder ELSE @]
  /\ lMsgs' = {m \in lMsgs : m.to # n}
  /\ UNCHANGED <<lContends, lTerm, lVotedFor, lVotes, lValid, lAttempts, lGivesUp, lElected>>

\* trigger_election
LeaseTrigger(n) ==
  /\ n \in LeaseTriggers
  /\ LeaseUp(n)
  /\ lAttempts[n] < LeaseMaxSleepers \/ lContends[n] \/ lLeads[n]   \* bound
  /\ StartContention(n, lLeads[n])
  /\ UNCHANGED <<lState, lLeads, lTerm, lVotedFor, lVotes, lHolder, lValid, lGivesUp, lMsgs, lElected>>

\* _attempt_acquire_lease
Attempt(n) ==
  /\ n \in LeaseContenders
  /\ lAttempts[n] > 0
  /\ lAttempts' = [lAttempts EXCEPT ![n] = @ - 1]
  /\ \/ /\ ~LeaseUp(n)
        /\ UNCHANGED <<lContends, lTerm, lVotedFor, lVotes, lGivesUp, lMsgs>>
     \/ /\ LeaseUp(n)
        /\ HasLease(n)
        /\ lContends' = [lContends EXCEPT ![n] = FALSE]
        /\ UNCHANGED <<lTerm, lVotedFor, lVotes, lGivesUp, lMsgs>>
     \/ /\ LeaseUp(n)
        /\ ~HasLease(n)
        /\ lTerm[n] < LeaseMaxTerm
        /\ lTerm' = [lTerm EXCEPT ![n] = @ + 1]
        /\ lVotes' = [lVotes EXCEPT ![n] = {n}]
        /\ lVotedFor' = [lVotedFor EXCEPT ![n] = n]
        /\ lMsgs' = lMsgs \cup Send("request_lease", n, Peers(n), lTerm[n] + 1)
        /\ lGivesUp' = [lGivesUp EXCEPT ![n] = TRUE]
        /\ UNCHANGED lContends
  /\ UNCHANGED <<lState, lLeads, lHolder, lValid, lElected>>

\* _contention_timeout
GiveUp(n) ==
  /\ lGivesUp[n]
  /\ lGivesUp' = [lGivesUp EXCEPT ![n] = FALSE]
  /\ lContends' = [lContends EXCEPT ![n] = @ /\ lLeads[n]]
  /\ UNCHANGED <<lState, lLeads, lTerm, lVotedFor, lVotes, lHolder, lValid, lAttempts,
                 lMsgs, lElected>>

\* Variant: the vote given is not looked at
GrantsAgain(n, m) == lHolder[n] = m.from \/ ~HasLease(n)

\* Whether n grants the request m (handle_request_lease)
Grants(n, m) ==
  \/ lHolder[n] = m.from
  \/ /\ ~HasLease(n)
     /\ m.term > lTerm[n] \/ lVotedFor[n] \in {NoHolder, m.from}

HandleRequest(n) ==
  \E m \in lMsgs :
    /\ m.type = "request_lease" /\ m.to = n
    /\ lTerm' = [lTerm EXCEPT ![n] = IF m.term > @ THEN m.term ELSE @]
    /\ IF Grants(n, m)
       THEN /\ lVotedFor' = [lVotedFor EXCEPT ![n] = m.from]
            /\ lMsgs' = (lMsgs \ {m}) \cup Send("grant_lease", n, {m.from}, m.term)
       ELSE /\ lVotedFor' = [lVotedFor EXCEPT ![n] = IF m.term > lTerm[n] THEN NoHolder ELSE @]
            /\ lMsgs' = lMsgs \ {m}
    /\ UNCHANGED <<lState, lLeads, lContends, lVotes, lHolder, lValid, lAttempts, lGivesUp, lElected>>

\* handle_grant_lease, with _become_leader
HandleGrant(n) ==
  \E m \in lMsgs :
    /\ m.type = "grant_lease" /\ m.to = n
    /\ lMsgs' = lMsgs \ {m}
    /\ IF (lContends[n] \/ lLeads[n]) /\ m.term = lTerm[n]
       THEN /\ lVotes' = [lVotes EXCEPT ![n] = @ \cup {m.from}]
            /\ IF Quorum(lVotes[n] \cup {m.from}) /\ ~lLeads[n]
               THEN /\ lLeads' = [lLeads EXCEPT ![n] = TRUE]
                    /\ lContends' = [lContends EXCEPT ![n] = FALSE]
                    /\ lHolder' = [lHolder EXCEPT ![n] = n]
                    /\ lValid' = [lValid EXCEPT ![n] = TRUE]
                    /\ lElected' = lElected \cup {<<n, lTerm[n]>>}
               ELSE UNCHANGED <<lLeads, lContends, lHolder, lValid, lElected>>
       ELSE UNCHANGED <<lVotes, lLeads, lContends, lHolder, lValid, lElected>>
    /\ UNCHANGED <<lState, lTerm, lVotedFor, lAttempts, lGivesUp>>

\* handle_heartbeat
HandleBeat(n) ==
  \E m \in lMsgs :
    /\ m.type = "heartbeat" /\ m.to = n
    /\ lMsgs' = lMsgs \ {m}
    /\ IF m.term >= lTerm[n]
       THEN /\ lHolder' = [lHolder EXCEPT ![n] = m.from]
            /\ lValid' = [lValid EXCEPT ![n] = TRUE]
            /\ lTerm' = [lTerm EXCEPT ![n] = m.term]
            /\ lContends' = [lContends EXCEPT ![n] = FALSE]
            /\ lLeads' = [lLeads EXCEPT ![n] = FALSE]
       ELSE UNCHANGED <<lHolder, lValid, lTerm, lContends, lLeads>>
    /\ UNCHANGED <<lState, lVotedFor, lVotes, lAttempts, lGivesUp, lElected>>

\* One turn of _renewal_loop: _send_heartbeat, whatever is on its way.  The flag is read
\* just before and without the lock; a leader that has stepped down meanwhile sends what
\* it might have sent a moment earlier, or the same of a later term.
Renew(n) ==
  /\ LeaseUp(n) /\ lLeads[n]
  /\ lMsgs' = lMsgs \cup Send("request_lease", n, Peers(n), lTerm[n])
                    \cup Send("heartbeat", n, Peers(n), lTerm[n])
  /\ UNCHANGED <<lState, lLeads, lContends, lTerm, lVotedFor, lVotes, lHolder, lValid,
                 lAttempts, lGivesUp, lElected>>

\* One turn of _monitor_lease
MonitorLease(n) ==
  /\ LeaseUp(n)
  /\ Expired(n)
  /\ lAttempts[n] < LeaseMaxSleepers \/ lContends[n]   \* bound
  /\ lLeads' = [lLeads EXCEPT ![n] = FALSE]
  /\ StartContention(n, FALSE)
  /\ UNCHANGED <<lState, lTerm, lVotedFor, lVotes, lHolder, lValid, lGivesUp, lMsgs, lElected>>

\* The duration of n's copy of the lease passes
LeaseExpires(n) ==
  /\ HasLease(n)
  /\ lValid' = [lValid EXCEPT ![n] = FALSE]
  /\ UNCHANGED <<lState, lLeads, lContends, lTerm, lVotedFor, lVotes, lHolder,
                 lAttempts, lGivesUp, lMsgs, lElected>>

LeaseNext ==
  \E n \in LeaseNodes :
    \/ LeaseStart(n) \/ LeaseStop(n) \/ LeaseTrigger(n) \/ Attempt(n) \/ GiveUp(n)
    \/ HandleRequest(n) \/ HandleGrant(n) \/ HandleBeat(n) \/ Renew(n)
    \/ MonitorLease(n) \/ LeaseExpires(n)

LeaseSpec == LeaseInit /\ [][LeaseNext]_leaseVars

(***************************************************************************)
(* Properties                                                              *)
(***************************************************************************)
\* As long as nobody has gone on to a second term there is at most one leader:
\* requests that cross, grants that arrive late and heartbeats that overtake grants
\* give nobody a second quorum (voted_for, lease_algorithm.py:213).  With a second
\* term this ends: its requests clear the votes of the first, and a grant records no
\* lease.
FirstTermElectsOne ==
  (\A n \in LeaseNodes : lTerm[n] <= 1) => \A a, b \in lElected : a = b
=============================================================================
