--------------------------------- MODULE PBFT ---------------------------------
(***************************************************************************)
(* The replicas of byzantine-consensus (src/pbft/node.py) over any network *)
(* (Network in network.py is abstract): broadcast messages stay in msgs    *)
(* and reach each replica at any time, in any order, again, or never.  A   *)
(* handler is one action.  InMemoryNetwork calls receivers from within     *)
(* broadcast, so handlers nest; but all a handler does after a broadcast   *)
(* is to check a quorum once more, so every outcome of a nested delivery   *)
(* is one of delivering the same messages one after the other.             *)
(*                                                                         *)
(* Byzantine replicas send anything at any time, under their own name; in  *)
(* an instance where they send nothing they have crashed.  A PRE-PREPARE   *)
(* carries a digest and a request, and nobody compares the two; PREPARE    *)
(* and COMMIT carry the digest, and the request is what is executed.       *)
(***************************************************************************)
EXTENDS Naturals, FiniteSets

CONSTANTS
    Node,       \* the replicas
    NodeAt,     \* by node_id: 0 .. total_nodes - 1
    Byzantine,  \* the faulty ones
    Request,    \* what clients ask for
    Lies,       \* bound: the types of message Byzantine replicas make up
    Clients,    \* bound: replicas on which propose is called
    Suspects,   \* bound: replicas on which trigger_view_change is called
    MaxView,    \* bound
    MaxSeq      \* bound

total_nodes == Cardinality(Node)
f == (total_nodes - 1) \div 3
Honest == Node \ Byzantine
View == 0 .. MaxView
SeqNum == 1 .. MaxSeq
Key == View \X SeqNum

\* _digest: different requests have different digests.
digestOf(r) == <<"digest", r>>
Digest == {digestOf(r) : r \in Request}

ASSUME PBFTAssumption ==
    /\ IsFiniteSet(Node) /\ Node # {}
    /\ NodeAt \in [0 .. total_nodes - 1 -> Node]
    /\ Byzantine \subseteq Node
    /\ Clients \subseteq Honest /\ Suspects \subseteq Honest
    /\ MaxView \in Nat /\ MaxSeq \in Nat

VARIABLES
    view,
    status,
    seq_num,
    pre_prepares,        \* accepted: <<key, digest, request>>
    prepares,            \* received: <<key, sender, digest>>
    commits,             \* received: <<key, sender, digest>>
    prepared_predicate,  \* keys
    executed,            \* by execute_request: <<key, digest, request>>
    view_change_log,     \* <<view, sender>>
    requests,            \* REQUEST messages under way: <<request, receiver>>
    proposed,            \* requests clients have made
    msgs                 \* everything broadcast

vars == <<view, status, seq_num, pre_prepares, prepares, commits, prepared_predicate,
          executed, view_change_log, requests, proposed, msgs>>
viewVars == <<view, status, view_change_log>>
clientVars == <<requests, proposed>>

primary(v) == NodeAt[v % total_nodes]
committed_predicate(n) == {e[1] : e \in executed[n]}
Accepted(n, key) == {p \in pre_prepares[n] : p[1] = key}
DigestsOf(n, key) == {p[2] : p \in Accepted(n, key)}

\* Variant: votes for any digest count.
SendersOfAny(votes, key, digest) == {s \in Node : \E d \in Digest : <<key, s, d>> \in votes}

\* The replicas whose votes match a key and a digest.
Senders(votes, key, digest) == {s \in Node : <<key, s, digest>> \in votes}

Message(type, sender, key, digest) ==
    [type |-> type, sender |-> sender, key |-> key, digest |-> digest]
PrePrepare(sender, key, digest, request) ==
    [type |-> "pre-prepare", sender |-> sender, key |-> key, digest |-> digest, request |-> request]
ViewMessage(type, sender, v) == [type |-> type, sender |-> sender, view |-> v]

\* A message a replica can receive: broadcast by an honest one, or whatever a
\* Byzantine one makes up.
Sent(m) == m \in msgs \/ (m.sender \in Byzantine /\ m.type \in Lies)

Init ==
    /\ view = [n \in Honest |-> 0]
    /\ status = [n \in Honest |-> "NORMAL"]
    /\ seq_num = [n \in Honest |-> 0]
    /\ pre_prepares = [n \in Honest |-> {}]
    /\ prepares = [n \in Honest |-> {}]
    /\ commits = [n \in Honest |-> {}]
    /\ prepared_predicate = [n \in Honest |-> {}]
    /\ executed = [n \in Honest |-> {}]
    /\ view_change_log = [n \in Honest |-> {}]
    /\ requests = {}
    /\ proposed = {}
    /\ msgs = {}

-------------------------------------------------------------------------------
(* The two predicates, evaluated at the end of the handlers.                 *)

PreparedQuorum == 2 * f
\* Variant: one commit short.
CommitQuorumSmall == 2 * f
CommitQuorum == 2 * f + 1

\* Variant: a quorum of commits is enough, prepared or not.
CheckCommittedUnprepared(n, key, digest, received, preparedKeys, accepted) ==
    executed' = [executed EXCEPT ![n] =
        IF /\ key \notin committed_predicate(n)
           /\ Cardinality(Senders(received, key, digest)) >= CommitQuorum
        THEN @ \cup accepted ELSE @]

\* check_committed, on the votes received by now, and execute_request, which
\* executes the request embedded in the PRE-PREPARE accepted for the key.
CheckCommitted(n, key, digest, received, preparedKeys, accepted) ==
    executed' = [executed EXCEPT ![n] =
        IF /\ key \notin committed_predicate(n)
           /\ key \in preparedKeys
           /\ Cardinality(Senders(received, key, digest)) >= CommitQuorum
        THEN @ \cup accepted ELSE @]

\* Variant: the commits that came first are not counted again.
CheckPreparedOnly(n, key, digest, received, out, accepted) ==
    IF /\ key \notin prepared_predicate[n]
       /\ Cardinality(Senders(received, key, digest)) >= PreparedQuorum
    THEN /\ prepared_predicate' = [prepared_predicate EXCEPT ![n] = @ \cup {key}]
         /\ commits' = [commits EXCEPT ![n] = @ \cup {<<key, n, digest>>}]
         /\ msgs' = msgs \cup out \cup {Message("commit", n, key, digest)}
         /\ UNCHANGED executed
    ELSE /\ msgs' = msgs \cup out
         /\ UNCHANGED <<prepared_predicate, commits, executed>>

\* check_prepared, on the prepares received by now; out is what the handler
\* has broadcast before.
CheckPrepared(n, key, digest, received, out, accepted) ==
    IF /\ key \notin prepared_predicate[n]
       /\ Cardinality(Senders(received, key, digest)) >= PreparedQuorum
    THEN /\ prepared_predicate' = [prepared_predicate EXCEPT ![n] = @ \cup {key}]
         /\ commits' = [commits EXCEPT ![n] = @ \cup {<<key, n, digest>>}]
         /\ msgs' = msgs \cup out \cup {Message("commit", n, key, digest)}
         /\ CheckCommitted(n, key, digest, commits'[n], prepared_predicate'[n], accepted)
    ELSE /\ msgs' = msgs \cup out
         /\ UNCHANGED <<prepared_predicate, commits, executed>>

-------------------------------------------------------------------------------
(* Requests and the three phases.                                            *)

\* handle_request: the primary gives the request the next number and
\* broadcasts it with its digest, anyone else passes it on; handled is the set
\* of REQUEST messages used up.
HandleRequest(n, request, handled) ==
    LET key == <<view[n], seq_num[n] + 1>> IN
    \/ /\ n = primary(view[n])
       /\ seq_num[n] < MaxSeq
       /\ seq_num' = [seq_num EXCEPT ![n] = @ + 1]
       /\ pre_prepares' = [pre_prepares EXCEPT ![n] =
                              {p \in @ : p[1] # key} \cup {<<key, digestOf(request), request>>}]
       /\ msgs' = msgs \cup {PrePrepare(n, key, digestOf(request), request)}
       /\ requests' = requests \ handled
       /\ UNCHANGED <<viewVars, prepares, commits, prepared_predicate, executed>>
    \/ /\ n # primary(view[n])
       /\ requests' = (requests \ handled) \cup {<<request, primary(view[n])>>}
       /\ UNCHANGED <<viewVars, seq_num, pre_prepares, prepares, commits,
                      prepared_predicate, executed, msgs>>

\* propose
Propose(n, request) ==
    /\ n \in Clients
    /\ request \notin proposed
    /\ proposed' = proposed \cup {request}
    /\ HandleRequest(n, request, {})

ReceiveRequest(n, request) ==
    /\ <<request, n>> \in requests
    /\ HandleRequest(n, request, {<<request, n>>})
    /\ UNCHANGED proposed

\* handle_pre_prepare: whoever sent it and whatever request it embeds, the first
\* for its key is accepted; "Validate: check ... digest" is not done.
HandlePrePrepare(n, sender, key, digest, request) ==
    LET received == prepares[n] \cup {<<key, n, digest>>}
        accepted == {<<key, digest, request>>}
    IN /\ Sent(PrePrepare(sender, key, digest, request))
       /\ sender # n
       /\ key[1] = view[n]
       /\ Accepted(n, key) = {}
       /\ pre_prepares' = [pre_prepares EXCEPT ![n] = @ \cup accepted]
       /\ prepares' = [prepares EXCEPT ![n] = received]
       /\ CheckPrepared(n, key, digest, received, {Message("prepare", n, key, digest)}, accepted)
       /\ UNCHANGED <<viewVars, clientVars, seq_num>>

\* handle_prepare
HandlePrepare(n, sender, key, digest) ==
    LET received == prepares[n] \cup {<<key, sender, digest>>} IN
    /\ Sent(Message("prepare", sender, key, digest))
    /\ sender # n
    /\ key[1] = view[n]
    /\ prepares' = [prepares EXCEPT ![n] = received]
    /\ IF digest \in DigestsOf(n, key)
       THEN CheckPrepared(n, key, digest, received, {}, Accepted(n, key))
       ELSE UNCHANGED <<commits, prepared_predicate, executed, msgs>>
    /\ UNCHANGED <<viewVars, clientVars, seq_num, pre_prepares>>

\* handle_commit
HandleCommit(n, sender, key, digest) ==
    LET received == commits[n] \cup {<<key, sender, digest>>} IN
    /\ Sent(Message("commit", sender, key, digest))
    /\ sender # n
    /\ key[1] = view[n]
    /\ commits' = [commits EXCEPT ![n] = received]
    /\ IF digest \in DigestsOf(n, key)
       THEN CheckCommitted(n, key, digest, received, prepared_predicate[n], Accepted(n, key))
       ELSE UNCHANGED executed
    /\ UNCHANGED <<viewVars, clientVars, seq_num, pre_prepares, prepares,
                   prepared_predicate, msgs>>

-------------------------------------------------------------------------------
(* View changes.                                                             *)

\* trigger_view_change: the caller's own vote is logged and not counted.
TriggerViewChange(n) ==
    LET v == view[n] + 1 IN
    /\ n \in Suspects
    /\ v <= MaxView
    /\ status' = [status EXCEPT ![n] = "VIEW_CHANGE"]
    /\ view_change_log' = [view_change_log EXCEPT ![n] = @ \cup {<<v, n>>}]
    /\ msgs' = msgs \cup {ViewMessage("view-change", n, v)}
    /\ UNCHANGED <<view, seq_num, pre_prepares, prepares, commits, prepared_predicate,
                   executed, clientVars>>

\* Variant: enough to know that one honest replica asks.
ViewChangeQuorumSmall == f + 1
ViewChangeQuorum == 2 * f + 1

\* handle_view_change and send_new_view.
HandleViewChange(n, sender, v) ==
    LET logged  == view_change_log[n] \cup {<<v, sender>>}
        senders == {s \in Node : <<v, s>> \in logged}
    IN /\ Sent(ViewMessage("view-change", sender, v))
       /\ sender # n
       /\ v > view[n]
       /\ view_change_log' = [view_change_log EXCEPT ![n] = logged]
       /\ IF Cardinality(senders) >= ViewChangeQuorum /\ n = primary(v)
          THEN /\ view' = [view EXCEPT ![n] = v]
               /\ status' = [status EXCEPT ![n] = "NORMAL"]
               /\ msgs' = msgs \cup {ViewMessage("new-view", n, v)}
          ELSE UNCHANGED <<view, status, msgs>>
       /\ UNCHANGED <<seq_num, pre_prepares, prepares, commits, prepared_predicate,
                      executed, clientVars>>

\* handle_new_view: "Verify (omitted)"; the view may go back.
HandleNewView(n, sender, v) ==
    /\ Sent(ViewMessage("new-view", sender, v))
    /\ sender # n
    /\ view' = [view EXCEPT ![n] = v]
    /\ status' = [status EXCEPT ![n] = "NORMAL"]
    /\ UNCHANGED <<seq_num, pre_prepares, prepares, commits, prepared_predicate,
                   executed, view_change_log, clientVars, msgs>>

-------------------------------------------------------------------------------
Receive(n) ==
    \/ \E r \in Request : ReceiveRequest(n, r)
    \/ \E s \in Node, key \in Key, d \in Digest, r \in Request : HandlePrePrepare(n, s, key, d, r)
    \/ \E s \in Node, key \in Key, d \in Digest : HandlePrepare(n, s, key, d)
    \/ \E s \in Node, key \in Key, d \in Digest : HandleCommit(n, s, key, d)
    \/ \E s \in Node, v \in View : HandleViewChange(n, s, v)
    \/ \E s \in Node, v \in View : HandleNewView(n, s, v)

Next ==
    \/ \E n \in Honest, r \in Request : Propose(n, r)
    \/ \E n \in Honest : Receive(n)
    \/ \E n \in Honest : TriggerViewChange(n)

Spec == Init /\ [][Next]_vars

\* The network delivers every message in the end, whatever the order, though
\* not a second time.
Deliver(n) ==
    \/ \E r \in Request : ReceiveRequest(n, r)
    \/ \E s \in Node, key \in Key, d \in Digest :
          \/ \E r \in Request : HandlePrePrepare(n, s, key, d, r)
          \/ <<key, s, d>> \notin prepares[n] /\ HandlePrepare(n, s, key, d)
          \/ <<key, s, d>> \notin commits[n] /\ HandleCommit(n, s, key, d)
    \/ \E s \in Node, v \in View :
          \/ <<v, s>> \notin view_change_log[n] /\ HandleViewChange(n, s, v)
          \/ HandleNewView(n, s, v)

FairSpec == Spec /\ \A n \in Honest : WF_vars(Deliver(n))

-------------------------------------------------------------------------------
(* Properties.                                                               *)

Votes == Key \X Node \X Digest

\* The honest replicas that have asked for view v.
Asked(v) == {n \in Honest : ViewMessage("view-change", n, v) \in msgs}

\* Every variable keeps its shape, a key has one accepted PRE-PREPARE, and what
\* is executed is the request of that one, once prepared (pre_prepares,
\* committed_predicate).
TypeOK ==
    /\ view \in [Honest -> View]
    /\ status \in [Honest -> {"NORMAL", "VIEW_CHANGE"}]
    /\ seq_num \in [Honest -> 0 .. MaxSeq]
    /\ prepares \in [Honest -> SUBSET Votes]
    /\ commits \in [Honest -> SUBSET Votes]
    /\ prepared_predicate \in [Honest -> SUBSET Key]
    /\ requests \subseteq Request \X Node
    /\ proposed \subseteq Request
    /\ \A n \in Honest :
          /\ pre_prepares[n] \subseteq Key \X Digest \X Request
          /\ \A key \in Key : Cardinality(Accepted(n, key)) <= 1
          /\ view_change_log[n] \subseteq View \X Node
          /\ committed_predicate(n) \subseteq prepared_predicate[n]

\* The embedded request is the one the digest was made from.
Genuine(x) == x[2] = digestOf(x[3])

\* "Safety: All honest nodes agree", within a view and as far as the code goes: two
\* honest replicas never execute different digests under one view and sequence
\* number, whatever Byzantine replicas tell either of them (check_prepared,
\* check_committed); so they execute the same request where both PRE-PREPAREs
\* were genuine.  That they were, handle_pre_prepare does not check.
AgreementInView ==
    \A m, n \in Honest : \A x \in executed[m], y \in executed[n] :
        x[1] = y[1] => /\ x[2] = y[2]
                       /\ Genuine(x) /\ Genuine(y) => x[3] = y[3]

\* "Safety: All honest nodes agree", across views too: one sequence number holds one
\* request (send_new_view, handle_new_view, handle_request).
AgreementAcrossViews ==
    \A m, n \in Honest : \A x \in executed[m], y \in executed[n] :
        x[1][2] = y[1][2] => x[3] = y[3]

\* "Consensus reached when 2f+1 nodes agree": what an honest replica has
\* executed, f + 1 honest replicas have prepared and said so, each for the same
\* digest; of the request they say nothing (check_prepared's COMMIT,
\* check_committed's quorum).
ExecutedIsBacked ==
    \A n \in Honest : \A x \in executed[n] :
        Cardinality({m \in Honest : Message("commit", m, x[1], x[2]) \in msgs}) >= f + 1

\* A replica is in a later view only if f + 1 honest replicas at least asked for
\* it, so that no f Byzantine ones depose a primary; nothing verifies a NEW-VIEW,
\* so this takes that none is made up (handle_view_change, handle_new_view).
ViewsAreAskedFor ==
    "new-view" \notin Lies =>
        \A n \in Honest : view[n] > 0 => Cardinality(Asked(view[n])) >= f + 1

\* "Progress under async": unless a replica asks for another view, every request
\* a client makes is executed by every replica, in whatever order PRE-PREPARE,
\* PREPARE and COMMIT arrive ("when PrePrepare arrives later, we can
\* re-check": handle_pre_prepare, check_prepared).
RequestsAreExecuted ==
    [](\A n \in Honest : status[n] = "NORMAL" /\ view[n] = 0) =>
        \A r \in Request : r \in proposed ~> \A n \in Honest : \E x \in executed[n] : x[3] = r
===============================================================================
