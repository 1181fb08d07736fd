------------------------------- MODULE Gossip -------------------------------
(***************************************************************************)
(* src/gossip-protocol/src: nodes that send one another what they have of  *)
(* a key (gossip_node.py, state_store.py) and whom they know               *)
(* (membership.py), over UDP: datagrams are lost and overtake one another. *)
(*                                                                         *)
(* One key.  An entry is its version, the node that wrote it and whether   *)
(* it is a tombstone: a node gives each of its writes a new version, so    *)
(* the value follows.  Whom a node knows is kept as addresses.  A seed is  *)
(* entered under an id of its own ("seed_host_port") beside the node's     *)
(* real one and gossiped like it: another way to the same address, and for *)
(* the seed itself a way to send to itself, which changes nothing and is   *)
(* left out.  Gossip itself marks nobody SUSPECT or DEAD: heartbeats   *)
(* are reported to the failure detector, which nobody asks.  Membership.tla *)
(* is about such updates.                                                  *)
(***************************************************************************)
EXTENDS Naturals, FiniteSets

CONSTANTS
  GNodes,       \* node ids; ids are compared
  GSeeds,       \* seed_nodes of each node
  GCluster,     \* the nodes of the cluster that uses "push", "pull", "push_pull"
  GWriters,     \* the nodes on which set() and delete() are called
  GMaxVersion,  \* bound: versions
  GLinks,       \* the pairs between which datagrams arrive at all
  GPings        \* bound: the nodes whose SWIM loop is looked at

ASSUME GossipAssumption ==
  /\ GNodes \subseteq Nat \ {0}
  /\ GSeeds \in [GNodes -> SUBSET GNodes]
  /\ DOMAIN GCluster \subseteq {"push", "pull", "push_pull"}
  /\ \A mode \in DOMAIN GCluster : GCluster[mode] \subseteq GNodes
  /\ GWriters \subseteq GNodes
  /\ GMaxVersion \in Nat
  /\ GLinks \subseteq GNodes \X GNodes

VARIABLES
  gMode,   \* mode, the same at every node
  gUp,     \* running
  gStore,  \* the entry of the key at each node
  gKnown,  \* addresses of the members each node knows
  gMsgs    \* datagrams on their way

gossipVars == <<gMode, gUp, gStore, gKnown, gMsgs>>

Entries == [version : 0..GMaxVersion, writer : GNodes \cup {0}, dead : BOOLEAN]
NoEntry == [version |-> 0, writer |-> 0, dead |-> FALSE]

GossipTypeOK ==
  /\ gMode \in DOMAIN GCluster
  /\ gUp \in [GNodes -> BOOLEAN]
  /\ gStore \in [GNodes -> Entries]
  /\ gKnown \in [GNodes -> SUBSET GNodes]
  /\ \A m \in gMsgs :
       /\ m.type \in {"PUSH", "PULL_REQUEST", "PULL_RESPONSE", "PING", "ACK"}
       /\ {m.from, m.to} \subseteq GNodes
       /\ m.entry \in Entries /\ m.members \subseteq GNodes

GossipInit ==
  /\ gMode \in DOMAIN GCluster
  /\ gUp = [n \in GNodes |-> FALSE]
  /\ gStore = [n \in GNodes |-> NoEntry]
  /\ gKnown = [n \in GNodes |-> {}]
  /\ gMsgs = {}

(***************************************************************************)
(* Nodes                                                                   *)
(***************************************************************************)
Cluster == GCluster[gMode]

\* start
GossipStart(n) ==
  /\ n \in Cluster
  /\ ~gUp[n]
  /\ gUp' = [gUp EXCEPT ![n] = TRUE]
  /\ gKnown' = [gKnown EXCEPT ![n] = @ \cup ((GSeeds[n] \cap Cluster) \ {n})]
  /\ UNCHANGED <<gMode, gStore, gMsgs>>

\* set: StateStore.set
SetKeyValue(n) ==
  /\ n \in GWriters \cap Cluster
  /\ gStore[n].version < GMaxVersion
  /\ gStore' = [gStore EXCEPT ![n] = [version |-> @.version + 1, writer |-> n, dead |-> FALSE]]
  /\ UNCHANGED <<gMode, gUp, gKnown, gMsgs>>

\* delete: StateStore.delete
DeleteKeyValue(n) ==
  /\ n \in GWriters \cap Cluster
  /\ gStore[n].version \in 1..(GMaxVersion - 1) /\ ~gStore[n].dead
  /\ gStore' = [gStore EXCEPT ![n] = [version |-> @.version + 1, writer |-> n, dead |-> TRUE]]
  /\ UNCHANGED <<gMode, gUp, gKnown, gMsgs>>

\* Variant: ties of versions are not broken
NewerOnly(entry, existing) == entry.version > existing.version

\* What StateStore.merge applies
Newer(entry, existing) ==
  \/ entry.version > existing.version
  \/ entry.version = existing.version /\ entry.writer > existing.writer

Merge(existing, entry) == IF Newer(entry, existing) THEN entry ELSE existing

Datagram(type, from, to, entry, members) ==
  [type |-> type, from |-> from, to |-> to, entry |-> entry, members |-> members]

\* get_delta: an entry of the same version as in the digest is not sent
Delta(n, digest) == IF gStore[n].version > digest.version THEN gStore[n] ELSE NoEntry

\* _send_push
Push(n, to) == Datagram("PUSH", n, to, gStore[n], gKnown[n] \cup {n})

\* A datagram of that type gets through.  Bound: the one before it has arrived.
GetsThrough(type, from, to) ==
  /\ <<from, to>> \in GLinks /\ gUp[to]
  /\ \A m \in gMsgs : <<m.type, m.from, m.to>> # <<type, from, to>>

\* _perform_gossip_round towards one peer: _send_push, _send_pull_request
GossipTo(n, peer, type) ==
  /\ gUp[n] /\ peer \in gKnown[n]
  /\ GetsThrough(type, n, peer)
  /\ \/ /\ type = "PUSH" /\ gMode \in {"push", "push_pull"}
        /\ gMsgs' = gMsgs \cup {Push(n, peer)}
     \/ /\ type = "PULL_REQUEST" /\ gMode \in {"pull", "push_pull"}
        /\ gMsgs' = gMsgs \cup {Datagram("PULL_REQUEST", n, peer, gStore[n], {})}
  /\ UNCHANGED <<gMode, gUp, gStore, gKnown>>

\* _swim_loop
SwimPing(n, peer) ==
  /\ n \in GPings
  /\ gUp[n] /\ peer \in gKnown[n]
  /\ GetsThrough("PING", n, peer)
  /\ gMsgs' = gMsgs \cup {Datagram("PING", n, peer, NoEntry, {})}
  /\ UNCHANGED <<gMode, gUp, gStore, gKnown>>

\* What the receiver of m sends back: _handle_pull_request, _handle_ping
Reply(m) ==
  CASE m.type = "PULL_REQUEST" -> {Datagram("PULL_RESPONSE", m.to, m.from, Delta(m.to, m.entry),
                                            gKnown[m.to] \cup {m.to, m.from})}
    [] m.type = "PING" -> {Datagram("ACK", m.to, m.from, NoEntry, {})}
    [] OTHER -> {}

\* _handle_message.  The sender and the members it names become known; the reply,
\* when it gets through, already names the sender.
HandleDatagram(m) ==
  /\ gKnown' = [gKnown EXCEPT ![m.to] = (@ \cup {m.from} \cup m.members) \ {m.to}]
  /\ gStore' = [gStore EXCEPT ![m.to] =
                  IF m.type \in {"PUSH", "PULL_RESPONSE"} THEN Merge(@, m.entry) ELSE @]
  /\ gMsgs' = (gMsgs \ {m}) \cup
       {r \in Reply(m) : GetsThrough(r.type, r.from, r.to)}
  /\ UNCHANGED <<gMode, gUp>>

\* The same when the reply is lost
HandleUnanswered(m) ==
  /\ Reply(m) # {}
  /\ gKnown' = [gKnown EXCEPT ![m.to] = (@ \cup {m.from}) \ {m.to}]
  /\ gMsgs' = gMsgs \ {m}
  /\ UNCHANGED <<gMode, gUp, gStore>>

Receive(n, from, type) ==
  \E m \in gMsgs : m.to = n /\ m.from = from /\ m.type = type /\ HandleDatagram(m)

GossipNext ==
  \/ \E n \in GNodes : GossipStart(n) \/ SetKeyValue(n) \/ DeleteKeyValue(n)
  \/ \E n, peer \in GNodes :
       SwimPing(n, peer) \/ \E type \in {"PUSH", "PULL_REQUEST"} : GossipTo(n, peer, type)
  \/ \E m \in gMsgs : HandleDatagram(m) \/ HandleUnanswered(m)

\* Gossip rounds choose every member again and again, and of the datagrams sent
\* again and again some arrive and are answered.
GossipFairness ==
  \A l \in GLinks :
    /\ \A type \in {"PUSH", "PULL_REQUEST"} : WF_gossipVars(GossipTo(l[1], l[2], type))
    /\ \A type \in {"PUSH", "PULL_RESPONSE"} : WF_gossipVars(Receive(l[2], l[1], type))
    /\ SF_gossipVars(Receive(l[2], l[1], "PULL_REQUEST"))

GossipSpec == GossipInit /\ [][GossipNext]_gossipVars /\ GossipFairness

(***************************************************************************)
(* Properties                                                              *)
(***************************************************************************)
\* When all nodes are up and nobody writes any more, they come to know one another
\* and to have the newest version, and the same entry unless they only pull
\* (state_store.py:67, "Merge an entry from another node"): concurrent writes and
\* deletes, lost and late datagrams included.
AllUp == \A n \in Cluster : gUp[n]
GossipConverges ==
  <>[](AllUp => \A n, m \in Cluster :
                  /\ gStore[n].version = gStore[m].version
                  /\ gMode # "pull" => gStore[n] = gStore[m]
                  /\ Cluster \ {n} \subseteq gKnown[n])
=============================================================================
