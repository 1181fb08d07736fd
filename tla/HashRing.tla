------------------------------ MODULE HashRing ------------------------------
(***************************************************************************)
(* ConsistentHashRing of consistent-hashing: nodes come and go, each with   *)
(* its virtual nodes, and keys go to the virtual node that follows them.    *)
(* hash_function is any function: two nodes' virtual nodes may collide.     *)
(* All operations hold the lock.                                            *)
(***************************************************************************)
EXTENDS Integers, FiniteSets, Sequences

CONSTANTS
    HNodes,        \* nodes; numbers, as the ring sorts colliding ones by name
    HHashes,       \* hashes of virtual nodes
    HKeys          \* hashes of the keys looked up

ASSUME HNodesAssumption == HNodes \subseteq Nat /\ IsFiniteSet(HNodes)
ASSUME HHashesAssumption == HHashes \subseteq Nat
ASSUME HKeysAssumption == HKeys \subseteq Int

VARIABLES
    hVirtual,      \* [HNodes -> the hashes of its virtual nodes], as weights
                   \* and hash_function make them
    hNodes,        \* nodes
    hRing          \* ring, the set of its <<hash, node>>; the list is sorted

hVars == <<hVirtual, hNodes, hRing>>

\* add_node; a node that is there is left alone.
AddNode(n) ==
    /\ n \notin hNodes
    /\ hNodes' = hNodes \cup {n}
    /\ hRing' = hRing \cup {<<h, n>> : h \in hVirtual[n]}
    /\ UNCHANGED hVirtual

\* Variant: virtual nodes are removed by their hash.
OthersByHash(n) == {p \in hRing : p[1] \notin hVirtual[n]}

\* What is left of the ring without n.
Others(n) == {p \in hRing : p[2] # n}

RemoveNode(n) ==
    /\ n \in hNodes
    /\ hNodes' = hNodes \ {n}
    /\ hRing' = Others(n)
    /\ UNCHANGED hVirtual

HInit ==
    /\ hVirtual \in [HNodes -> SUBSET HHashes]
    /\ hNodes = {}
    /\ hRing = {}

HNext == \E n \in HNodes : AddNode(n) \/ RemoveNode(n)

HSpec == HInit /\ [][HNext]_hVars

-----------------------------------------------------------------------------
(* Lookups.                                                                 *)

\* Order of the tuples, as bisect compares them.
TupleBefore(p, q) == p[1] < q[1] \/ (p[1] = q[1] /\ p[2] <= q[2])

\* bisect_right(ring, (key_hash, '')): what is not before the key comes first,
\* then, around the end of the list, the rest.
Ahead(p, k) == p[1] >= k

NotLater(p, q, k) ==
    \/ Ahead(p, k) /\ ~ Ahead(q, k)
    \/ (Ahead(p, k) <=> Ahead(q, k)) /\ TupleBefore(p, q)

\* get_node: the node of the first virtual node met from k on, as a set which
\* is empty when the ring is.
OwnersIn(ring, k) ==
    {p[2] : p \in {r \in ring : \A q \in ring : NotLater(r, q, k)}}

GetNode(k) == OwnersIn(hRing, k)

\* Nodes met before n on the way round from k.
MetBefore(n, k) ==
    {p[2] : p \in {r \in hRing : r[2] # n /\
                      \A q \in hRing : q[2] = n => NotLater(r, q, k)}}

\* get_nodes(k, count): the first count distinct nodes met from k on.
GetNodes(k, count) ==
    {n \in {p[2] : p \in hRing} : Cardinality(MetBefore(n, k)) < count}

-----------------------------------------------------------------------------

\* A node that joins may take the place of others, and nobody else becomes a replica of
\* any key, for each number of replicas; a node that leaves only gives its own keys and
\* replicas away, and the node of a key is the first of its replicas (consistent_hash.py:31, :168).
\* Nodes join and leave in any order and their hashes may collide.
KeysStay(n, k, count) ==
    /\ AddNode(n) => GetNodes(k, count)' \subseteq GetNodes(k, count) \cup {n}
    /\ RemoveNode(n) => GetNodes(k, count) \subseteq GetNodes(k, count)' \cup {n}

OnlyItsKeysMove ==
    [][/\ \A n \in HNodes : AddNode(n) \/ RemoveNode(n) =>
             \A k \in HKeys, count \in 1 .. Cardinality(HNodes) : KeysStay(n, k, count)
       /\ \A k \in HKeys : GetNode(k) = GetNodes(k, 1)]_hVars

=============================================================================
