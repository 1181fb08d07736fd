------------------------- MODULE PartitionCoordinator -------------------------
(***************************************************************************)
(* The fault-injection controller of network-partition-tester              *)
(* (src/partition_coordinator.py): overlapping partitions, crashes and     *)
(* healings that share one connectivity matrix.  Every operation holds the *)
(* controller's lock from end to end, the background auto-heal loop too.   *)
(* The matrix is never computed from the faults in force; each operation   *)
(* edits it in place and must leave it in agreement with the others.       *)
(***************************************************************************)
EXTENDS Naturals

CONSTANTS
    Node,           \* nodes
    MaxPartitions,  \* bound: partitions ever created
    OneWay          \* bound: pairs AsymmetricPartition may block

ASSUME PartitionAssumption ==
    /\ MaxPartitions \in Nat
    /\ OneWay \subseteq Node \X Node

VARIABLES
    partition_counter,
    partitions,      \* by number: groups, auto_heal with a duration, elapsed, active
    crashed_nodes,
    connectivity     \* the matrix

vars == <<partition_counter, partitions, crashed_nodes, connectivity>>

Pairs == {e \in Node \X Node : e[1] # e[2]}

\* What create_partition accepts: known nodes, none of them in two groups.
\* Nodes in no group stay connected to everyone.
Groupings == {gs \in SUBSET ((SUBSET Node) \ {{}}) :
                 \A g, h \in gs : g # h => g \cap h = {}}

Partition == [groups : Groupings, autoHeal : BOOLEAN, elapsed : BOOLEAN, active : BOOLEAN]

Separates(p, a, b) == \E g, h \in p.groups : g # h /\ a \in g /\ b \in h
Active(ps) == {i \in DOMAIN ps : ps[i].active}
Separated(ps, a, b) == \E i \in Active(ps) : Separates(ps[i], a, b)

\* _initialize_connectivity, then _apply_partition for every active partition.
Connected(ps) == [e \in Pairs |-> ~Separated(ps, e[1], e[2])]

\* Neither row nor column of a node in S is open.
Cut(conn, S) == [e \in Pairs |-> conn[e] /\ e[1] \notin S /\ e[2] \notin S]

Init ==
    /\ partition_counter = 0
    /\ partitions = [i \in {} |-> {}]
    /\ crashed_nodes = {}
    /\ connectivity = [e \in Pairs |-> TRUE]

\* create_partition: only the new groups are applied.
CreatePartition(groups, autoHeal) ==
    LET id == partition_counter + 1
        p  == [groups |-> groups, autoHeal |-> autoHeal, elapsed |-> FALSE, active |-> TRUE]
    IN /\ id <= MaxPartitions
       /\ partition_counter' = id
       /\ partitions' = [i \in DOMAIN partitions \cup {id} |-> IF i = id THEN p ELSE partitions[i]]
       /\ connectivity' = [e \in Pairs |-> connectivity[e] /\ ~Separates(p, e[1], e[2])]
       /\ UNCHANGED crashed_nodes

\* Variant: the record of a healed partition is dropped.
HealedGone(S) == [i \in DOMAIN partitions \ S |-> partitions[i]]

\* The partitions once those in S are healed.
Healed(S) ==
    [i \in DOMAIN partitions |->
        IF i \in S THEN [partitions[i] EXCEPT !.active = FALSE] ELSE partitions[i]]

\* Variant: the partitions that remain are not applied again.
HealForgetsOthers(S) ==
    /\ partitions' = Healed(S)
    /\ connectivity' = Cut([e \in Pairs |-> TRUE], crashed_nodes)
    /\ UNCHANGED <<partition_counter, crashed_nodes>>

\* heal_partition for the partitions in S: the matrix is rebuilt from those
\* that remain, and the crashed nodes cut off again.
Heal(S) ==
    /\ partitions' = Healed(S)
    /\ connectivity' = Cut(Connected(partitions'), crashed_nodes)
    /\ UNCHANGED <<partition_counter, crashed_nodes>>

HealPartition(i) == Heal({i})
HealAll == Heal(DOMAIN partitions)

\* crash_node
CrashNode(n) ==
    /\ crashed_nodes' = crashed_nodes \cup {n}
    /\ connectivity' = Cut(connectivity, {n})
    /\ UNCHANGED <<partition_counter, partitions>>

\* Variant: no link is opened.
RecoveredStill(n) == connectivity

\* recover_node: the node's row and column are opened, towards nodes still
\* crashed too, and the active partitions applied over them.
Recovered(n) ==
    [e \in Pairs |-> /\ connectivity[e] \/ n \in {e[1], e[2]}
                     /\ ~Separated(partitions, e[1], e[2])]

RecoverNode(n) ==
    /\ n \in crashed_nodes
    /\ crashed_nodes' = crashed_nodes \ {n}
    /\ connectivity' = Recovered(n)
    /\ UNCHANGED <<partition_counter, partitions>>

\* The duration of a partition passes (should_heal turns true).
Elapse(i) ==
    /\ partitions[i].active /\ partitions[i].autoHeal /\ ~partitions[i].elapsed
    /\ partitions' = [partitions EXCEPT ![i].elapsed = TRUE]
    /\ UNCHANGED <<partition_counter, crashed_nodes, connectivity>>

\* One turn of _auto_heal_loop, which heals every partition that is due
\* without letting go of the lock.
Due == {i \in DOMAIN partitions : partitions[i].active /\ partitions[i].elapsed}
AutoHeal ==
    /\ Due # {}
    /\ Heal(Due)

\* AsymmetricPartition.execute writes into the matrix and registers nothing.
BlockOneWay(e) ==
    /\ e \in OneWay \cap Pairs
    /\ connectivity' = [connectivity EXCEPT ![e] = FALSE]
    /\ UNCHANGED <<partition_counter, partitions, crashed_nodes>>

Next ==
    \/ \E groups \in Groupings, autoHeal \in BOOLEAN : CreatePartition(groups, autoHeal)
    \/ \E i \in DOMAIN partitions : HealPartition(i)
    \/ HealAll
    \/ \E n \in Node : CrashNode(n)
    \/ \E n \in Node : RecoverNode(n)
    \/ \E i \in DOMAIN partitions : Elapse(i)
    \/ AutoHeal
    \/ \E e \in Pairs : BlockOneWay(e)

Spec == Init /\ [][Next]_vars

\* can_communicate
CanCommunicate(a, b) ==
    /\ a \notin crashed_nodes /\ b \notin crashed_nodes
    /\ <<a, b>> \in Pairs
    /\ connectivity[<<a, b>>]

-------------------------------------------------------------------------------
(* Properties.                                                               *)

\* Partitions are numbered without gaps, and the matrix has an entry for every
\* ordered pair (partitions, partition_counter, connectivity).
TypeOK ==
    /\ partition_counter \in 0 .. MaxPartitions
    /\ partitions \in [1 .. partition_counter -> Partition]
    /\ crashed_nodes \subseteq Node
    /\ connectivity \in [Pairs -> BOOLEAN]

\* "Nodes in different groups cannot communicate": whatever was created,
\* healed, crashed and recovered since, an active partition is obeyed (the
\* matrix after heal_partition, recover_node; can_communicate).
FaultsAreObeyed ==
    \A a, b \in Node : CanCommunicate(a, b) => ~Separated(partitions, a, b)

\* "Restore connectivity (respecting active partitions)": live nodes that no
\* active partition separates can talk, unless a one-way block may stand
\* between them; no healed or overlapping fault leaves anything behind
\* (heal_partition, recover_node).
NothingLeftBehind ==
    \A e \in Pairs \ OneWay :
        /\ e[1] \notin crashed_nodes /\ e[2] \notin crashed_nodes
        /\ ~Separated(partitions, e[1], e[2])
        => CanCommunicate(e[1], e[2])

\* Nodes can talk exactly when no fault in force stands between them.
MatrixIsTrue == FaultsAreObeyed /\ NothingLeftBehind
===============================================================================
