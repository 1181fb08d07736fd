----------------------------- MODULE MerkleTrees -----------------------------
(***************************************************************************)
(* Two copies of some data, compared through hash trees: MerkleTree of      *)
(* merkle-trees, over the list of the blocks, and MerkleTree of             *)
(* eventual-consistency-patterns, over the buckets of a dictionary, which   *)
(* MerkleSync compares.  A block is a key of the dictionary and the value   *)
(* MAbsent says that the key is not there.                                  *)
(*                                                                         *)
(* SHA-256 is taken to have no collisions: a hash is what was hashed, <<d>> *)
(* for a leaf and <<left, right>> for an inner node.                        *)
(***************************************************************************)
EXTENDS Integers, FiniteSets, Sequences

CONSTANTS
    MSizes,        \* numbers of blocks
    MValues,       \* what a block may hold, a set of numbers
    MAbsent,       \* the one of them that stands for no key
    MBucketings    \* <<num_buckets, _hash_key>>, from all keys to buckets

ASSUME MerkleAssumption ==
    /\ MSizes \subseteq Nat \ {0} /\ MAbsent \in MValues
    /\ \A b \in MBucketings :
          /\ b[1] \in Nat \ {0}
          /\ \A size \in MSizes : \A k \in 1 .. size : b[2][k] \in 0 .. b[1] - 1

VARIABLES
    mCopy,         \* <<local, remote>>, sequences of blocks
    mBuckets,      \* num_buckets
    mHashKey       \* _hash_key, from keys to buckets

mVars == <<mCopy, mBuckets, mHashKey>>

Blocks == DOMAIN mCopy[1]

\* One copy is changed in one place and its trees are built anew.
ChangeBlock(c, i, v) ==
    /\ mCopy' = [mCopy EXCEPT ![c][i] = v]
    /\ UNCHANGED <<mBuckets, mHashKey>>

MInit ==
    /\ \E b \in MBucketings : mBuckets = b[1] /\ mHashKey = b[2]
    /\ \E size \in MSizes : mCopy = [c \in 1 .. 2 |-> [i \in 1 .. size |-> MAbsent]]

MNext == \E c \in 1 .. 2, i \in Blocks, v \in MValues : ChangeBlock(c, i, v)

MSpec == MInit /\ [][MNext]_mVars

-----------------------------------------------------------------------------
(* merkle_tree.py: the tree as its levels, tree[0] the leaves.  The children  *)
(* of node i of a level are nodes 2i - 1 and 2i of the level below; where     *)
(* 2i is missing, the node is 2i - 1 itself, promoted.                         *)

Leaf(d) == [hash |-> <<d>>, width |-> 1]

MerkleNode(left, right) ==
    [hash |-> <<left.hash, right.hash>>, width |-> left.width + right.width]

\* Variant: an odd node is dropped.
ParentsOfPairs(nodes) ==
    [i \in {j \in DOMAIN nodes : 2 * j \in DOMAIN nodes} |->
        MerkleNode(nodes[2 * i - 1], nodes[2 * i])]

\* The level above; an odd node is promoted.
Parents(nodes) ==
    [i \in {j \in DOMAIN nodes : 2 * j - 1 \in DOMAIN nodes} |->
        IF 2 * i \in DOMAIN nodes THEN MerkleNode(nodes[2 * i - 1], nodes[2 * i])
        ELSE nodes[2 * i - 1]]

\* The levels narrow down to one node, well before there are as many as leaves.
BuildTree(copy) ==
    LET level[k \in 0 .. Len(copy)] ==
            IF k = 0 THEN [i \in 1 .. Len(copy) |-> Leaf(copy[i])]
            ELSE LET nodes == level[k - 1]
                 IN IF DOMAIN nodes = {1} THEN nodes ELSE Parents(nodes)
    IN level

Root(copy) == BuildTree(copy)[Len(copy)][1].hash

\* _get_proof_recursive: for each node of level k, the siblings on the way up to
\* it from its idx-th leaf.
PathsIn(tree, top) ==
    LET paths[k \in 0 .. top] ==
            LET below == paths[k - 1]
                nodes == tree[k - 1]
            IN [i \in DOMAIN tree[k] |-> [idx \in 1 .. tree[k][i].width |->
                    IF k = 0 THEN << >>
                    ELSE IF 2 * i \notin DOMAIN nodes THEN below[2 * i - 1][idx]
                    ELSE IF idx <= nodes[2 * i - 1].width
                    THEN Append(below[2 * i - 1][idx], <<"right", nodes[2 * i].hash>>)
                    ELSE Append(below[2 * i][idx - nodes[2 * i - 1].width],
                                <<"left", nodes[2 * i - 1].hash>>)]]
    IN paths

\* The first leaf that holds the element.
PlaceOf(copy, e) ==
    CHOOSE i \in DOMAIN copy : copy[i] = e /\ \A j \in 1 .. i - 1 : copy[j] # e

GenerateProof(copy, e) == PathsIn(BuildTree(copy), Len(copy))[Len(copy)][1][PlaceOf(copy, e)]

\* Variant: the side is not looked at.
CombineRight(step, hash) == <<hash, step[2]>>

Combine(step, hash) == IF step[1] = "left" THEN <<step[2], hash>> ELSE <<hash, step[2]>>

VerifyProof(root, e, proof) ==
    LET current[k \in 0 .. Len(proof)] ==
            IF k = 0 THEN <<e>> ELSE Combine(proof[k], current[k - 1])
    IN current[Len(proof)] = root

\* _diff_recursive: for each node of level k, its leaves that differ, counted
\* from its first.
DiffIn(tree1, tree2, top) ==
    LET diffs[k \in 0 .. top] ==
            LET below == diffs[k - 1]
                nodes == tree1[k - 1]
            IN [i \in DOMAIN tree1[k] |->
                    IF tree1[k][i].hash = tree2[k][i].hash THEN {}
                    ELSE IF k = 0 THEN {1}
                    ELSE IF 2 * i \notin DOMAIN nodes THEN below[2 * i - 1]
                    ELSE below[2 * i - 1]
                         \cup {nodes[2 * i - 1].width + x : x \in below[2 * i]}]
    IN diffs

Diff(copy, other) == DiffIn(BuildTree(copy), BuildTree(other), Len(copy))[Len(copy)][1]

-----------------------------------------------------------------------------
(* anti_entropy.py: a heap, the root at 1 and the buckets at the end.       *)

\* What is hashed of bucket b: its keys, in order, with their values.
Bucket(copy, b) == {<<k, copy[k]>> : k \in {j \in Blocks : mHashKey[j] = b /\ copy[j] # MAbsent}}

Heap == 1 .. 2 * mBuckets - 1

\* build
Hashes(copy) ==
    LET hash[node \in Heap] ==
            IF node >= mBuckets THEN <<Bucket(copy, node - mBuckets)>>
            ELSE <<hash[2 * node], hash[2 * node + 1]>>
    IN hash

KeysIn(copy, b) == {p[1] : p \in Bucket(copy, b)}

\* Variant: the keys the remote copy has and the local one has not are left out.
ListedLocally(local, remote, b) == KeysIn(local, b)

\* The keys of a bucket that differs, from both sides.
Listed(local, remote, b) == KeysIn(local, b) \cup KeysIn(remote, b)

\* _compare_recursive, from each node on.
CompareFrom(local, remote) ==
    LET ours == Hashes(local)
        theirs == Hashes(remote)
        keys[node \in Heap] ==
            IF ours[node] = theirs[node] THEN {}
            ELSE IF node >= mBuckets THEN Listed(local, remote, node - mBuckets)
            ELSE keys[2 * node] \cup keys[2 * node + 1]
    IN keys

CompareTrees(local, remote) == CompareFrom(local, remote)[1]

-----------------------------------------------------------------------------

Differing == {i \in Blocks : mCopy[1][i] # mCopy[2][i]}

\* The trees find every difference and, but for the neighbours in a bucket,
\* nothing else, for any number of blocks and of buckets: diff names the places
\* where the lists differ, whichever odd nodes were promoted; compare_trees names
\* the keys either copy has in the buckets where they differ
\* (merkle_tree.py:228, anti_entropy.py:61).
DifferencesAreFound ==
    LET spoilt == {mHashKey[k] : k \in Differing}
    IN /\ Diff(mCopy[1], mCopy[2]) = Differing
       /\ CompareTrees(mCopy[1], mCopy[2]) =
             {k \in Blocks : mHashKey[k] \in spoilt /\
                 \E c \in 1 .. 2 : mCopy[c][k] # MAbsent}

\* A proof that an element is in the one copy is accepted under the other's root
\* hash for that element alone, and only if it is there at the same place; under
\* its own root it is accepted (generate_proof, verify_proof).
ProofsProve ==
    \A c, d \in 1 .. 2 : \A e \in {mCopy[c][i] : i \in Blocks} :
        LET proof == GenerateProof(mCopy[c], e)
            root == Root(mCopy[d])
        IN \A claim \in MValues :
               LET accepted == VerifyProof(root, claim, proof)
               IN /\ accepted => mCopy[d][PlaceOf(mCopy[c], e)] = claim
                  /\ c = d => (accepted <=> claim = e)

=============================================================================
