# Verification of the distributed-systems collection

This directory holds TLA+ specifications of the programs in this repository, the
TLC configurations that check them on small instances, and proofs, checked by the
TLA+ proof system, of the theorems that matter most about them. Paths below are
relative to `src/`, and `RaftNode`, `commit`, ... are names of its code.

The repository is a collection: eighteen packages, each one a small library of its
own. No package imports another, so there is one specification per component.
Composition happens inside a component (a log inside a node, nodes around a network,
threads around a transaction, a manager around an election). Two composite modules,
`Cluster` and `Toolkit`, put the smaller libraries beside each other, so that one run
checks a whole family of them.

To repeat the checks: `tlc -config MCRaft_replication.cfg MCRaft` (and so on for every
`.cfg`; the part before the last lower-case word is the module), `tlapm RaftProofs.tla`
(and the other seven `*Proofs.tla`). `PROJECT.json` lists the runs, which source
lines every definition stands for, and the hazards the properties are aimed at.

Sections: 1 inventory, 2 modules, 3 correspondence with the code, 4 runs, bounds and
fairness, 5 proofs, 6 what the code does not keep or prevent, 7 what is not modelled.

## 1. Inventory

### Components with concurrency, failures or messages

| Component | State | Operations | Hard behaviours | What makes it correct |
|---|---|---|---|---|
| Raft node, `raft-from-scratch/src/raft_node.py`, `log.py`, `rpc.py` | term, vote, log, snapshot (on disk); role, commit and apply indices, per-peer indices, futures | election timer, vote handler and worker, submit, append handler and worker, apply and compact, read, stop, start | worker threads call peers without the lock; replies meet a node that has moved on; lost and reordered calls; restarts | one leader per term, logs match, state machines agree, results are durable |
| PBFT replica, `byzantine-consensus/src/pbft` | view, status, sequence number, accepted proposals, votes, prepared and committed keys | propose, handlers of REQUEST, PRE-PREPARE, PREPARE, COMMIT, VIEW-CHANGE, NEW-VIEW | Byzantine replicas, any order of delivery, nested delivery, view changes | agreement, quorums behind what is executed, progress, views nobody can force |
| Two-phase commit, `distributed-transactions/src/two_phase_commit.py` | transaction context, votes, undo logs | begin, add operation, prepare, commit, abort, execute | sends without the lock, failing sends, lost answers, timeouts, several client threads | atomicity, no commit without all votes, truthful final state, nothing stays prepared |
| Partition coordinator, `network-partition-tester/src/partition_coordinator.py`, `failure_scenarios.py` | partitions, crashed nodes, connectivity matrix | create, heal, crash, recover, auto-heal, one-way block | overlapping faults edited into one matrix, in any order, with a background thread | the matrix is what the faults in force say |
| Bully election, `leader-election/src/bully_algorithm.py` | role, leader, term, timers | start, stop, trigger, monitor, timeout, ELECTION, COORDINATOR, heartbeats | timers racing answers, several winners at a time, nodes that stop | the highest running node ends up leading, and answers whoever leads beside it |
| Ring election, `ring_algorithm.py` | ring, role, election flag | start, stop, trigger, monitor, token, announcement | several tokens at once, lost tokens | only the highest id is elected; everybody learns of it |
| Lease election, `lease_algorithm.py`, `election_manager.py`, `fencing.py` | lease copy, votes, term, epoch | attempt, request, grant, heartbeat, renew, monitor, step down | leases that expire at different times, late grants, old requests | one leader before anybody's second term |
| Lock, lock manager, fencing, `distributed-locks/src` | owner, token, expiry, token counter | acquire, renew, release, lazy expiry, get_token | TTL passing while a holder works, late releases | one holder within its TTL |
| Redlock, `redlock.py` | one key per server, the client's token | acquire with attempts, release | partial success, lost answers, expiry | a majority per holder |
| Deadlock detector, `deadlock_detector.py` | wait-for graph | record lock, wait, release; search | sets walked in any order | reports a cycle, and only cycles |
| Quorum system, `quorum-systems/src/quorum_system.py` | versioned replicas, hints, pool | write, read, hinted handoff | replica writes that land after their timeout, overlapping writers | a read sees the last completed write; every miss has a hint |
| Service registry, `service-discovery/src/service_registry.py` | instances, status, heartbeat, observers | register, heartbeat, deregister, checks, discover, get_instance | checks that end after the heartbeat or the removal they race | a round sets statuses right; callers are served in turn |
| Gossip and membership, `gossip-protocol/src` | store of entries, members with incarnations | set, delete, push, pull, ping, merge | lost and reordered datagrams | nodes converge; the gravest newest news wins |
| Read repair and sessions, `eventual-consistency-patterns` | replicas, session clocks | read, write, repair | repairs that write what an old read found, failing calls | replicas converge; sessions read causally |
| CRDTs, `crdt/src`; dotted version vectors, `vector-clocks-advanced/src` | counters, sets, registers, contexts | update, merge, compare | concurrent updates, old and repeated states | the value is a function of the updates seen |
| Rate limiters, `rate-limiting/src` | buckets, windows, shared script | allow | idle buckets, moving rates, boundaries of windows | no stretch of time lets through more than promised |

### Sequential components

`clock-skew-simulator` (Lamport, vector and hybrid clocks and their analyzer over
physical clocks that drift), `consistent-hashing` (a ring of virtual nodes),
`bloom-filters` (plain, counting, scalable), `merkle-trees` and the anti-entropy trees
of `eventual-consistency-patterns`. Their operations are atomic; what is hard in them
is collisions, odd sizes, clocks that stand still, and long sequences of calls.

### Not modelled

Raft's storage and state machine, the lease lock, the phi accrual detector, the
physical clocks and NTP, the proxy and its statistics, `distributed-tracing`:
section 7 says why. `PROJECT.json` lists every component with its status, and the
hazards found while reading the code, each at its line.

## 2. Modules

| Module | What it is |
|---|---|
| `RaftLog` | `log.py` as operators on a value: append, get, truncate, match, compact, and the merge loop of `handle_append_entries` |
| `Raft` | a cluster of `RaftNode`s and the calls between them; extends `RaftLog` |
| `AtomicCommit` | abstract specification: participants settle one by one, all the same way |
| `TwoPhaseCommit` | the coordinator, the participants, and the threads inside them; implements `AtomicCommit` |
| `PBFT` | the replicas, with Byzantine ones |
| `BullyElection`, `RingElection`, `LeaseElection` | the three election algorithms |
| `ElectionManager` | one of them behind the manager, and the token each leader issues; extends the three |
| `DistributedLock`, `Redlock`, `DeadlockDetector` | the parts of `distributed-locks` |
| `LockService` | those three beside each other |
| `PartitionCoordinator` | faults over one matrix |
| `QuorumSystem`, `ServiceRegistry` | the two packages of those names |
| `Gossip`, `Membership` | one key and the known addresses over UDP; the rules for one member's status |
| `ReadRepair` | replicas of one key, repairs, causal sessions |
| `CRDT`, `LogicalClocks`, `RateLimiters`, `HashRing`, `BloomFilters`, `MerkleTrees` | the data structures and algorithms |
| `Selection` | what a list comprehension with a condition keeps of a list, for the two modules that filter |
| `Cluster` | bully, ring, gossip, membership, read repair: the services that converge |
| `Toolkit` | election manager, locks, partitions, quorums, registry, and all the data structures: the libraries that promise safety |
| `RaftProofs`, `RaftLogProofs`, `TwoPhaseCommitProofs`, `PBFTProofs` | theorems and proofs about the modules of those names, elections and logs of Raft apart |
| `ClusterProofs`, `LockServiceProofs` | theorems and proofs about elections, membership and read repair; about the parts of `distributed-locks` |
| `ToolkitProofs`, `ReplicaProofs` | theorems and proofs about the other libraries: partitions, quorums, registry, clocks, limiters, hash ring, Bloom filters; CRDTs and Merkle trees |
| `MC*` | instances for TLC: symmetry sets and values of structured constants |

A composite adds one variable (`part`, `clusterPart`, `lockPart`) that is chosen at
first and never changes: a behaviour is of one library. The others keep their initial
values (`Resting` picks one of the several initial values a resting library could have,
so that it does not multiply the states). So no interaction is claimed that the code
does not have, and the behaviours of a composite are exactly the union of the
behaviours of its parts. `Cluster` conjoins the fairness of its parts; in the initial
state of a part no fair action of it is enabled, so a part that rests is not asked for a
step. `Toolkit` checks safety only and has no fairness.

Some definitions come in a second form whose comment begins with "Variant:". It is
what the operator would be with a plausible mistake in it (a dropped guard, an
off-by-one). Nothing uses it: putting it in the place of the real one and running
the configuration again violates a property, which shows that the property does
depend on that piece of the code. `PROJECT.json` lists the pairs under "mutants".

## 3. How state and actions correspond to the code

### Raft

A `RaftNode` holds its lock for the whole of a handler, so a handler is an action.
Only remote calls run without it: `_request_vote_worker` and
`_append_entries_worker` copy the arguments under the lock, call the peer, and take
the lock again for the reply. A call in flight is a record in `voteCalls` or
`appendCalls`, and its steps are actions of their own:

| Step | Actions | Code |
|---|---|---|
| arguments captured | `ElectionTimeout`, `AppendEntriesCall` | `_start_election`, `_append_entries_worker` before the call |
| handler at the peer | `HandleRequestVote`, `HandleAppendEntries` | the handlers |
| reply digested | `RequestVoteReply`, `AppendEntriesReply` | the workers after the call |
| unreachable or raised | `RequestVoteLost`, `AppendEntriesUnreachable`, `AppendEntriesLost` | `InMemoryRPC` and the workers' `except` |

`SubmitCommand`, `Stop` and `Restart` are the rest. `HandleAppendEntries` and
`AppendEntriesReply` include the apply loop, the resolution of futures and the
snapshot that follow in the same critical section. `Restart` is a new process on the
same storage: term, vote, log and snapshot are read back and everything else is new.
Calls that were on their way stay (`stage` becomes "orphaned"): a peer may still
handle them, and nobody waits for the reply. `Stop` without `Restart` leaves the
worker threads running, and a stopped leader's workers still capture and send, since
`_append_entries_worker` looks at the role only.

`commit_index` and `last_applied` are one number here: every assignment to the first
is followed by the apply loop before the lock is released. The state machine is the
sequence of commands it consumed. Votes received are triples (candidate, term,
voter), because each election has its own `votes_received` set, held by its workers.

A call that fails for the candidate has the same effect whether the peer was cut off
or not (`(0, False)` changes nothing), so one action covers both. For AppendEntries
they differ (a refusal moves `next_index` back), so there are two.

**The assumption on time.** `RPC_TIMEOUT` is 100 ms and `election_timeout_min` 150 ms
(`config.py`); if both were enforced, a candidate would never start an election while
a vote call of its previous one is out. The constant `Timely` states this. But
`InMemoryRPC` enforces no timeout, so the runs and the theorem that need `Timely`
name it, and `raft_late_vote` shows what the code does without it.

### Two-phase commit

The module is about one transaction; contexts and undo logs are filed by transaction
id and share nothing. `call[t]` says where a thread is: inside which phase, which
participants are left, whose answer is on its way. The lock covers the entry and the
end of a phase and the recording of a vote, which are actions (`BeginPrepare`,
`RecordVote`, `EndPrepare`, ...); a send with the participant's handler is one action
(`SendPrepare`, `SendCommit`, `SendAbort`), and it may fail before or after it took
effect. `Executed` says whether the transaction is run by `execute_transaction`
(one thread, prepare, then commit or abort) or by clients that call the three methods
as they like, as the package's tests do. `Expire` is the timeout; it is looked at
between two sends and at the end of the prepare phase, where the code looks.

The README of the package also names three-phase commit and sagas; there is no code
for them.

### Partition coordinator

Every public method and every turn of the auto-heal loop holds one lock: one action
each. A grouping need not cover all nodes. `BlockOneWay` is
`AsymmetricPartition.execute`, which writes one entry of the matrix without
registering anything. Time is a step `Elapse` of a partition that has a duration.

### PBFT

`msgs` is what has been broadcast. A message stays there and reaches any replica at
any time, again, or never, which is what the abstract `Network` allows. The
`InMemoryNetwork` of the tests delivers from inside `broadcast`, so that handlers
nest; since after a broadcast a handler only checks its quorum once more, what a
nested delivery leaves is also left by delivering the messages one after another.
The two checks (`CheckPrepared`, `CheckCommitted`) are evaluated where the handlers
call them, in the same action. Byzantine replicas have no state: they send any
message of the types in `Lies` under their own name (`receive` checks no signature;
a forged sender is outside PBFT's assumptions). A replica in `Byzantine` with nothing
in `Lies` has crashed. A PRE-PREPARE carries a digest and a request, and they are two
things: `propose` computes the one from the other (`digestOf`, taken to be injective), but
`handle_pre_prepare` compares neither ("omitted") and `execute_request` runs the request
that is embedded, so a Byzantine replica may send any pair. What is logged under a key,
and what `executed` records, has both. `handle_reply` is empty.

### Elections (`leader-election`)

All three algorithms are modelled on the package's local transport, which delivers each
message in a thread of its own: messages overtake one another, and those for a node that
is not running are dropped. Handlers and timers hold the node's lock, so each is one
action.

*Bully.* `StartElection` and `BecomeLeader` are operators that the actions share, as
`_start_election` and `_become_leader` are methods that handlers share. OK is not
represented: its handler does nothing. `BullyTimeout` is the timer, which asks neither
whether an OK has arrived nor whether the node still runs. Its guard states the one
assumption on time: a message takes less than an election timeout, so what a node sent
before this election has arrived. `BullyMonitor` may fire at any time, since heartbeats
may be late. Heartbeats cross other messages; `BullyMaxUnderWay` bounds how many
messages are on their way when one is sent.

*Ring.* A token is the set of nodes it lists, as the code asks only for membership and
maximum. The ring skips nobody; a token that reaches a stopped node is lost. Two tokens
of one content to one node are one here: handling one leaves what handling both leaves.
The monitor checks outside the lock (`ring_algorithm.py:249`) and starts an election under
it, which is one step here; `_start_election` checks its flag again.

*Lease.* Every node has its own copy of the lease, and `LeaseExpires` is the moment one
copy runs out: copies are issued at different times. The leader's own copy is written
once, in `_become_leader`, so it runs out however often the leader renews. `Renew` happens
at any moment, whatever is on its way, so heartbeats and renewed requests cross requests
and grants, overtake them and come late or not at all. Its loop reads the flag without the
lock just before it sends (one step here): a leader deposed in between sends what it might
have sent before, as long as its term is the same. `Attempt` is the thread that wakes
after the random sleep. `lElected` is history for the property.

*Manager.* The callback runs inside the handler that changes the leader, so `Issue` is
conjoined to the step of the algorithm. `epoch` is per node, as each node has its own
`FencingTokenManager`.

### Locks (`distributed-locks`)

*Lock.* `dUsage` says by which of the code's interfaces each client goes: by owner, by
the token of the manager, by the context manager, or by the fenced lock with a resource
that validates its tokens. An acquisition is named by its number. A TTL passes for one
acquisition (`TTLPasses`), and only whoever looks next clears the lock (`LookAtLock`, and
the expiry check inside `Acquire`, `Release`, `GetToken`), as in the code. A client of
the manager makes two calls, `acquire()` and then `get_token()`; between them it is in
`dPc = "got"`. `LockSlow` lists the clients that may take a TTL for that.

*Redlock.* `SetKey` and `DeleteKey` are one server call each, in the order of the list; a
set may take effect without an answer. The window of a client is open from the start of
an attempt to `ttl` - 200 ms. A key lives for `ttl` from when it was set: assuming that no
server's clock is off by the 200 ms the code allows for, it outlives the window, and
`KeyExpires` is guarded by that. A failed attempt calls `release`, which forgets the
token, as the code does.

*Deadlock detector.* The depth-first search is a step per neighbour with its stack in
`wStack`, and which neighbour comes next is a choice, since the code walks Python sets.

### Quorums and registry

*Quorum system.* Operations are numbered as they begin; a write's number is its version,
as the code takes the version from the clock then; choosing it and submitting the tasks is
one step, which loses nothing for writes that come one at a time, the only ones
`ReadsSeeCompletedWrites` is about. The tasks of an operation enter the
pool's queue together, `RunTask` runs a task that has got a thread, and an operation
returns when it has enough answers or gives up (`ReturnWrite`, `ReturnRead`); tasks it
has given up on still run. `QuorumMath` checks the helpers that have no state against
their definitions over all small inputs; TLC evaluates it as an assumption of
`MCToolkit`.

*Registry.* A check is three steps (`StartCheck`, `Probe`, `FinishCheck`), because the
code reads the instance, probes, and writes the status without the lock in between. A
round checks all instances concurrently. `Pick` reads the round-robin index outside the
lock, over a list obtained earlier (`AskRegistry`).

### Gossip, membership, read repair

*Gossip.* One key; an entry is its version, its writer and whether it is a tombstone.
Writers give each write a new version, so the value follows from these. Whom a node
knows is a set of addresses (a seed is a second way to the same address). A lost datagram
needs no action: `Receive` need not happen.

*Membership.* The rules of `update_member` and `merge_membership_list` for one member
held by several nodes; `vHeard` is the history the property is about.

*Read repair.* A read collects answers one by one (`PGet`), answers with the latest
(`PAnswer`) and leaves a task that writes it to every replica whose answer was older or
missing (`PRepair`), whatever that replica holds by then. A session accepts a version or
not by its clock. `PWrite` is what the tests and the example do: prepare in the session,
put on one replica.

### Data structures and algorithms

*CRDTs.* A behaviour is about one class. `Ship` is `to_json`, `Merge` merges the last
serialised state of another replica, which may be old or merged again. `cOps` and `cSeen`
record which updates have reached whom; they only serve to say what a replica must answer.
Replicas are numbered 1, 2, ... in the order of their `node_id`s, by which ties are broken.

*Clocks.* All three clocks run on the same events, and a physical clock reads any time
at all. *Rate limiters.* Time counts ticks, tokens are counted in parts of one so that a
tick brings a whole number. The clients of the Redis limiter read one clock: each passes its
own `time.time()` in the code (`distributed_limiter.py:80`), so what their skew does to the
window is not modelled. *Hash ring.* Any assignment of hashes to virtual nodes,
collisions included; the sorted list is a set of pairs and bisection is the least pair
ahead. *Bloom filters.* Any seeds of the double hashing; a scalable filter is a sequence
of layers. *Merkle trees.* A hash is what was hashed (no collisions); the two copies
differ in any places, and both tree classes are built over them (an empty dictionary has a
root here and none in the code, `anti_entropy.py:16`; comparing gives the same). The recursion of
`_build_tree`, `_get_proof_recursive` and `_diff_recursive` goes level by level and node by
node in the model (`BuildTree`, `PathsIn`, `DiffIn` are functions on levels), and that of
`_compare_recursive` goes over the numbers of the heap.

## 4. Runs, bounds, fairness

Every run is over the code as it is. A passing run checks what the code does
guarantee; a run that ends in a violation checks one sentence that a document of the
repository states, and shows the code not keeping it.

### Raft (three nodes)

| Run | Question | Bounds |
|---|---|---|
| `raft_replication` | one leader per term, votes are final, log matching, state machine safety, leader completeness, results are on a majority of disks | 2 terms, 2 commands, two candidates one of which stops and restarts at will, a snapshot every two entries, one AppendEntries in flight |
| `raft_progress` | a submitted command is applied everywhere | 1 term, one leader, 2 commands, lost and refused calls |

Three nodes are the smallest cluster with a majority that is not everyone. Two terms
with two candidates give a deposed leader whose uncommitted entries conflict with
those of its successor, which is where truncation and the log checks come in. The
bound of one AppendEntries in flight loses the reordering of two calls;
`raft_snapshot_conflict` has two, and so finds what a delayed call can do. A vote call
reaches one peer per election in the passing runs (a majority of three needs no more)
and both in `raft_late_vote`; the theorems on elections have no such bound.

Violations:

* `raft_late_vote`: the worker counts a granted vote without comparing the term it
  was asked for (`raft_node.py:210`). A vote that outlives its election elects its
  candidate in a later term, beside the leader that term already has.
* `raft_snapshot_conflict`: for an index inside the snapshot `get_term` answers with
  the snapshot's term and `truncate` does nothing (`log.py:78`), so the loop of
  `handle_append_entries` appends an entry that is already covered behind the log. It
  takes a delayed AppendEntries that starts below the follower's snapshot.

### Two-phase commit

| Run | Question | Bounds |
|---|---|---|
| `tpc_execute` | implements `AtomicCommit`; atomicity; the recorded outcome is true; whoever can be reached is not left prepared | 3 participants, one operation each; commits and aborts to two of them may fail, or succeed and lose the answer |

Three participants let one vote NO, one have voted and one not be asked yet; all
combinations of votes and all points of expiry are enumerated. The participant whose
own sends do not fail is the one `PreparedIsSettled` is about: what happens to the
others must not keep it waiting.

Violation: `tpc_race`. `abort` refuses only COMMITTED (`two_phase_commit.py:358`), so during
the commit phase of another thread it is accepted, and both outcomes happen. The run is
about this alone: its action constraint `AbortsComeLate` leaves out aborts that begin
before the commit phase, which lead there in another way (section 6).
`ExecutedIsAtomic` is therefore a theorem about `execute_transaction`, which calls one after the other.

### PBFT

| Run | Question | Bounds |
|---|---|---|
| `pbft_equivocate` | agreement on digests, and on requests where they belong to the digests, and quorum backing, under a primary that proposes two digests | 4 replicas, primary Byzantine, 2 requests, either of them embedded with either digest, 1 number, 1 view |
| `pbft_views` | no view without f + 1 honest replicas asking; while nobody changes views every request made is executed by every replica | 4 replicas, one Byzantine that votes for view changes, 2 views, 1 request |

Four replicas is 3f + 1 for f = 1. One number and two requests are what a
disagreement needs. `Clients` and `Suspects` name the replicas on which the embedding
program calls `propose` and `trigger_view_change`. The Byzantine replica's PREPAREs are
left out of `Lies` in `pbft_equivocate`: with them the run grows beyond TLC, and the
theorems, which bound nothing, cover them.

Violation: `pbft_new_view`. The new primary numbers from what it assigned itself
(`node.py:205`), so a number is given out a second time and two honest replicas hold
different requests under it. It needs no forged NEW-VIEW, only a legal view change. A
forged one is accepted too (the source says "Verify (omitted)").

### `cluster_agree`

| Part | Properties | Bounds and why they suffice |
|---|---|---|
| bully | `LowerLeadIsAnswered`, `HighestLeads` | 3 nodes: a lowest, a highest and one that is both higher and lower; the highest may stop, so its late claims and its timer are about while the next takes over. Terms stop at 1: after one election everybody has met, and terms only rank heartbeats; a heartbeat is sent while fewer than 2 messages are on their way, so that it crosses a claim or an answer |
| ring | `RingElectsTheHighest`, `RingAgrees` | 3 nodes, the highest and the lowest may stop, one node's `trigger_election` starts further tokens: several tokens, tokens lost before and after the highest |
| gossip | `GossipConverges` | 3 nodes on a line for push, so that news must pass through the middle one, and 2 for pull and push-pull; 2 versions written at both ends, a tie and a newer one; one datagram of a kind on each link |
| membership | `ViewIsGravest` | 2 nodes, 2 incarnations, all statuses: all pairs the rules compare |
| read repair | `SessionsAreCausal`, `ReplicasConverge` | 2 replicas, 2 clients, 2 writes (the least that can be concurrent), 1 failing call |

### `toolkit`

| Part | Properties | Bounds and why they suffice |
|---|---|---|
| elections behind the manager | `FirstTermElectsOne` | lease: 3 nodes, two that contend in term 1, so that their requests cross, one more that is triggered and may stop, renewals at any moment, whatever is under way; bully (2 nodes) and ring (3) run here for the manager's calls only, their properties are `cluster_agree`'s; the property speaks of the time before anybody's second term only, so one term loses nothing |
| lock | `LockExclusion` | 3 clients, 4 acquisitions, four mixtures of usages: a holder, one that overtakes it and one that comes late |
| Redlock | `RedlockExclusion` | 3 servers (majority 2), 2 clients, 2 attempts each |
| deadlock detector | `CycleIsDeadlock` | 3 processes, 3 resources, one process that waits for several: cycles of two and three with a way into them |
| partition coordinator | `MatrixIsTrue` | 3 nodes, 2 partitions, one pair that may be blocked one way: an overlap of which either is healed first, groupings that cut across each other, a node in none |
| quorums | `ReadsSeeCompletedWrites`, `MissesAreHinted` | 3 replicas, W = R = 2, 3 operations: two writes and a read |
| registry | `RoundSetsStatus`, `RoundRobin` | 2 instances: one is probed and may go quiet, the other may leave; 2 callers, whose lookups and rounds cross these |
| CRDTs | `ValueIsHistory`, `CompareIsCausality` | 2 replicas, 3 updates, one timestamp tie, gaps of 2 in the dotted vectors |
| clocks | `TimestampsFollowCausality` | 3 nodes, 4 events, physical clocks that read 1 or 2 in any order |
| rate limiters | `AdmittedWithinRate` | capacity 2, window 3, 7 ticks (two windows and one), 7 requests |
| hash ring | `OnlyItsKeysMove` | 3 nodes, 3 hashes, all assignments of virtual nodes (so all collisions), keys below, at and above every hash |
| Bloom filters | `NoFalseNegatives` | 2 elements, 2 hashes, 3 buckets (so that they share buckets), 6 operations |
| Merkle trees | `DifferencesAreFound`, `ProofsProve` | 1, 3, 5 and 6 blocks: odd nodes on different levels and on none; 1, 3 and 4 buckets |

A counter of the counting Bloom filter stops at `BLimit`; the code's limit of 2^32 - 1
is far above anything the run reaches, and `NoFalseNegatives` is only promised below it.

Violation, in a run of its own: `crdt_map`. A register that is first made by a merge
keeps the owner it has at the other replica (`lww_map.py:107`), so a later put here is
signed with the other's name, and two puts with one timestamp are told apart
differently at different replicas. `ValueIsHistory` therefore covers the map without
ties (`CTies`), and this run with them.

### Deadlock

`CHECK_DEADLOCK FALSE` everywhere: each of these systems may stop (the bounds are used
up, a transaction is over, every request is executed, a client makes no call). That
something must still happen is stated by the liveness properties instead.

### Fairness

* `Raft!FairSpec`: the heartbeat timer arms itself again for as long as the node leads
  and starts a worker per peer each time, so each peer is called again and again; a
  worker that holds a reply finishes. No connection fails for ever: of endless calls
  to a peer some are handled and of its endless answers some arrive (strong fairness
  per peer). Elections, clients, losses and restarts are not fair.
* `TwoPhaseCommit!FairSpec`: a thread inside a call goes on (weak fairness per
  thread), because every send of the code returns or raises. It is also what makes
  `execute_transaction` call `commit` or `abort` after `prepare`.
* `PBFT!FairSpec`: the network delivers every message a first time to each replica
  (weak fairness per honest replica, on deliveries that are new to it). Byzantine
  replicas, clients and timers are not fair. `RequestsAreExecuted` is about behaviours
  that stay in view 0: the code does not carry requests across a view change.
* `BullyFairness`: armed timers fire, the monitor loop looks again, and running nodes
  receive. Starting, stopping, triggering and the heartbeat loop are not fair.
* `RingFairness`: the monitor loop looks again, tokens and announcements arrive.
  `RingAgrees` is about behaviours in which all nodes come up and stay up: a ring with a
  stopped node passes nothing on.
* `GossipFairness`: rounds go on for as long as the node runs and choose every member
  again and again (weak fairness per link, as the peers are drawn at random from all
  members); of the datagrams sent again and again some arrive (strong fairness for the
  pull requests, whose answer must find the way back).
* `PFairness`: clients keep reading, and the executor runs its repair tasks to the end.

## 5. Proofs

All theorems hold for every value of the constants; the only assumptions are the
named `ASSUME`s of each module (that the set of nodes is finite, that the values
standing for "nobody" are not nodes, that rates, sizes and bounds are numbers and that
what the code divides by is not 0) and what a theorem states itself.

The provers cannot be given an induction principle over an operator. Induction over
numbers is therefore done over sets: a set of numbers that holds 0 and, with each
number, the next one, holds them all, since otherwise it would miss a least one
(`EveryNumber`, from the well-foundedness of `<` on the naturals). What the code computes
in a loop is written as a recursive function on positions (`MergeSteps` for the loop of
`handle_append_entries`, `KeepSteps`, `Granted`, `Scale`), and `Stepwise` and
`RecursionDefines` show that such a function exists and satisfies its equations.

**`RaftProofs`.** `ElectionIsSafe` (under `Timely`), `VotesAreFinal` and
`ElectionTypes`. `ElectionSafety` is not inductive: that no term has two leaders says
nothing of votes on their way. The invariant `ElectionInv` speaks of *ballots*, the
votes a candidate has counted together with the granted ones in flight:

* `BallotsWereCast`: a node whose ballot is about has still that vote or a later term;
* `OneVotePerTerm`: no two ballots of a node in one term are for different candidates;
* `LeadersWereElected`: a leader has a majority of ballots of its present term;
* `CallsAreCurrent`: a candidate's vote calls are of its present term.

Two majorities share a node (`MajoritiesIntersect`), and its two ballots are one. The
last two parts need `Timely`: `CallsAreCurrent` is what lets the worker's unchecked
vote count, and it is exactly what `raft_late_vote` breaks. `VotesAreFinal` needs no
such assumption and holds through restarts, since term and vote are on disk before
a handler ends.

**`RaftLogProofs`.** `LogsAlwaysMatch`, `StateMachinesAgree`, `LeadersAreComplete`,
`ResolvedStaysDurable`, and of steps `AppliedIsNeverTruncated` and `EntriesNeverMove`. None of
these is inductive, and the state forgets what the argument needs: a snapshot replaces
entries, a new leader the logs of earlier ones, and a vote the votes before it. The
invariant `LogHistory` says that a past exists which explains the state. It is made of
five values:

* `whole`: the log of each node as if it had never been compacted;
* `won` and `lead`: the terms that had a leader, and that leader's log up to its last
  entry;
* `cast`: the votes cast, and `kept`: which node stored which entry of which leader.

`LogInv` relates them to the state. A log follows the leader of each of its terms up to
the last entry it has of it, so two logs that share a term at an index are the same
leader's log there (*log matching*). Every entry a commit index has passed was stored by
a majority while its leader's term was the present one (`Progress`, `CommitOK`); every
later winner was voted for by a node that had stored it, and no such node votes for a
log that is less fresh (`Winners`, `Candidates`), so a winner's log has it (*leader
completeness*). What is applied is below the commit index, and two nodes' entries at one
index are then those of one leader (*state machine safety*). Steps change the five
values as they must: a win adds a leader, a merge a `kept`, a compaction none. TLC
checked the parts of the invariant first, with the five values kept in history
variables.

Two hypotheses stand for what the code does not enforce by itself. `Timely` is that of
`RaftProofs`. `NoConflictBelowSnapshot`: no handled AppendEntries brings, for an index
inside the receiver's snapshot, an entry of another term than the snapshot's last. For such an
index `get_term` answers with the term of the snapshot's last entry, a conflict is
seen where there is none, `truncate` does nothing, and the entry is appended again behind
the snapshot. This moves an entry (the finding of `raft_snapshot_conflict`) and can leave a
node with a last term lower than before, which weakens the freshness check that
leader completeness rests on. The hypothesis excludes exactly those steps, so that
what the theorems say is: apart from late calls, this is the only way the modelled log
handling loses what Raft promises.

**`TwoPhaseCommitProofs`.** `ExecutedIsAtomic` and `ExecutedIsAtomicCommit` (a
transaction run by `execute_transaction` implements `AtomicCommit`, with `fate` of a
participant mapped to "prepared" while it keeps an undo log). The invariant says, for
each place the thread can be at, how far participants can have come: while asking,
nobody has settled and every YES has left an undo log; while committing, everyone has
reserved; while aborting, nobody has committed. Each action is a step of
`AtomicCommit` or leaves `Fate` alone. `ExecutedEndsTruly` says that the state recorded
at the end is what happened. `FinalInv` adds to the invariant what the commit phase has
achieved so far: as long as no send has failed, everyone already served has committed.

**`PBFTProofs`.** `TypesHold`, and `AgreementHolds` and `ExecutedHasQuorum` for 3f + 1
replicas and at most f Byzantine ones (`FewFaults`), whatever these send, any request
under any digest included. `TypeInv` has one fact that the types alone do not say: a
replica accepts one PRE-PREPARE per key (`OneAccepted`), so that the digest it counts
COMMITs for is that of the entry it executes (`AcceptedAs`). `CommitInv` is about COMMITs
alone: an honest replica says one per key (`SaidOnce`, because it marks the key
prepared when it says it, `SaidWhenPrepared`); what honest replicas hold of one
another was said (`HeardWasSaid`); what is executed had a quorum (`Counted`). Any two
quorums share an honest replica (`QuorumsIntersect`). It is striking that the argument
does not use what PRE-PREPARE and PREPARE say: within a view, agreement on digests rests on
the COMMIT quorum, and the unverified sender of a PRE-PREPARE cannot break it. On requests
honest replicas agree as far as these are the ones the digests were computed from
(`Genuine`), and no further: the code does not check it (section 6). `FewFaults`
is needed as it stands: the quorum is 2f + 1 whatever `total_nodes` is, and with five
replicas two quorums of three may share the Byzantine one only, so that honest
replicas disagree.

`ViewsWereAskedFor`: f + 1 honest replicas have asked for every view a replica is in, if
Byzantine ones make up no NEW-VIEW (which replicas would believe, see section 6).
`ViewInv` says where the number of those who asked travels: into the logs of votes
(`Logged`), from a full log into a NEW-VIEW (`Announced`), and from that into a view
(`Entered`); who has asked stays so (`AskedGrows`).

**`ClusterProofs`: elections.** `RingElectsOnlyTheHighest`, for rings of any size.
`TokensAreArcs`: the nodes a token lists are closed under "next in the ring", but for
the one it is on its way to. When it meets a node it lists, its list is closed
altogether, and a closed set holds the highest id (`ClosedHasTheHighest`: going round in
order of ids, nobody is higher than the last before the wrap). Losing tokens and
starting others does not disturb this.

`BullyAnswersLowerLeads`, for any nodes, terms and numbers of messages under way: while the
node with the highest id runs, a lower leader's COORDINATOR is on its way to it, or its own
to that leader. `BullyInv` adds that the highest node is never waiting in an election
(`TopNeverWaits`), so that each election it is asked for ends with its claim, that nobody
leads before `start()` (`UnstartedIdle`), and that messages are for running nodes. Whoever
wins tells the highest (`BecomeLeaderKeepsInv`); a step of a third node takes no claim
between these two away (`ClaimsStay`); the highest answers a lower claim by its own, and
whoever takes that leads no longer (`AcknowledgeKeepsInv`).

`FirstLeaseIsOne`, for any number of nodes, with renewals at any moment. That one node has been elected is not
inductive: another might have a quorum on its way. `LeaseInv` speaks of ballots, as
`RaftProofs` does, counted or in flight. Before anybody is elected, each ballot is the
present vote of its giver (`NobodyYet`); afterwards some quorum is bound to the elected
(`Elects`): its members have voted for it and for nobody else, so a second quorum would
share a bound member (`LeaseQuorumsMeet`). An expired owner is granted whatever has been
voted, which does no harm here since only the elected is ever known as an owner
(`HoldersElected`). A second term ends all this, as it clears the votes of the first
(section 6).

**`ClusterProofs`: convergence.** `ViewsAreGravest`: what is believed of a member is an
update that was heard and that none of those heard overrides, in whatever order they
came. Beside the types the invariant adds only that nothing is believed where nothing
was heard: under the rules of `update_member` an update that a second does not override,
and that itself is not overridden by a third, ranks between them (`OverridesRanks`).
`SessionsStayCausal`: `RepairInv` adds that a session's clock covers what it has
accepted (`SessionsCovered`); a new version is accepted only when it covers that clock,
so it comes after all the others, whatever replica it came from and however late.

**`LockServiceProofs`: locks.** `LockExcludes`, under `LockSlow = {}`: a client's second call
(`get_token`, `generate`) comes within the TTL of its first. Without it a client may
fetch the next holder's token and release that holder's lock, and the statement is
false. The heart of `LockInv` is that at most the acquisition the lock names is live
(`LockNamesGrant`), and that a client within its TTL still has the lock (`Has`). The
usages that verify nothing lose this once somebody was late, and are waived from then
on (`Waived`), as the property itself waives them; the types and `GrantsAreOwn` hold
regardless.

`RedlockTyped`, and `RedlockExcludes` for any number of servers,
clients and attempts. `KeysKept`: what a client has set in its open window is
still its own, because nobody else's release matches its token, and the key outlives the
window. Two holders would have majorities that share a server (`QuorumsMeet`), whose key
would be two tokens.

**`LockServiceProofs`: deadlock search.** `DeadlocksAreFound`, for the recursion of
`dfs` with the stack it has. `SearchInv` says that the stack is a path of the waits-for
graph, that what is still to be visited of a process on it are waits of its own, and
that what has been visited and left (`DoneBy`) holds no circle (`NoCircleIn`). A
neighbour on the stack closes a circle of waits, which is what is returned. When a
process is left, all it waits for has been left before, so no circle goes through it;
and when the stack is empty and every key visited, there is no circle at all.

**`ToolkitProofs`: hash ring.** `KeysMoveOnlyWithTheirNode`, for any hashes and any number of
replicas. `get_nodes` walks the ring and takes the first distinct nodes; here a node is
among the first `count` when fewer than `count` others are met before it (`MetBefore`, a
finite set). A join adds one node to what is met before others, a leave removes one. That
the node of a key is the first of its replicas needs a first virtual node
(`FirstOnTheWay`), which exists because hashes are numbers.

**`ToolkitProofs`: partitions.** `Types`, `FaultsHold`, `HealingIsComplete` and their
conjunction, `MatrixHolds`. The invariant `Agrees` relates the matrix to the partitions
among *live* nodes only. For crashed ones no such relation holds: `recover_node` opens
links to nodes that are still down, and it is `can_communicate`'s own look at
`crashed_nodes` that makes up for it.

**`ToolkitProofs`: quorums.** `ReadsAreRegular` and `HintsAreKept`, for any replicas,
levels and time-outs. While writes come one at a time, a replica that has run a write's
task keeps that version or a newer one (`WritesStay`), and a running read has or will
have enough replicas that show it (`ReadsAreShown`, counted over the replicas that have
answered together with those still to answer); two counts that exceed N share a replica.
Hints do not need that writes come one at a time.

**`ToolkitProofs`: registry and balancer.** `RoundsSetStatus`: `CheckIsRight` follows a
check through its three steps (read, probe, write), for the instances to which nothing
has happened since the round began. `TurnsAreTaken`: the picks made since the list last
changed are those before the index, counted backwards round the list, so that no more of
them than the list is long are distinct (`BalancerInv`). It holds for callers that read
the list and pick later, among others that do the same.

**`ToolkitProofs`: clocks.** `TimestampsTell`. The past of an event is a set of events
closed under "is in the past of" (`PastsAreClosed`), and each clock is a function of
such a set (`Stamped`): a vector counts it by node, a Lamport clock is at least its
greatest, a hybrid one has its latest reading and a counter no greater than its size.
That vectors say *exactly* what is before what needs that no node counts more events of
another than that one has had (`ClocksFit`).

**`ToolkitProofs`: rate limiters.** `RatesAreKept`, for any rates, costs and moments.
For each kind `LimiterInv` says what is left to be let through: the tokens in a bucket
with what was let through since any grant are no more than its capacity and what has
been refilled since (`TokensCover`, `Kept`); what was granted is what is in the leaky
bucket with what has leaked, and the time of the last leak is that number of intervals
(`BucketCovers`); the list of a window is the end of the grants, and those before it are
out of the window (`WindowCovers`). For Redis also that its keys have not expired while
they count. The hypothesis that `RStale` is false where Redis is used is the condition
of the run: two clients that read one time are one member of the sorted set (section 6).

**`ToolkitProofs`: Bloom filters.** `NothingIsLost`, for any hashes, collisions within an
element included. Bits stay set (`BitsStay`); a counter is the number of triples of an
element, an addition of it not yet undone, and a hash function that hits the counter
(`Tally`, a cardinality, so that adding and removing are adding and removing a set of
triples). The hypothesis `[]Unsaturated` is the code's own limit: at `max_count` `add` stops
counting, and later removals take away what was never counted. The run has `BLimit` above
what its additions reach. Sizes are taken to be at least 1 (`BloomAssumption`): for an error
rate near 1 `_optimal_size` rounds down to 0, and the first `add` divides by it.

**`ReplicaProofs`: CRDTs.** `AnswersComeFromHistory`, `ComparisonsAreCausal` and
`MapsWithStampsConverge`, for any replicas, any number of updates, and states that are
shipped late, merged twice or merged in any order. `CInv`, which is inductive
(`StatesStandForHistories`), has two halves. The first is about the history and the same for
all types: the updates a replica, or a state on its way, has seen are closed (`Closed`: with
an update all that its author had seen), and authors see their own (`History`, `OwnSeen`).
So of the updates of one author any two replicas have seen prefixes, one longer than the
other. The second says what the state of each type is, given the set seen (`Holds`): for
each author the sum of its amounts in the set (`CountsHold`), the pairs of the additions and
of those a removal in the set had seen (`ORHolds`), the dots of the updates with clocks that
reach as far as they can (`DVVHolds`), the write that wins (`RegisterHolds`, `MapHolds`). An
update adds itself to the set and a merge stands for the union of two closed sets; that the
greater of two counts is the sum over the union is where prefixes are needed.

What the theorems assume is what the types need. For maps no two puts may share a
timestamp: otherwise `LWWMap.put` on a register that was copied from another replica is
signed by that one (`lww_map.py:107`), which is what `crdt_map` shows. For registers ties are
allowed. For `compare`, no increment by 0, which `GCounter.increment` accepts
(`g_counter.py:46`) and which leaves nothing in the state, and no number given to a dotted
version vector twice (section 6). The run has such values of the constants.

**`ReplicaProofs`: Merkle trees.** `DifferencesAreAllFound` and `ProofsProveInclusion`, for
any number of blocks, of which TLC sees four, and any number of buckets. That the copies stay
lists of one length (`MInv`) is all the invariant there is; the argument is about the
algorithms. A tree of n blocks has a shape that depends on n alone (`Shape`: which places
each node of each level covers, `ShapeExists`), levels halve until there is one node, and the
widths in the tree are those of the shape (`TreeGrows`). Level by level from the leaves: two
nodes in one place have one hash just when the blocks below agree (`HashesTell`); what `diff`
finds below a node are the places there where the blocks differ, counted from its first
(`DiffsTell`, where the offsets of the right child join those of the left, `OffsetsJoin`); and
the steps a proof has collected lead from the leaf's hash to the node's, in every tree that
differs at that leaf only (`PathsTell`). So a proof from one copy makes another's root hash
of a claim just when the second copy is the first with the claim in that place
(`ProofsTell`), which is more than the run checks. For the heap, a bucket that differs makes
all nodes above it differ up to the root (`CompareIsExact`). The comment in `build` takes
the number of buckets to be a power of 2 (`anti_entropy.py:44`); the theorem does not need it.

**Only model-checked.** Every invariant and action property of the passing runs is stated by
a theorem. Liveness (`SubmittedIsApplied`, `PreparedIsSettled`, `RequestsAreExecuted`,
`HighestLeads`, `RingAgrees`, `GossipConverges`, `ReplicasConverge`) is out of the prover's
reach, as is anything about ENABLED.

## 6. What the code does not keep, or does not prevent

Beside the five violations of section 4. Each was met while modelling; the model has the
behaviour, and the properties are stated so that they say what is left.

**Raft.**
* Futures are filed by index and survive the loss of leadership
  (`raft_node.py:355-357`). When another leader's command is applied at that index,
  the client receives its result: a pair of `resolved` with two different commands.
* `read_state` asks nobody (`raft_node.py:447`), so a deposed leader answers without
  commands whose results have been given out; the package's README (line 133) calls the
  read linearizable.
* A peer that lags behind its leader's snapshot is sent nothing
  (`raft_node.py:254-260`) and never catches up. The model says so (`CanReplicate`);
  `raft_progress` therefore has no snapshots.
* `compact` writes the snapshot and the log as two files (`log.py:104-122`). A crash
  between them leaves the old entries behind a newer snapshot, and they are read back at
  shifted indices. The model takes a handler as atomic and has no such crash.
* The commit rule's check that the entry is of the current term (`raft_node.py:313`) is in
  the model (`MayCommit`), but no run reaches the history it is there for (four terms with
  three leaders).

**Two-phase commit.**
* One failed commit makes `execute_transaction` return False while others have committed;
  the package's README prints "Transaction aborted" then (`two_phase_commit.py:347`).
* `commit` looks at the votes and not at the state, so after an `abort` it declares the
  transaction "fully committed" (`:324`, `:342`; not from `execute_transaction`).
* `prepare` sets PREPARING over ABORTING (`:270`), so an abort that was accepted before the
  votes were asked for is forgotten, and its late sends roll back beside the commit. TLC
  finds this in `MCTwoPhaseCommit_race.cfg` without the action constraint.
* `participant_ops` keeps one operation per participant, so of two operations for one
  participant the first is never prepared (`:278`).

**PBFT.**
* `trigger_view_change` logs the caller's own vote without counting (`node.py:150`), so a
  primary-to-be that votes last never takes over, and everyone waits.
* The quorum is 2f + 1 whatever `total_nodes` is (`node.py:354`): with five replicas two
  quorums share one replica, which may be the Byzantine one. TLC finds two honest replicas
  that disagree with a fifth backup in `MCPBFT_equivocate.cfg`.
* A NEW-VIEW is believed as it stands; `ViewsAreAskedFor` is about replicas that make up
  none.
* The digest of a PRE-PREPARE is not compared with the request it carries (`node.py:231`,
  "check view, digest", does not; `:363` executes the request that was embedded), nor is its
  sender with the primary. One digest sent with two requests to two replicas, by any
  Byzantine replica, gathers one quorum, and honest replicas execute different requests under
  one key. TLC finds it in `MCPBFT_equivocate.cfg`: two members of `executed` with one key,
  one digest and two requests. `AgreementInView` is therefore about digests, and about the
  requests where they are those of the digests; `ExecutedIsBacked` is about digests.

**Elections.**
* Bully: the timer declares victory although an OK has arrived, and after `stop()`
  (`bully_algorithm.py:180`), so two nodes may lead. `HighestLeads` says that the highest
  running node leads in the end, not that the others stop. While the node with the highest
  id of all runs they do, since each lower leader has a claim on its way to or from it
  (`LowerLeadIsAnswered`). Once it has stopped, two others may lead for good: the higher,
  leading, hears the claim of the lower and starts an election, but the timer of a leader
  does nothing (`:180`), it never claims again, and `in_election` keeps it from starting
  another; heartbeats of equal terms are ignored (`:355`). TLC finds this in `BullyElection`
  with three nodes of which the highest may stop, for the property that in the end only
  `HighestRunning` lead.
* Ring: `in_election` stays set at the node whose token was lost, and the monitor looks
  only at nodes without it (`ring_algorithm.py:249`). With a stopped node in the ring
  nobody may ever be elected, and a leader that stops is never missed.
* Lease: after a split vote "Will retry via monitor loop" (`lease_algorithm.py:173`), but
  that loop acts on an expired lease only, and there is none: nobody tries again. A leader's
  own copy of its lease is never renewed (`:258`). An expired owner is granted whatever was
  voted (`:208`).
* Lease, from the second term on. A request of an older term is granted by a node that has
  voted for nobody in its own (`lease_algorithm.py:213`; "1. Term is higher or equal",
  `:195`, is not checked), so two nodes can be elected in one term. A grant records no
  lease (`:217`), so before the first heartbeat its giver grants the next term too, and two
  nodes lead, each within its lease ("At most one leader in any partition",
  `leader-election/README.md:188`). TLC finds both in `LeaseElection` alone with three nodes
  and `LeaseMaxTerm = 2`: for the first, two members of `lElected` with one term; for the
  second, two nodes with `lLeads` and `HasLease`. `FirstTermElectsOne` is what is left.
* Fencing: each node counts epochs for itself (`fencing.py:18`, "Monotonically increasing"),
  so a new leader's token need not be above the old one's.

**Locks.**
* `renew` does not look at the expiry (`distributed_lock.py:143`): it revives a lock whose
  TTL has passed, if nobody has looked at it since.
* `__enter__` ignores what `acquire()` answers (`distributed_lock.py:181`): after a timeout
  the block runs without the lock.
* `get_token` is a call of its own: a late client is handed the next holder's token, with
  which it may release that holder's lock (excluded by `LockSlow` in the run).
* A fencing token is drawn after `acquire` (`fencing_tokens.py:87`), so a late holder may draw
  a higher one than its successor and have its writes accepted.
* Redlock: a failed attempt forgets the token (`redlock.py:113`), and the attempts that
  follow set none; only the first attempt of a call can win.

**Quorums, registry.**
* A write that was reported failed may become visible later, and the rest of an old write
  may overwrite a newer version (`quorum_system.py:372`). `ReadsSeeCompletedWrites` is
  therefore about writes that begin when nothing of earlier ones is left.
* A check's verdict is written whatever has happened since it read the instance
  (`service_registry.py:347`): a heartbeat meanwhile is overwritten, until the next round.
  `RoundSetsStatus` is about instances to which nothing has happened since the round began.
* A heartbeat that revives an instance tells no observer (`service_registry.py:275`) and a
  deregistration tells none either; only checks do.

**Gossip, read repair, CRDTs.**
* `get_delta` sends only greater versions (`state_store.py:98-107`), so in pull mode two
  entries of one version never meet and the nodes keep different values.
* No rule of `update_member` ever gives a member the status LEFT.
* A repair writes what its read found over whatever the replica holds by then, a newer
  version included (`read_repair.py:81`). `ReplicasConverge` holds because clients read
  again.
* `DottedVersionVector.increment` without a timestamp continues from the contiguous clock
  and not from the dots (`vector_clock_advanced.py:55`), so after a jump it can hand out a
  dot a second time. The model's callers do not pass it into that case.

**Rate limiters, trees, faults.**
* `last_process` of a leaky bucket stands still while its queue is empty, so after an idle
  time it lets a burst through as large as what it would have drained meanwhile
  (`rate_limiter.py:107`, "smooth rate limiting"): the property counts from when it was made.
* Two clients of the Redis limiter that read the same time add one member instead of two
  (`distributed_limiter.py:43`): the run has `RStale = FALSE`.
* `MerkleTree.verify` recomputes inner hashes and trusts the leaves; blocks are hashed by
  their `str`, so 1 and "1" are the same block; the anti-entropy hash does not include the
  vector clock.
* Healing one partition rebuilds the matrix and reopens a link that a one-way block had
  closed (`failure_scenarios.py:145`), because the block is registered nowhere.
  `NothingLeftBehind` leaves open what a pair in `OneWay` may do.

## 7. What is not modelled, and limits

Components without a module:

* Raft storage and state machine: files and a dictionary. `Raft` takes the writes of one
  handler as one step and keeps the sequence of commands consumed; a crash between two
  files is told in section 6.
* Lease lock: one client of a `DistributedLock` with a timer of its own; its
  interleavings are those of usage "owner".
* Phi accrual detector: floating-point statistics that no other code of the package asks.
* Physical clocks, NTP, visualizers: random drift and delay. `LogicalClocks` lets a
  physical clock read any time at all, which covers them.
* Network proxy, latency, packet loss, recorder, assertions: random sampling and
  recording around `can_communicate`.
* Distributed tracing: instrumentation and export.

Parts left out of modelled components: `read_state` and the content of Raft's state
machine; statistics, metrics and wording everywhere; `IntervalTreeClock` and
`CausalHistory` (of which only `get_causal_past` is used, to say what a dotted version vector
stands for); subscriptions of the gossip node; `resolve_vector_clock`, which nothing
uses; the validation of fencing tokens that no component calls. Three-phase commit and
sagas are named in a README and have no code.

Limits:

* A handler that holds its lock is atomic.
* Contents are abstract: commands, requests and values are model values, and the digest of a
  request belongs to it alone. Hashes have no collisions in the Merkle trees, and any collision in the hash ring and the Bloom
  filters. The signatures of PBFT are not checked by the code, and not modelled.
* Time appears as the order of events (`Timely`, `Expire`, `Elapse`, `TTLPasses`,
  `LeaseExpires`, `KeyExpires`, `HeartbeatLapses`), as ticks in the rate limiters, and as any reading in the clocks.
* The order of the future work that would add most: Raft's storage with a crash at any
  write, composed with `RaftLog`; a refinement of the lock, the lease and Redlock to one
  abstract lock; an abstract register for the quorum system, and an abstract set of updates
  that the CRDTs implement; `IntervalTreeClock` and `CausalHistory`.
