----------------------------- MODULE ReadRepair -----------------------------
(***************************************************************************)
(* eventual-consistency-patterns: ReadRepair over the replicas of one key,  *)
(* and the CausalSession of the client that reads and writes through it.    *)
(* A read asks every replica from a pool of threads, answers with the last  *)
(* write it met (resolve_lww), and leaves the repair of the stale replicas  *)
(* to a background task.  Replica is a protocol: as in the tests and the    *)
(* example, put stores what it is given, and either call may fail.          *)
(***************************************************************************)
EXTENDS Integers, FiniteSets

CONSTANTS
    PReplicas,
    PClients,
    PMaxWrites,    \* bound on the writes; the n-th has timestamp n
    PMaxFailures   \* bound on the calls to a replica that fail

VARIABLES
    pStore,        \* [PReplicas -> timestamp of the version held, 0 for None]
    pVersions,     \* vector clock of each version; [timestamp -> [PClients -> Nat]]
    pClock,        \* [PClients -> clock of its CausalSession]
    pGot,          \* [PClients -> what its read has got so far; replica -> version]
    pTask,         \* [PClients -> its repair: latest and the replicas to go]
    pAccepted,     \* [PClients -> versions its session accepted or wrote]
    pFailures      \* calls that have failed

pVars == <<pStore, pVersions, pClock, pGot, pTask, pAccepted, pFailures>>

NoClock == [c \in PClients |-> 0]
NoTask == [latest |-> 0, stale |-> {}]
Writes == DOMAIN pVersions

MergedClock(v, w) == [c \in PClients |-> IF v[c] < w[c] THEN w[c] ELSE v[c]]

MayFail(fails) ==
    /\ fails => pFailures < PMaxFailures
    /\ pFailures' = pFailures + IF fails THEN 1 ELSE 0

\* CausalSession.prepare_write, and the put of the new version on a replica.
PWrite(c, r) ==
    LET clock == [pClock[c] EXCEPT ![c] = @ + 1]
        ts == Cardinality(Writes) + 1
    IN /\ ts <= PMaxWrites
       /\ pClock' = [pClock EXCEPT ![c] = clock]
       /\ pVersions' = [t \in Writes \cup {ts} |-> IF t = ts THEN clock ELSE pVersions[t]]
       /\ pStore' = [pStore EXCEPT ![r] = ts]
       /\ pAccepted' = [pAccepted EXCEPT ![c] = @ \cup {ts}]
       /\ UNCHANGED <<pGot, pTask, pFailures>>

\* _safe_get on a thread of its own; a failed call counts as None.
PGet(c, r, fails) ==
    /\ r \notin DOMAIN pGot[c]
    /\ MayFail(fails)
    /\ pGot' = [pGot EXCEPT ![c] = [q \in DOMAIN @ \cup {r} |->
                    IF q # r THEN @[q] ELSE IF fails THEN 0 ELSE pStore[r]]]
    /\ UNCHANGED <<pStore, pVersions, pClock, pTask, pAccepted>>

\* Variant: replicas without a value only.
StaleEmpty(got, latest) == {r \in DOMAIN got : got[r] = 0}

\* Replicas to repair: without a value or with an older one.
Stale(got, latest) == {r \in DOMAIN got : got[r] < latest}

\* Variant: one entry that does not fall behind is enough.
ConsistentInPart(c, ts) == \E d \in PClients : pVersions[ts][d] >= pClock[c][d]

\* check_consistency: nothing the session has seen is missing.
Consistent(c, ts) == \A d \in PClients : pVersions[ts][d] >= pClock[c][d]

\* The end of read: resolve, schedule the repair, and answer; the session
\* takes the value in if it is consistent.  Nothing to answer: no repair.
\* One repair of a client is under way at a time, next to its following read.
PAnswer(c) ==
    LET got == pGot[c]
        latest == CHOOSE v \in {got[r] : r \in PReplicas} \cup {0} : \A r \in PReplicas : got[r] <= v
    IN /\ DOMAIN got = PReplicas
       /\ pTask[c] = NoTask
       /\ pGot' = [pGot EXCEPT ![c] = << >>]
       /\ pTask' = [pTask EXCEPT ![c] = [latest |-> latest, stale |-> Stale(got, latest)]]
       /\ IF latest > 0 /\ Consistent(c, latest)
          THEN /\ pClock' = [pClock EXCEPT ![c] = MergedClock(@, pVersions[latest])]
               /\ pAccepted' = [pAccepted EXCEPT ![c] = @ \cup {latest}]
          ELSE UNCHANGED <<pClock, pAccepted>>
       /\ UNCHANGED <<pStore, pVersions, pFailures>>

\* One step of _repair_stale.  It does not look again at what the replica holds:
\* a write that came in between is undone, and so is what a replica holds that
\* failed to answer.
PRepair(c, r, fails) ==
    /\ r \in pTask[c].stale
    /\ MayFail(fails)
    /\ pStore' = IF fails THEN pStore
                 ELSE [pStore EXCEPT ![r] = pTask[c].latest]
    /\ pTask' = [pTask EXCEPT ![c].stale = @ \ {r}]
    /\ UNCHANGED <<pVersions, pClock, pGot, pAccepted>>

\* The task is over.
PRepairEnds(c) ==
    /\ pTask[c] # NoTask
    /\ pTask[c].stale = {}
    /\ pTask' = [pTask EXCEPT ![c] = NoTask]
    /\ UNCHANGED <<pStore, pVersions, pClock, pGot, pAccepted, pFailures>>

PInit ==
    /\ pStore = [r \in PReplicas |-> 0]
    /\ pVersions = << >>
    /\ pClock = [c \in PClients |-> NoClock]
    /\ pGot = [c \in PClients |-> << >>]
    /\ pTask = [c \in PClients |-> NoTask]
    /\ pAccepted = [c \in PClients |-> {}]
    /\ pFailures = 0

PNext ==
    \E c \in PClients :
        \/ \E r \in PReplicas :
              PWrite(c, r) \/ \E fails \in BOOLEAN : PGet(c, r, fails) \/ PRepair(c, r, fails)
        \/ PAnswer(c)
        \/ PRepairEnds(c)

\* Clients keep reading once there is something to read, replicas keep answering,
\* and the pool runs its tasks.
Reading(c) == Writes # {} /\ (PAnswer(c) \/ \E r \in PReplicas : PGet(c, r, FALSE))
Repairing(c) == PRepairEnds(c) \/ \E r \in PReplicas : PRepair(c, r, FALSE)

PFairness == \A c \in PClients : WF_pVars(Reading(c)) /\ WF_pVars(Repairing(c))

PSpec == PInit /\ [][PNext]_pVars /\ PFairness

-----------------------------------------------------------------------------

\* Any two versions a session has accepted or written are ordered by their
\* clocks: it read no version that lacks one it had seen (causal.py:6, :37).
SessionsAreCausal ==
    \A c \in PClients : \A s, t \in pAccepted[c] :
        \/ \A d \in PClients : pVersions[s][d] <= pVersions[t][d]
        \/ \A d \in PClients : pVersions[t][d] <= pVersions[s][d]

\* Once the writes and the failures are over all replicas come to hold one
\* version, as clients keep reading (read_repair.py:25).
ReplicasConverge == <>[](\A r, q \in PReplicas : pStore[r] = pStore[q])

=============================================================================
