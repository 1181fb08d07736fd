-------------------------- MODULE DeadlockDetector --------------------------
(***************************************************************************)
(* src/distributed-locks/src/deadlock_detector.py: who waits for what and  *)
(* who holds it, and the depth-first search for a cycle.                   *)
(*                                                                         *)
(* The search holds the detector's lock, so nothing moves meanwhile.  Sets *)
(* and dicts are walked in an order the code does not choose, so the next  *)
(* neighbour is any.  has_cycle and get_deadlock_cycle make the same       *)
(* search; the first only says whether the second has something to return. *)
(* `holding` is left out: no operation reads it.                           *)
(***************************************************************************)
EXTENDS Naturals, Sequences

CONSTANTS
  Processes,
  Resources,
  WaitsOfMany,   \* bound: the processes that may wait for more than one resource
  FreeResource   \* stands for a resource that is not in held_by

ASSUME DeadlockAssumption == FreeResource \notin Processes

VARIABLES
  wWaiting,  \* waiting_for
  wHeldBy,   \* held_by
  wStack,    \* the path of the search; its members are the recursion stack
  wVisited,  \* visited
  wPending,  \* neighbours each process on the stack has not looked at yet
  wAnswer    \* "none" when no search is on, "searching", "free", or "cycle" with the path in wStack

waitVars == <<wWaiting, wHeldBy, wStack, wVisited, wPending, wAnswer>>

WaitTypeOK ==
  /\ wWaiting \in [Processes -> SUBSET Resources]
  /\ wHeldBy \in [Resources -> Processes \cup {FreeResource}]
  /\ wStack \in Seq(Processes)
  /\ wVisited \subseteq Processes
  /\ wPending \in [Processes -> SUBSET Processes]
  /\ wAnswer \in {"none", "searching", "free", "cycle"}

WaitInit ==
  /\ wWaiting = [p \in Processes |-> {}]
  /\ wHeldBy = [r \in Resources |-> FreeResource]
  /\ wStack = <<>> /\ wVisited = {}
  /\ wPending = [p \in Processes |-> {}]
  /\ wAnswer = "none"

\* adj[p]
WaitsFor(p) == {wHeldBy[r] : r \in wWaiting[p]} \ {FreeResource, p}

Idle == wAnswer = "none"
searchVars == <<wStack, wVisited, wPending, wAnswer>>

\* record_lock_order: whoever held the resource before loses it
RecordLock(p, r) ==
  /\ Idle
  /\ wHeldBy' = [wHeldBy EXCEPT ![r] = p]
  /\ wWaiting' = [wWaiting EXCEPT ![p] = @ \ {r}]
  /\ UNCHANGED searchVars

\* One turn of acquire_with_timeout
AcquireFree(p, r) == wHeldBy[r] = FreeResource /\ RecordLock(p, r)

\* record_wait
RecordWait(p, r) ==
  /\ Idle
  /\ wWaiting[p] # {} => p \in WaitsOfMany   \* bound
  /\ wWaiting' = [wWaiting EXCEPT ![p] = @ \cup {r}]
  /\ UNCHANGED <<wHeldBy, searchVars>>

\* release_lock
RecordRelease(p, r) ==
  /\ Idle
  /\ wHeldBy[r] = p
  /\ wHeldBy' = [wHeldBy EXCEPT ![r] = FreeResource]
  /\ UNCHANGED <<wWaiting, searchVars>>

\* get_deadlock_cycle is called
SearchBegins ==
  /\ Idle
  /\ wAnswer' = "searching"
  /\ wVisited' = {}
  /\ UNCHANGED <<wWaiting, wHeldBy, wStack, wPending>>

\* dfs(p) begins
Visit(p) ==
  /\ wVisited' = wVisited \cup {p}
  /\ wStack' = Append(wStack, p)
  /\ wPending' = [wPending EXCEPT ![p] = WaitsFor(p)]

\* The loop over adj.keys()
SearchRoot ==
  /\ wAnswer = "searching" /\ wStack = <<>>
  /\ LET roots == {p \in Processes : WaitsFor(p) # {}} \ wVisited
     IN  \/ /\ roots = {}
            /\ wAnswer' = "free"
            /\ UNCHANGED <<wStack, wVisited, wPending>>
         \/ /\ \E p \in roots : Visit(p)
            /\ UNCHANGED wAnswer
  /\ UNCHANGED <<wWaiting, wHeldBy>>

OnStack(p) == \E i \in DOMAIN wStack : wStack[i] = p

\* Variant: the way into the cycle is returned with it
WholePath(i) == wStack

\* The cycle closed by a wait for the i-th process on the path
CycleFrom(i) == SubSeq(wStack, i, Len(wStack))

\* The loop over adj[node], and the end of dfs(node)
SearchOn ==
  /\ wAnswer = "searching" /\ wStack # <<>>
  /\ LET node == wStack[Len(wStack)]
     IN  \/ \E q \in wPending[node] :
              /\ OnStack(q)
              /\ wAnswer' = "cycle"
              /\ \E i \in DOMAIN wStack :
                   wStack[i] = q /\ wStack' = CycleFrom(i)
              /\ UNCHANGED <<wVisited, wPending>>
         \/ \E q \in wPending[node] :
              /\ ~OnStack(q)
              /\ IF q \in wVisited
                 THEN /\ wPending' = [wPending EXCEPT ![node] = @ \ {q}]
                      /\ UNCHANGED <<wStack, wVisited>>
                 ELSE /\ wVisited' = wVisited \cup {q}
                      /\ wStack' = Append(wStack, q)
                      /\ wPending' = [wPending EXCEPT ![node] = @ \ {q}, ![q] = WaitsFor(q)]
              /\ UNCHANGED wAnswer
         \/ /\ wPending[node] = {}
            /\ wStack' = SubSeq(wStack, 1, Len(wStack) - 1)
            /\ UNCHANGED <<wVisited, wPending, wAnswer>>
  /\ UNCHANGED <<wWaiting, wHeldBy>>

\* The answer is taken; choose_deadlock_victim takes its first process
SearchEnds ==
  /\ wAnswer \in {"free", "cycle"}
  /\ wAnswer' = "none"
  /\ wStack' = <<>> /\ wVisited' = {} /\ wPending' = [p \in Processes |-> {}]
  /\ UNCHANGED <<wWaiting, wHeldBy>>

WaitNext ==
  \/ \E p \in Processes, r \in Resources :
       RecordLock(p, r) \/ AcquireFree(p, r) \/ RecordWait(p, r) \/ RecordRelease(p, r)
  \/ SearchBegins \/ SearchRoot \/ SearchOn \/ SearchEnds

WaitSpec == WaitInit /\ [][WaitNext]_waitVars

(***************************************************************************)
(* Properties                                                              *)
(***************************************************************************)
\* Some processes wait for one another in a circle
Deadlocked ==
  \E ps \in (SUBSET Processes) \ {{}} : \A p \in ps : WaitsFor(p) \cap ps # {}

\* Whatever order the sets are walked in, the search finds a deadlock exactly when
\* there is one, and returns processes of which each waits for the next and the
\* last for the first, so that aborting the first breaks it (deadlock_detector.py:123,
\* "Return the list of processes involved in a deadlock cycle").
CycleIsDeadlock ==
  /\ wAnswer = "free" => ~Deadlocked
  /\ wAnswer = "cycle" =>
       \A i \in DOMAIN wStack :
         wStack[IF i = Len(wStack) THEN 1 ELSE i + 1] \in WaitsFor(wStack[i])
=============================================================================
