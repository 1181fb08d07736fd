-------------------------- MODULE DistributedLock --------------------------
(***************************************************************************)
(* src/distributed-locks/src/distributed_lock.py and fencing_tokens.py:    *)
(* one DistributedLock, reached by its clients in one of the ways the code *)
(* offers:                                                                 *)
(*   "owner"   acquire(owner), renew(owner), release(owner)                *)
(*   "token"   LockManager.acquire_lock and release_lock                   *)
(*   "with"    the context manager                                         *)
(*   "fenced"  FencedLock, and a resource that validates its tokens        *)
(*                                                                         *)
(* An acquisition is named by its number; the uuid the code gives it is    *)
(* unique like that number.  Time is the step TTLPasses of one             *)
(* acquisition.  A client that finds the lock taken polls, which changes   *)
(* nothing.                                                                *)
(***************************************************************************)
EXTENDS Naturals, FiniteSets

CONSTANTS
  LockClients,
  LockUsages,     \* clusters to look at: how each client uses the lock
  LockSlow,       \* the clients that may take a TTL from acquire() to the next call
  LockMaxGrants,  \* bound: acquisitions
  NoOwner         \* None

ASSUME LockAssumption ==
  /\ LockMaxGrants \in Nat
  /\ NoOwner \notin LockClients
  /\ LockUsages \subseteq [LockClients -> {"owner", "token", "with", "fenced"}]
  /\ LockSlow \subseteq LockClients

VARIABLES
  dUsage,   \* how each client uses the lock
  dOwner,   \* _owner
  dToken,   \* _token; 0 is None
  dGrants,  \* acquisitions so far
  dLive,    \* those whose TTL has not passed and whose client has not released
  dPc,      \* "idle", "got" (acquire() has returned, the next call is to come), "in"
  dGrant,   \* history: the acquisition each client was last granted; 0 is none
  dMine,    \* the token a client shows: of the lock, or the fencing token
  dFence,   \* FencingToken._counter
  dSeen,    \* highest fencing token the resource has seen
  dLate     \* history: a TTL has passed, or acquire() has timed out

lockVars == <<dUsage, dOwner, dToken, dGrants, dLive, dPc, dGrant, dMine, dFence, dSeen, dLate>>

LockTypeOK ==
  /\ dUsage \in LockUsages
  /\ dOwner \in LockClients \cup {NoOwner}
  /\ dGrants \in 0..LockMaxGrants
  /\ dToken \in 0..dGrants
  /\ dLive \subseteq 1..dGrants
  /\ dPc \in [LockClients -> {"idle", "got", "in"}]
  /\ dGrant \in [LockClients -> 0..dGrants]
  /\ dMine \in [LockClients -> Nat]
  /\ dFence \in Nat /\ dSeen \in Nat
  /\ dLate \in BOOLEAN

LockInit ==
  /\ dUsage \in LockUsages
  /\ dOwner = NoOwner /\ dToken = 0 /\ dGrants = 0 /\ dLive = {}
  /\ dPc = [c \in LockClients |-> "idle"]
  /\ dGrant = [c \in LockClients |-> 0]
  /\ dMine = [c \in LockClients |-> 0]
  /\ dFence = 0 /\ dSeen = 0 /\ dLate = FALSE

\* The lock is free for the taking: nobody owns it, or its TTL has passed
Free == dOwner = NoOwner \/ dToken \notin dLive

\* The owners of "with" and "fenced" are uuids of one call
Named(c) == dUsage[c] \in {"owner", "token"}

\* acquire, up to its return
Acquire(c) ==
  /\ \/ dPc[c] = "idle"
     \/ dUsage[c] = "owner" /\ dPc[c] = "in"
  /\ \/ /\ dOwner = c /\ Named(c) /\ ~Free   \* re-entrant: extend
        /\ UNCHANGED <<dOwner, dToken, dGrants, dLive, dGrant>>
     \/ /\ Free
        /\ dGrants < LockMaxGrants
        /\ dOwner' = c
        /\ dGrants' = dGrants + 1
        /\ dToken' = dGrants + 1
        /\ dGrant' = [dGrant EXCEPT ![c] = dGrants + 1]
        /\ dLive' = (dLive \ {dGrant[c]}) \cup {dGrants + 1}
  /\ dPc' = [dPc EXCEPT ![c] = IF dUsage[c] \in {"token", "fenced"} THEN "got" ELSE "in"]
  /\ UNCHANGED <<dUsage, dMine, dFence, dSeen, dLate>>

\* __enter__ when acquire() has timed out: its result is not looked at
EnterAnyway(c) ==
  /\ dUsage[c] = "with" /\ dPc[c] = "idle"
  /\ ~Free
  /\ dPc' = [dPc EXCEPT ![c] = "in"]
  /\ dGrant' = [dGrant EXCEPT ![c] = 0]
  /\ dLate' = TRUE
  /\ UNCHANGED <<dUsage, dOwner, dToken, dGrants, dLive, dMine, dFence, dSeen>>

\* The rest of acquire_lock: get_token, which drops a lock whose TTL has passed
GetToken(c) ==
  /\ dUsage[c] = "token" /\ dPc[c] = "got"
  /\ IF dOwner # NoOwner /\ Free
     THEN dOwner' = NoOwner /\ dToken' = 0
     ELSE UNCHANGED <<dOwner, dToken>>
  /\ dMine' = [dMine EXCEPT ![c] = dToken']
  /\ dPc' = [dPc EXCEPT ![c] = IF dToken' = 0 THEN "idle" ELSE "in"]
  /\ UNCHANGED <<dUsage, dGrants, dLive, dGrant, dFence, dSeen, dLate>>

\* The rest of acquire_with_token: FencingToken.generate
Generate(c) ==
  /\ dUsage[c] = "fenced" /\ dPc[c] = "got"
  /\ dFence' = dFence + 1
  /\ dMine' = [dMine EXCEPT ![c] = dFence + 1]
  /\ dPc' = [dPc EXCEPT ![c] = "in"]
  /\ UNCHANGED <<dUsage, dOwner, dToken, dGrants, dLive, dGrant, dSeen, dLate>>

\* Variant: release without verification, whoever asks
VerifiedNever(c) == dPc[c] = "in"

\* What release() verifies: the owner, the token, or nothing
Verified(c) ==
  CASE dUsage[c] = "owner" -> dOwner = c
    [] dUsage[c] = "token" -> dToken = dMine[c]
    [] OTHER -> TRUE

\* release, or release_lock, which ignores the error
Release(c) ==
  /\ dPc[c] = "in"
  /\ IF dOwner # NoOwner /\ Verified(c)
     THEN dOwner' = NoOwner /\ dToken' = 0
     ELSE UNCHANGED <<dOwner, dToken>>
  /\ dPc' = [dPc EXCEPT ![c] = "idle"]
  /\ dLive' = dLive \ {dGrant[c]}
  /\ UNCHANGED <<dUsage, dGrants, dGrant, dMine, dFence, dSeen, dLate>>

\* renew(owner): also of a lock whose TTL has passed
RenewLock(c) ==
  /\ dUsage[c] = "owner"
  /\ dOwner = c
  /\ dLive' = dLive \cup {dToken}
  /\ UNCHANGED <<dUsage, dOwner, dToken, dGrants, dPc, dGrant, dMine, dFence, dSeen, dLate>>

\* get_owner, is_held, get_locks_held: anybody may look, and drops a lock whose TTL has passed
LookAtLock ==
  /\ dOwner # NoOwner /\ Free
  /\ dOwner' = NoOwner /\ dToken' = 0
  /\ UNCHANGED <<dUsage, dGrants, dLive, dPc, dGrant, dMine, dFence, dSeen, dLate>>

TTLPasses(g) ==
  /\ g \in dLive
  /\ \A c \in LockClients \ LockSlow : ~(dPc[c] = "got" /\ dGrant[c] = g)
  /\ dLive' = dLive \ {g}
  /\ dLate' = TRUE
  /\ UNCHANGED <<dUsage, dOwner, dToken, dGrants, dPc, dGrant, dMine, dFence, dSeen>>

\* A client writes; the resource asks FencingToken.validate(offered, highest seen)
FencedWrite(c) ==
  /\ dUsage[c] = "fenced" /\ dPc[c] = "in"
  /\ dMine[c] >= dSeen
  /\ dSeen' = dMine[c]
  /\ UNCHANGED <<dUsage, dOwner, dToken, dGrants, dLive, dPc, dGrant, dMine, dFence, dLate>>

LockNext ==
  \/ \E c \in LockClients :
       \/ Acquire(c) \/ EnterAnyway(c) \/ GetToken(c) \/ Generate(c) \/ Release(c)
       \/ RenewLock(c) \/ FencedWrite(c)
  \/ LookAtLock
  \/ \E g \in dLive : TTLPasses(g)

LockSpec == LockInit /\ [][LockNext]_lockVars

(***************************************************************************)
(* Properties                                                              *)
(***************************************************************************)
\* A client is in its critical section, as far as it can tell
Inside(c) == dPc[c] = "in" /\ (dGrant[c] = 0 \/ dGrant[c] \in dLive)

\* "Only one lock holder at any time" (distributed-locks/README.md:261).  For clients
\* that name themselves or show their token: late releases, renewals of lapsed
\* locks and tokens fetched in a second call let no second client in while the
\* first is within its TTL.  For the others as long as nobody is late.
LockExclusion ==
  \/ dLate /\ \E c \in LockClients : dUsage[c] \in {"with", "fenced"}
  \/ \A a, b \in LockClients : Inside(a) /\ Inside(b) => a = b
=============================================================================
