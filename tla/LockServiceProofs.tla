-------------------------- MODULE LockServiceProofs --------------------------
(***************************************************************************)
(* Proofs about the parts of src/distributed-locks: DistributedLock, for   *)
(* any clients in any mixture of usages and any number of acquisitions;    *)
(* Redlock, for any clients, servers, retries and calls; DeadlockDetector, *)
(* for any processes and resources.                                        *)
(*                                                                         *)
(* Clients of the first make the second call of an acquisition within its  *)
(* TTL (LockSlow is empty): without that, a client may fetch the token of  *)
(* the next holder, and release that one's lock.                           *)
(***************************************************************************)
EXTENDS LockService, FiniteSetTheorems, SequenceTheorems, TLAPS

-----------------------------------------------------------------------------
(* DistributedLock.                                                         *)

\* Exclusion is not promised any more
Waived == dLate /\ \E c \in LockClients : dUsage[c] \in {"with", "fenced"}

\* An acquisition belongs to one client
GrantsAreOwn ==
  \A a, b \in LockClients : dGrant[a] = dGrant[b] /\ dGrant[a] # 0 => a = b

\* The lock names the owner's acquisition, and only that one can be live
LockNamesGrant ==
  /\ dOwner = NoOwner => dToken = 0
  /\ dOwner # NoOwner => dToken = dGrant[dOwner]
  /\ dLive \subseteq {dToken}

OwnedHasToken == dOwner # NoOwner => dToken # 0

\* c has the lock, within its TTL
Has(c) == dOwner = c /\ dGrant[c] = dToken /\ dToken \in dLive

\* What a client that is on its way knows
ClientKnows(c) ==
  /\ dPc[c] # "idle" => dGrant[c] # 0
  /\ dPc[c] = "got" => Has(c)
  /\ dPc[c] = "in" /\ dUsage[c] = "token" => dMine[c] = dGrant[c]
  /\ dPc[c] = "in" /\ ~dLate => Has(c)

LockInv ==
  /\ LockTypeOK
  /\ GrantsAreOwn
  /\ OwnedHasToken
  /\ ~Waived => LockNamesGrant /\ \A c \in LockClients : ClientKnows(c)

LEMMA LockInitHolds == LockInit => LockInv
<1> SUFFICES ASSUME LockInit PROVE LockInv
  OBVIOUS
<1>1. 0 \in 0..LockMaxGrants /\ 0 \in 0..0 /\ 0 \in Nat
  BY LockAssumption
<1>2. LockTypeOK
  BY <1>1 DEF LockInit, LockTypeOK
<1>3. GrantsAreOwn /\ OwnedHasToken /\ LockNamesGrant
  BY DEF LockInit, GrantsAreOwn, OwnedHasToken, LockNamesGrant
<1>4. \A c \in LockClients : ClientKnows(c)
  BY DEF LockInit, ClientKnows
<1> QED BY <1>2, <1>3, <1>4 DEF LockInv

\* Usages stay, and so does a waiver
LEMMA WaivedStays == ASSUME dUsage' = dUsage, dLate => dLate', ~Waived' PROVE ~Waived
BY DEF Waived

-----------------------------------------------------------------------------
(* One lemma for each operation                                            *)

LEMMA AcquireKeepsInv ==
  ASSUME LockInv, NEW c \in LockClients, Acquire(c)
  PROVE  LockInv'
<1> USE DEF LockInv, Acquire
<1>1. CASE /\ dOwner = c /\ ~Free
           /\ UNCHANGED <<dOwner, dToken, dGrants, dLive, dGrant>>
  <2>1. LockTypeOK' /\ GrantsAreOwn' /\ OwnedHasToken'
    BY <1>1 DEF LockTypeOK, GrantsAreOwn, OwnedHasToken
  <2> SUFFICES ASSUME ~Waived'
               PROVE  LockNamesGrant' /\ \A d \in LockClients : ClientKnows(d)'
    BY <2>1
  <2>2. ~Waived
    BY WaivedStays
  <2>3. LockNamesGrant'
    BY <1>1, <2>2 DEF LockNamesGrant
  <2>4. Has(c)
    BY <1>1, <2>2, LockAssumption DEF Has, LockNamesGrant, Free
  <2>5. ASSUME NEW d \in LockClients PROVE ClientKnows(d)'
    <3>1. CASE d = c
      <4>1. Has(c)'
        BY <1>1, <2>4 DEF Has
      <4>2. dGrant'[c] # 0
        BY <1>1, <2>4, LockAssumption DEF Has, OwnedHasToken
      <4>3. dPc'[c] = "in" /\ dUsage[c] = "token" => FALSE
        BY DEF LockTypeOK
      <4> QED BY <3>1, <4>1, <4>2, <4>3 DEF ClientKnows
    <3>2. CASE d # c
      BY <1>1, <2>2, <3>2 DEF ClientKnows, Has, LockTypeOK
    <3> QED BY <3>1, <3>2
  <2> QED BY <2>3, <2>5
<1>2. CASE /\ Free
           /\ dGrants < LockMaxGrants
           /\ dOwner' = c
           /\ dGrants' = dGrants + 1
           /\ dToken' = dGrants + 1
           /\ dGrant' = [dGrant EXCEPT ![c] = dGrants + 1]
           /\ dLive' = (dLive \ {dGrant[c]}) \cup {dGrants + 1}
  <2>0. /\ dGrants \in Nat /\ dGrants + 1 \in 0..LockMaxGrants /\ dGrants + 1 \in 1..(dGrants + 1)
        /\ 0..dGrants \subseteq 0..(dGrants + 1) /\ 1..dGrants \subseteq 1..(dGrants + 1)
        /\ dGrants + 1 \in 0..(dGrants + 1) /\ dGrants + 1 \notin 0..dGrants /\ dGrants + 1 # 0
    BY <1>2, LockAssumption DEF LockTypeOK
  <2>1. LockTypeOK'
    <3>1. dPc' \in [LockClients -> {"idle", "got", "in"}]
      BY DEF LockTypeOK
    <3>2. dLive' \subseteq 1..dGrants' /\ dGrant' \in [LockClients -> 0..dGrants']
      BY <1>2, <2>0 DEF LockTypeOK
    <3> QED BY <1>2, <2>0, <3>1, <3>2 DEF LockTypeOK
  <2>2. GrantsAreOwn' /\ OwnedHasToken'
    BY <1>2, <2>0 DEF LockTypeOK, GrantsAreOwn, OwnedHasToken
  <2> SUFFICES ASSUME ~Waived'
               PROVE  LockNamesGrant' /\ \A d \in LockClients : ClientKnows(d)'
    BY <2>1, <2>2
  <2>3. ~Waived
    BY WaivedStays
  <2>4. dLive = {}
    BY <1>2, <2>3 DEF Free, LockNamesGrant, LockTypeOK
  <2>5. dGrant'[c] = dGrants + 1 /\ dGrants + 1 # 0 /\ dLive' = {dGrants + 1}
    BY <1>2, <2>4, LockAssumption DEF LockTypeOK
  <2>6. LockNamesGrant'
    BY <1>2, <2>5, LockAssumption DEF LockNamesGrant
  <2>7. ASSUME NEW d \in LockClients PROVE ClientKnows(d)'
    <3>1. CASE d = c
      <4>1. Has(c)'
        BY <1>2, <2>5 DEF Has
      <4>2. dPc'[c] = "in" /\ dUsage[c] = "token" => FALSE
        BY DEF LockTypeOK
      <4> QED BY <2>5, <3>1, <4>1, <4>2 DEF ClientKnows
    <3>2. CASE d # c
      <4>1. ~Has(d)
        BY <2>4 DEF Has
      <4> QED BY <1>2, <2>3, <3>2, <4>1 DEF ClientKnows, LockTypeOK
    <3> QED BY <3>1, <3>2
  <2> QED BY <2>6, <2>7
<1> QED BY <1>1, <1>2

\* Only who uses `with` goes in without the lock, and then nothing is promised
LEMMA EnterKeepsInv ==
  ASSUME LockInv, NEW c \in LockClients, EnterAnyway(c)
  PROVE  LockInv'
<1> USE DEF LockInv, EnterAnyway
<1>1. LockTypeOK' /\ GrantsAreOwn' /\ OwnedHasToken'
  BY DEF LockTypeOK, GrantsAreOwn, OwnedHasToken
<1>2. Waived'
  BY DEF Waived
<1> QED BY <1>1, <1>2

\* A lock whose TTL has passed is dropped: nobody has it
LEMMA LookKeepsInv ==
  ASSUME LockInv, LookAtLock
  PROVE  LockInv'
<1> USE DEF LockInv, LookAtLock
<1>1. LockTypeOK' /\ GrantsAreOwn' /\ OwnedHasToken'
  BY DEF LockTypeOK, GrantsAreOwn, OwnedHasToken
<1> SUFFICES ASSUME ~Waived'
             PROVE  LockNamesGrant' /\ \A d \in LockClients : ClientKnows(d)'
  BY <1>1
<1>2. ~Waived
  BY WaivedStays
<1>3. dLive = {}
  BY <1>2 DEF Free, LockNamesGrant
<1>4. LockNamesGrant'
  BY <1>3 DEF LockNamesGrant
<1>5. \A d \in LockClients : ClientKnows(d)'
  BY <1>2, <1>3 DEF ClientKnows, Has
<1> QED BY <1>4, <1>5

\* Who has just acquired reads its own token
LEMMA TokenKeepsInv ==
  ASSUME LockInv, NEW c \in LockClients, GetToken(c)
  PROVE  LockInv'
<1> USE DEF LockInv, GetToken
<1>0. dToken' \in 0..dGrants /\ dToken' \in Nat
  BY LockAssumption DEF LockTypeOK
<1>1. LockTypeOK' /\ GrantsAreOwn' /\ OwnedHasToken'
  BY <1>0 DEF LockTypeOK, GrantsAreOwn, OwnedHasToken
<1> SUFFICES ASSUME ~Waived'
             PROVE  LockNamesGrant' /\ \A d \in LockClients : ClientKnows(d)'
  BY <1>1
<1>2. ~Waived
  BY WaivedStays
<1>3. Has(c) /\ dGrant[c] # 0
  BY <1>2 DEF ClientKnows
<1>4. UNCHANGED <<dOwner, dToken>> /\ dToken # 0
  BY <1>3, LockAssumption DEF Has, Free
<1>5. LockNamesGrant'
  BY <1>2, <1>4 DEF LockNamesGrant
<1>6. ASSUME NEW d \in LockClients PROVE ClientKnows(d)'
  <2>1. CASE d = c
    BY <1>3, <1>4, <2>1 DEF ClientKnows, Has, LockTypeOK
  <2>2. CASE d # c
    BY <1>2, <1>4, <2>2 DEF ClientKnows, Has, LockTypeOK
  <2> QED BY <2>1, <2>2
<1> QED BY <1>5, <1>6

LEMMA GenerateKeepsInv ==
  ASSUME LockInv, NEW c \in LockClients, Generate(c)
  PROVE  LockInv'
<1> USE DEF LockInv, Generate
<1>1. LockTypeOK' /\ GrantsAreOwn' /\ OwnedHasToken'
  BY DEF LockTypeOK, GrantsAreOwn, OwnedHasToken
<1> SUFFICES ASSUME ~Waived'
             PROVE  LockNamesGrant' /\ \A d \in LockClients : ClientKnows(d)'
  BY <1>1
<1>2. ~Waived
  BY WaivedStays
<1>3. LockNamesGrant'
  BY <1>2 DEF LockNamesGrant
<1>4. ASSUME NEW d \in LockClients PROVE ClientKnows(d)'
  <2>1. CASE d = c
    BY <1>2, <2>1 DEF ClientKnows, Has, LockTypeOK
  <2>2. CASE d # c
    BY <1>2, <2>2 DEF ClientKnows, Has, LockTypeOK
  <2> QED BY <2>1, <2>2
<1> QED BY <1>3, <1>4

\* A release that takes effect is the holder's own
LEMMA ReleaseKeepsInv ==
  ASSUME LockInv, NEW c \in LockClients, Release(c)
  PROVE  LockInv'
<1> USE DEF LockInv, Release
<1>0. dToken' \in 0..dGrants /\ dOwner' \in LockClients \cup {NoOwner}
  BY LockAssumption DEF LockTypeOK
<1>1. LockTypeOK' /\ GrantsAreOwn' /\ OwnedHasToken'
  BY <1>0 DEF LockTypeOK, GrantsAreOwn, OwnedHasToken
<1> SUFFICES ASSUME ~Waived'
             PROVE  LockNamesGrant' /\ \A d \in LockClients : ClientKnows(d)'
  BY <1>1
<1>2. ~Waived
  BY WaivedStays
<1>3. LockNamesGrant /\ dGrant[c] # 0 /\ \A d \in LockClients : ClientKnows(d)
  BY <1>2 DEF ClientKnows
<1>4. ASSUME dOwner # NoOwner, Verified(c) PROVE dOwner = c /\ dToken = dGrant[c]
  <2>1. CASE dUsage[c] = "owner"
    BY <1>3, <1>4, <2>1 DEF Verified, LockNamesGrant
  <2>2. CASE dUsage[c] = "token"
    <3>1. dToken = dGrant[c] /\ dToken = dGrant[dOwner] /\ dOwner \in LockClients
      BY <1>3, <1>4, <2>2 DEF Verified, LockNamesGrant, ClientKnows, LockTypeOK
    <3> QED BY <1>3, <3>1 DEF GrantsAreOwn
  <2>3. CASE dUsage[c] \in {"with", "fenced"}
    BY <1>2, <1>3, <2>3 DEF Waived, ClientKnows, Has
  <2> QED BY <2>1, <2>2, <2>3, LockAssumption DEF LockTypeOK
<1>5. CASE dOwner # NoOwner /\ Verified(c)
  <2>1. dLive' = {}
    BY <1>3, <1>4, <1>5 DEF LockNamesGrant
  <2>2. LockNamesGrant'
    BY <1>5, <2>1 DEF LockNamesGrant
  <2>3. ASSUME NEW d \in LockClients PROVE ClientKnows(d)'
    <3>1. CASE d = c
      BY <3>1 DEF ClientKnows, LockTypeOK
    <3>2. CASE d # c
      <4>1. ~Has(d)
        BY <1>4, <1>5, <3>2 DEF Has
      <4> QED BY <1>3, <3>2, <4>1 DEF ClientKnows, LockTypeOK
    <3> QED BY <3>1, <3>2
  <2> QED BY <2>2, <2>3
<1>6. CASE ~(dOwner # NoOwner /\ Verified(c))
  <2>1. UNCHANGED <<dOwner, dToken>>
    BY <1>6
  <2>2. LockNamesGrant'
    BY <1>3, <2>1 DEF LockNamesGrant
  <2>3. ASSUME NEW d \in LockClients PROVE ClientKnows(d)'
    <3>1. CASE d = c
      BY <3>1 DEF ClientKnows, LockTypeOK
    <3>2. CASE d # c
      <4>1. ASSUME Has(d), dGrant[d] # 0 PROVE Has(d)'
        <5>1. dGrant[d] # dGrant[c]
          BY <3>2, <4>1 DEF GrantsAreOwn
        <5> QED BY <2>1, <4>1, <5>1 DEF Has
      <4> QED BY <1>3, <3>2, <4>1 DEF ClientKnows, LockTypeOK
    <3> QED BY <3>1, <3>2
  <2> QED BY <2>2, <2>3
<1> QED BY <1>5, <1>6

LEMMA RenewKeepsInv ==
  ASSUME LockInv, NEW c \in LockClients, RenewLock(c)
  PROVE  LockInv'
<1> USE DEF LockInv, RenewLock
<1>1. dToken \in 1..dGrants
  BY LockAssumption DEF LockTypeOK, OwnedHasToken
<1>2. LockTypeOK' /\ GrantsAreOwn' /\ OwnedHasToken'
  BY <1>1 DEF LockTypeOK, GrantsAreOwn, OwnedHasToken
<1>3. ~Waived' => LockNamesGrant' /\ \A d \in LockClients : ClientKnows(d)'
  BY WaivedStays DEF LockNamesGrant, ClientKnows, Has
<1> QED BY <1>2, <1>3

\* A TTL passes: not that of a client whose acquisition is not over
LEMMA TTLKeepsInv ==
  ASSUME LockInv, LockSlow = {}, NEW g \in dLive, TTLPasses(g)
  PROVE  LockInv'
<1> USE DEF LockInv, TTLPasses
<1>1. LockTypeOK' /\ GrantsAreOwn' /\ OwnedHasToken'
  BY DEF LockTypeOK, GrantsAreOwn, OwnedHasToken
<1> SUFFICES ASSUME ~Waived'
             PROVE  LockNamesGrant' /\ \A d \in LockClients : ClientKnows(d)'
  BY <1>1
<1>2. ~Waived
  BY WaivedStays
<1>3. LockNamesGrant'
  BY <1>2 DEF LockNamesGrant
<1>4. ASSUME NEW d \in LockClients PROVE ClientKnows(d)'
  <2>1. ClientKnows(d) /\ dLate'
    BY <1>2
  <2>2. dPc[d] = "got" => Has(d)'
    BY <2>1 DEF ClientKnows, Has
  <2> QED BY <2>1, <2>2 DEF ClientKnows
<1> QED BY <1>3, <1>4

LEMMA WriteKeepsInv ==
  ASSUME LockInv, NEW c \in LockClients, FencedWrite(c)
  PROVE  LockInv'
BY DEF LockInv, FencedWrite, LockTypeOK, GrantsAreOwn, OwnedHasToken, Waived, LockNamesGrant,
                      ClientKnows, Has

LEMMA LockInvHolds == ASSUME LockSlow = {} PROVE LockSpec => []LockInv
<1>1. LockInv /\ [LockNext]_lockVars => LockInv'
  <2> SUFFICES ASSUME LockInv, [LockNext]_lockVars PROVE LockInv'
    OBVIOUS
  <2>1. ASSUME NEW c \in LockClients, Acquire(c) PROVE LockInv'
    BY <2>1, AcquireKeepsInv
  <2>2. ASSUME NEW c \in LockClients, EnterAnyway(c) PROVE LockInv'
    BY <2>2, EnterKeepsInv
  <2>3. ASSUME NEW c \in LockClients, GetToken(c) PROVE LockInv'
    BY <2>3, TokenKeepsInv
  <2>4. ASSUME NEW c \in LockClients, Generate(c) PROVE LockInv'
    BY <2>4, GenerateKeepsInv
  <2>5. ASSUME NEW c \in LockClients, Release(c) PROVE LockInv'
    BY <2>5, ReleaseKeepsInv
  <2>6. ASSUME NEW c \in LockClients, RenewLock(c) PROVE LockInv'
    BY <2>6, RenewKeepsInv
  <2>7. ASSUME NEW c \in LockClients, FencedWrite(c) PROVE LockInv'
    BY <2>7, WriteKeepsInv
  <2>8. ASSUME LookAtLock PROVE LockInv'
    BY <2>8, LookKeepsInv
  <2>9. ASSUME NEW g \in dLive, TTLPasses(g) PROVE LockInv'
    BY <2>9, TTLKeepsInv
  <2>10. CASE UNCHANGED lockVars
    BY <2>10 DEF lockVars, LockInv, LockTypeOK, GrantsAreOwn, OwnedHasToken, Waived,
                 LockNamesGrant, ClientKnows, Has
  <2> QED BY <2>1, <2>2, <2>3, <2>4, <2>5, <2>6, <2>7, <2>8, <2>9, <2>10 DEF LockNext
<1> QED BY <1>1, LockInitHolds, PTL DEF LockSpec

\* However many clients use the lock and in whatever mixture, if they make the
\* second call of an acquisition within its TTL, two of them are never inside within
\* their TTL: late releases, renewals of lapsed locks and tokens shown later let
\* nobody in; and where usages without verification are among them, not before
\* somebody is late (acquire, renew, release, get_token of distributed_lock.py).
THEOREM LockExcludes == ASSUME LockSlow = {} PROVE LockSpec => []LockExclusion
<1>1. LockInv => LockExclusion
  <2> SUFFICES ASSUME LockInv, ~Waived,
                      NEW a \in LockClients, NEW b \in LockClients, Inside(a), Inside(b)
               PROVE  a = b
    BY DEF LockExclusion, Waived
  <2>1. dGrant[a] # 0 /\ dGrant[b] # 0
    BY DEF LockInv, ClientKnows, Inside
  <2>2. dGrant[a] = dToken /\ dGrant[b] = dToken
    BY <2>1 DEF LockInv, LockNamesGrant, Inside
  <2> QED BY <2>1, <2>2 DEF LockInv, GrantsAreOwn
<1> QED BY <1>1, LockInvHolds, PTL

-----------------------------------------------------------------------------
(* Redlock.                                                                 *)

Trying(c) == kPc[c] \in {"setting", "held"} /\ kOpen[c]

\* A token is of its client
TokensOwned == \A c \in RedClients : kToken[c] # NoKey => kToken[c] = <<c, kCalls[c]>>

\* In its window, what a client has set is still its own
KeysKept ==
  \A c \in RedClients : Trying(c) =>
    \A s \in kGot[c] : kKey[s] = kToken[c] /\ kToken[c] # NoKey

HeldByMost == \A c \in RedClients : RedHolds(c) => RedQuorum(kGot[c])

\* There is an attempt left for who waits
AttemptsLeft == \A c \in RedClients : kPc[c] = "waiting" => kAttempt[c] < RetryCount

RedInv == RedTypeOK /\ TokensOwned /\ KeysKept /\ HeldByMost /\ AttemptsLeft

LEMMA RedInitHolds == RedInit => RedInv
<1> SUFFICES ASSUME RedInit PROVE RedInv
  OBVIOUS
<1>1. ServerCount + 1 \in 1..(ServerCount + 1) /\ 0 \in 0..RedMaxAcquires /\ 0 \in 0..RetryCount
  BY RedlockAssumption
<1> QED BY <1>1 DEF RedInit, RedInv, RedTypeOK, TokensOwned, KeysKept,
                 HeldByMost, AttemptsLeft, Trying, RedHolds

-----------------------------------------------------------------------------
(* The steps of acquire() and release().                                   *)

\* An attempt begins with nothing set
LEMMA RedAttemptKeepsInv ==
  ASSUME RedInv, NEW c \in RedClients, NEW k \in 0..RetryCount, BeginAttempt(c, k),
         UNCHANGED kKey,
         kToken' \in [RedClients -> RedTokens \cup {NoKey}],
         kCalls' \in [RedClients -> 0..RedMaxAcquires],
         \A d \in RedClients : d # c => kToken'[d] = kToken[d] /\ kCalls'[d] = kCalls[d],
         kToken'[c] # NoKey => kToken'[c] = <<c, kCalls'[c]>>
  PROVE  RedInv'
<1> USE DEF RedInv, BeginAttempt
<1>1. 1 \in 1..(ServerCount + 1)
  BY RedlockAssumption
<1>2. RedTypeOK'
  BY <1>1 DEF RedTypeOK
<1>3. TokensOwned'
  BY DEF TokensOwned
<1>4. KeysKept'
  <2> SUFFICES ASSUME NEW d \in RedClients, Trying(d)', NEW s \in kGot'[d]
               PROVE  kKey'[s] = kToken'[d] /\ kToken'[d] # NoKey
    BY DEF KeysKept
  <2>1. d # c
    BY DEF RedTypeOK
  <2>2. Trying(d) /\ s \in kGot[d]
    BY <2>1 DEF Trying, RedTypeOK
  <2> QED BY <2>1, <2>2 DEF KeysKept
<1>5. HeldByMost'
  <2> SUFFICES ASSUME NEW d \in RedClients, RedHolds(d)'
               PROVE  RedQuorum(kGot[d])'
    BY DEF HeldByMost
  <2>1. d # c
    BY DEF RedHolds, RedTypeOK
  <2>2. RedHolds(d) /\ kGot'[d] = kGot[d]
    BY <2>1 DEF RedHolds, RedTypeOK
  <2> QED BY <2>2 DEF HeldByMost, RedQuorum
<1>6. AttemptsLeft'
  BY DEF AttemptsLeft, RedTypeOK
<1> QED BY <1>2, <1>3, <1>4, <1>5, <1>6

LEMMA RedAcquireKeepsInv ==
  ASSUME RedInv, NEW c \in RedClients, RedAcquire(c)
  PROVE  RedInv'
<1>1. 1 \in 0..RetryCount /\ kCalls[c] + 1 \in 1..RedMaxAcquires
  BY RedlockAssumption DEF RedAcquire, RedInv, RedTypeOK
<1>2. /\ kToken' \in [RedClients -> RedTokens \cup {NoKey}]
      /\ kCalls' \in [RedClients -> 0..RedMaxAcquires]
      /\ kToken'[c] = <<c, kCalls'[c]>>
      /\ \A d \in RedClients : d # c => kToken'[d] = kToken[d] /\ kCalls'[d] = kCalls[d]
  BY <1>1 DEF RedAcquire, RedInv, RedTypeOK, RedTokens
<1> QED BY <1>1, <1>2, RedAttemptKeepsInv DEF RedAcquire

LEMMA RedRetryKeepsInv ==
  ASSUME RedInv, NEW c \in RedClients, RetryAcquire(c)
  PROVE  RedInv'
<1>1. kAttempt[c] + 1 \in 0..RetryCount
  BY RedlockAssumption DEF RedInv, RedTypeOK, RetryAcquire, AttemptsLeft
<1> QED BY <1>1, RedAttemptKeepsInv DEF RetryAcquire, RedInv, RedTypeOK, TokensOwned

\* A set that takes effect finds no key, so it takes none from another client
LEMMA RedSetKeepsInv ==
  ASSUME RedInv, NEW c \in RedClients, NEW s \in RedServers, SetKey(c, s)
  PROVE  RedInv'
<1> USE DEF RedInv, SetKey
<1>1. RedTypeOK'
  <2>1. kNext[c] + 1 \in 1..(ServerCount + 1)
    BY RedlockAssumption DEF RedTypeOK, RedServers
  <2> QED BY <2>1 DEF RedTypeOK
<1>2. KeysKept'
  <2> SUFFICES ASSUME NEW d \in RedClients, Trying(d)', NEW t \in kGot'[d]
               PROVE  kKey'[t] = kToken'[d] /\ kToken'[d] # NoKey
    BY DEF KeysKept
  <2>1. Trying(d) /\ kToken'[d] = kToken[d]
    BY DEF Trying
  <2>2. CASE t \in kGot[d]
    <3>1. kKey[t] = kToken[d] /\ kToken[d] # NoKey
      BY <2>1, <2>2 DEF KeysKept
    <3>2. kKey'[t] = kKey[t]
      BY <3>1, <2>2 DEF RedTypeOK
    <3> QED BY <2>1, <3>1, <3>2
  <2>3. CASE t \notin kGot[d]
    <3>1. d = c /\ t = s /\ kToken[c] # NoKey /\ kKey' = [kKey EXCEPT ![s] = kToken[c]]
      BY <2>3 DEF RedTypeOK
    <3> QED BY <2>1, <3>1 DEF RedTypeOK
  <2> QED BY <2>2, <2>3
<1>3. HeldByMost'
  BY DEF HeldByMost, RedHolds, RedQuorum, RedTypeOK
<1>4. TokensOwned' /\ AttemptsLeft'
  BY DEF TokensOwned, AttemptsLeft
<1> QED BY <1>1, <1>2, <1>3, <1>4

LEMMA RedDecideKeepsInv ==
  ASSUME RedInv, NEW c \in RedClients, Decide(c)
  PROVE  RedInv'
<1> USE DEF RedInv, Decide
<1>1. RedTypeOK'
  <2>1. 1 \in 1..(ServerCount + 1)
    BY RedlockAssumption
  <2> QED BY <2>1 DEF RedTypeOK
<1>2. KeysKept'
  BY DEF KeysKept, Trying, RedTypeOK
<1>3. HeldByMost'
  BY DEF HeldByMost, RedHolds, Won, RedQuorum, RedTypeOK
<1>4. TokensOwned' /\ AttemptsLeft'
  BY DEF TokensOwned, AttemptsLeft, RedTypeOK
<1> QED BY <1>1, <1>2, <1>3, <1>4

LEMMA RedReleaseKeepsInv ==
  ASSUME RedInv, NEW c \in RedClients, RedRelease(c)
  PROVE  RedInv'
<1> USE DEF RedInv, RedRelease
<1>1. RedTypeOK'
  <2>1. 1 \in 1..(ServerCount + 1)
    BY RedlockAssumption
  <2> QED BY <2>1 DEF RedTypeOK
<1>2. KeysKept' /\ HeldByMost' /\ TokensOwned' /\ AttemptsLeft'
  BY DEF KeysKept, HeldByMost, TokensOwned, AttemptsLeft, Trying, RedHolds, RedQuorum, RedTypeOK
<1> QED BY <1>1, <1>2

\* The script deletes the client's own token only
LEMMA RedDeleteKeepsInv ==
  ASSUME RedInv, NEW c \in RedClients, NEW s \in RedServers, DeleteKey(c, s)
  PROVE  RedInv'
<1> USE DEF RedInv, DeleteKey
<1>1. RedTypeOK'
  <2>1. kNext[c] + 1 \in 1..(ServerCount + 1)
    BY RedlockAssumption DEF RedTypeOK, RedServers
  <2> QED BY <2>1 DEF RedTypeOK, AfterScript
<1>2. KeysKept'
  <2> SUFFICES ASSUME NEW d \in RedClients, Trying(d), NEW t \in kGot[d]
               PROVE  kKey'[t] = kToken[d] /\ kToken[d] # NoKey
    BY DEF KeysKept, Trying
  <2>1. kKey[t] = kToken[d] /\ kToken[d] # NoKey
    BY DEF KeysKept
  <2>2. d # c
    BY DEF Trying
  <2>3. kToken[c] # kToken[d]
    BY <2>1, <2>2 DEF TokensOwned
  <2>4. kKey'[t] = kKey[t]
    BY <2>1, <2>3 DEF AfterScript, RedTypeOK
  <2> QED BY <2>1, <2>4
<1>3. HeldByMost' /\ TokensOwned' /\ AttemptsLeft'
  BY DEF HeldByMost, TokensOwned, AttemptsLeft, RedHolds, RedQuorum
<1> QED BY <1>1, <1>2, <1>3

LEMMA RedReleasedKeepsInv ==
  ASSUME RedInv, NEW c \in RedClients, Released(c)
  PROVE  RedInv'
<1> USE DEF RedInv, Released
<1>1. RedTypeOK'
  BY DEF RedTypeOK
<1>2. KeysKept' /\ HeldByMost' /\ TokensOwned' /\ AttemptsLeft'
  BY DEF KeysKept, HeldByMost, TokensOwned, AttemptsLeft, Trying, RedHolds, RedQuorum, RedTypeOK
<1> QED BY <1>1, <1>2

-----------------------------------------------------------------------------
(* Time                                                                    *)

LEMMA RedWindowKeepsInv ==
  ASSUME RedInv, NEW c \in RedClients, WindowCloses(c)
  PROVE  RedInv'
BY DEF RedInv, WindowCloses, RedTypeOK, KeysKept, HeldByMost, TokensOwned, AttemptsLeft,
       Trying, RedHolds, RedQuorum

LEMMA RedExpiryKeepsInv ==
  ASSUME RedInv, NEW s \in RedServers, KeyExpires(s)
  PROVE  RedInv'
<1> USE DEF RedInv, KeyExpires
<1>1. RedTypeOK'
  BY DEF RedTypeOK
<1>2. KeysKept'
  BY DEF KeysKept, Trying, Alive, RedTypeOK
<1>3. HeldByMost' /\ TokensOwned' /\ AttemptsLeft'
  BY DEF HeldByMost, TokensOwned, AttemptsLeft, RedHolds, RedQuorum
<1> QED BY <1>1, <1>2, <1>3

LEMMA RedInvHolds == RedSpec => []RedInv
<1>1. RedInv /\ [RedNext]_redVars => RedInv'
  <2> SUFFICES ASSUME RedInv, [RedNext]_redVars PROVE RedInv'
    OBVIOUS
  <2>1. ASSUME NEW c \in RedClients, RedAcquire(c) PROVE RedInv'
    BY <2>1, RedAcquireKeepsInv
  <2>2. ASSUME NEW c \in RedClients, Decide(c) PROVE RedInv'
    BY <2>2, RedDecideKeepsInv
  <2>3. ASSUME NEW c \in RedClients, RedRelease(c) PROVE RedInv'
    BY <2>3, RedReleaseKeepsInv
  <2>4. ASSUME NEW c \in RedClients, Released(c) PROVE RedInv'
    BY <2>4, RedReleasedKeepsInv
  <2>5. ASSUME NEW c \in RedClients, RetryAcquire(c) PROVE RedInv'
    BY <2>5, RedRetryKeepsInv
  <2>6. ASSUME NEW c \in RedClients, WindowCloses(c) PROVE RedInv'
    BY <2>6, RedWindowKeepsInv
  <2>7. ASSUME NEW c \in RedClients, NEW s \in RedServers, SetKey(c, s) PROVE RedInv'
    BY <2>7, RedSetKeepsInv
  <2>8. ASSUME NEW c \in RedClients, NEW s \in RedServers, DeleteKey(c, s) PROVE RedInv'
    BY <2>8, RedDeleteKeepsInv
  <2>9. ASSUME NEW s \in RedServers, KeyExpires(s) PROVE RedInv'
    BY <2>9, RedExpiryKeepsInv
  <2>10. CASE UNCHANGED redVars
    BY <2>10 DEF redVars, RedInv, RedTypeOK, KeysKept, HeldByMost, TokensOwned, AttemptsLeft,
                 Trying, RedHolds, RedQuorum
  <2> QED BY <2>1, <2>2, <2>3, <2>4, <2>5, <2>6, <2>7, <2>8, <2>9, <2>10 DEF RedNext
<1> QED BY <1>1, RedInitHolds, PTL DEF RedSpec

\* The states of Redlock are typed (redlock.py:48-115).
THEOREM RedlockTyped == RedSpec => []RedTypeOK
<1>1. RedInv => RedTypeOK
  BY DEF RedInv
<1> QED BY <1>1, RedInvHolds, PTL

\* Two majorities of the servers share one
LEMMA QuorumsMeet ==
  ASSUME NEW A \in SUBSET RedServers, NEW B \in SUBSET RedServers,
         RedQuorum(A), RedQuorum(B)
  PROVE  \E s \in RedServers : s \in A /\ s \in B
<1> DEFINE N == Cardinality(RedServers)
<1>1. IsFiniteSet(RedServers) /\ N \in Nat
  BY RedlockAssumption, FS_Interval, FS_CardinalityType DEF RedServers
<1>2. Cardinality(A) \in Nat /\ Cardinality(B) \in Nat
  BY <1>1, FS_Subset, FS_CardinalityType
<1>3. Cardinality(A) >= N \div 2 + 1 /\ Cardinality(B) >= N \div 2 + 1
  BY DEF RedQuorum
<1>4. Cardinality(A) + Cardinality(B) > N
  <2> HIDE DEF N
  <2> QED BY <1>1, <1>2, <1>3
<1>5. A \cap B # {}
  BY <1>1, <1>4, FS_MajoritiesIntersect
<1> QED BY <1>5

\* However many clients, servers and retries there are, whichever sets take effect
\* without an answer and whenever keys expire, two clients never both hold the lock
\* in its window (acquire and release of redlock.py).
THEOREM RedlockExcludes == RedSpec => []RedlockExclusion
<1>1. RedInv => RedlockExclusion
  <2> SUFFICES ASSUME RedInv,
                      NEW a \in RedClients, NEW b \in RedClients, RedHolds(a), RedHolds(b)
               PROVE  a = b
    BY DEF RedlockExclusion
  <2>1. RedQuorum(kGot[a]) /\ RedQuorum(kGot[b])
    BY DEF RedInv, HeldByMost
  <2>2. PICK s \in RedServers : s \in kGot[a] /\ s \in kGot[b]
    BY <2>1, QuorumsMeet DEF RedInv, RedTypeOK
  <2>3. kToken[a] = kToken[b] /\ kToken[a] # NoKey
    BY <2>2 DEF RedInv, KeysKept, Trying, RedHolds
  <2>4. <<a, kCalls[a]>> = <<b, kCalls[b]>>
    BY <2>3 DEF RedInv, TokensOwned
  <2> QED BY <2>4
<1> QED BY <1>1, RedInvHolds, PTL

-----------------------------------------------------------------------------
(* DeadlockDetector.  While a search is on nobody's waits change: `waits`   *)
(* is what WaitsFor gives, as a function.                                   *)

MembersOf(path) == {path[i] : i \in DOMAIN path}

\* The processes whose dfs is over
DoneBy(path, visited) == visited \ MembersOf(path)

\* No member of ps but waits for another
Circle(ps, waits) == \A p \in ps : waits[p] \cap ps # {}

NoCircleIn(done, waits) == \A ps \in SUBSET done : ps # {} => ~ Circle(ps, waits)

\* The path is one: nobody is on it twice, and each waits for the next.
IsPath(path, waits) ==
  /\ \A i, j \in DOMAIN path : path[i] = path[j] => i = j
  /\ \A i, j \in DOMAIN path : j = i + 1 => path[j] \in waits[path[i]]

\* Whom a process on the path has looked at is done, but for the next on the path.
Looked(path, visited, pending, waits) ==
  \A i \in DOMAIN path :
    /\ pending[path[i]] \subseteq waits[path[i]]
    /\ \A q \in waits[path[i]] \ pending[path[i]] :
         q \in DoneBy(path, visited) \/ \E j \in DOMAIN path : j = i + 1 /\ q = path[j]

\* Who is done waits only for others that are: no way leads from there to the path.
SearchHolds(path, visited, pending, waits) ==
  /\ MembersOf(path) \subseteq visited
  /\ IsPath(path, waits)
  /\ Looked(path, visited, pending, waits)
  /\ \A p \in DoneBy(path, visited) : waits[p] \subseteq DoneBy(path, visited)
  /\ NoCircleIn(DoneBy(path, visited), waits)

Waits == [p \in Processes |-> WaitsFor(p)]

SearchInv ==
  /\ WaitTypeOK
  /\ wAnswer = "none" => wStack = << >> /\ wVisited = {}
  /\ wAnswer = "searching" => SearchHolds(wStack, wVisited, wPending, Waits)
  /\ CycleIsDeadlock

\* dfs(p) begins: from the loop over the keys, or for a neighbour.
LEMMA VisitKeepsSearch ==
  ASSUME NEW path \in Seq(Processes), NEW visited \in SUBSET Processes, NEW p \in Processes,
         NEW waits \in [Processes -> SUBSET Processes],
         NEW pending \in [Processes -> SUBSET Processes], NEW on \in [Processes -> SUBSET Processes],
         SearchHolds(path, visited, pending, waits),
         p \notin visited,
         path # << >> => p \in pending[path[Len(path)]],
         on[p] = waits[p],
         \A q \in Processes \ {p} :
           on[q] = IF path # << >> /\ q = path[Len(path)] THEN pending[q] \ {p} ELSE pending[q]
  PROVE  SearchHolds(Append(path, p), visited \cup {p}, on, waits)
<1> DEFINE long == Append(path, p)
<1>1. /\ Len(path) \in Nat /\ Len(long) = Len(path) + 1
      /\ \A i \in 1..Len(path) : long[i] = path[i]
      /\ long[Len(path) + 1] = p
      /\ long \in Seq(Processes)
  BY AppendProperties, LenProperties
<1>2. DOMAIN path = 1..Len(path) /\ DOMAIN long = 1..(Len(path) + 1)
  BY <1>1, LenProperties
<1>3. path # << >> => Len(path) \in DOMAIN path
  BY <1>1, <1>2, EmptySeq
<1> HIDE DEF long
<1>4. MembersOf(long) = MembersOf(path) \cup {p}
  BY <1>1, <1>2 DEF MembersOf
<1>5. MembersOf(path) \subseteq visited
  BY DEF SearchHolds
<1>6. DoneBy(long, visited \cup {p}) = DoneBy(path, visited)
  BY <1>4, <1>5 DEF DoneBy
<1>7. \A i \in DOMAIN path : path[i] # p /\ path[i] \in Processes
  BY <1>5 DEF MembersOf
<1>8. IsPath(path, waits) /\ Looked(path, visited, pending, waits)
  BY DEF SearchHolds
<1>9. \A i, j \in DOMAIN long : long[i] = long[j] => i = j
  BY <1>1, <1>2, <1>7, <1>8 DEF IsPath
<1>10. \A i, j \in DOMAIN long : j = i + 1 => long[j] \in waits[long[i]]
  <2> TAKE i, j \in DOMAIN long
  <2> HAVE j = i + 1
  <2>1. CASE j \in DOMAIN path
    BY <2>1, <1>1, <1>2, <1>8 DEF IsPath
  <2>2. CASE j \notin DOMAIN path
    <3>1. j = Len(path) + 1 /\ i = Len(path) /\ i \in DOMAIN path
      BY <2>2, <1>1, <1>2
    <3>2. path # << >> /\ long[i] = path[i] /\ long[j] = p
      BY <3>1, <1>1, <1>2
    <3> QED BY <3>1, <3>2, <1>8 DEF Looked
  <2> QED BY <2>1, <2>2
<1>11. IsPath(long, waits)
  BY <1>9, <1>10 DEF IsPath
<1>12. Looked(long, visited \cup {p}, on, waits)
  <2> SUFFICES ASSUME NEW i \in DOMAIN long
               PROVE  /\ on[long[i]] \subseteq waits[long[i]]
                      /\ \A q \in waits[long[i]] \ on[long[i]] :
                           \/ q \in DoneBy(path, visited)
                           \/ \E j \in DOMAIN long : j = i + 1 /\ q = long[j]
    BY <1>6 DEF Looked
  <2>1. CASE i = Len(path) + 1
    BY <2>1, <1>1
  <2>2. CASE i \in 1..Len(path)
    <3>1. long[i] = path[i] /\ i \in DOMAIN path /\ path[i] \in Processes \ {p}
      BY <2>2, <1>1, <1>2, <1>7
    <3>2. CASE i = Len(path)
      <4>1. on[path[i]] = pending[path[i]] \ {p}
        BY <3>1, <3>2, <1>1, <1>2
      <4>2. i + 1 \in DOMAIN long /\ long[i + 1] = p
        BY <3>2, <1>1, <1>2
      <4>3. \A j \in DOMAIN path : j # i + 1
        BY <3>2, <1>1, <1>2
      <4> QED BY <3>1, <4>1, <4>2, <4>3, <1>8 DEF Looked
    <3>3. CASE i # Len(path)
      <4>0. path[i] # path[Len(path)] /\ path # << >>
        BY <3>1, <3>3, <1>2, <1>3, <1>8 DEF IsPath
      <4>1. on[path[i]] = pending[path[i]]
        BY <3>1, <4>0
      <4>2. \A j \in DOMAIN path : j \in DOMAIN long /\ long[j] = path[j]
        BY <1>1, <1>2
      <4> QED BY <3>1, <4>1, <4>2, <1>8 DEF Looked
    <3> QED BY <3>2, <3>3
  <2> QED BY <2>1, <2>2, <1>1, <1>2
<1>13. MembersOf(long) \subseteq visited \cup {p}
  BY <1>4, <1>5
<1> QED BY <1>6, <1>11, <1>12, <1>13 DEF SearchHolds, long

\* A neighbour is passed over that is done.
LEMMA PassKeepsSearch ==
  ASSUME NEW path \in Seq(Processes), NEW visited \in SUBSET Processes, NEW p \in Processes,
         NEW waits \in [Processes -> SUBSET Processes],
         NEW pending \in [Processes -> SUBSET Processes],
         SearchHolds(path, visited, pending, waits),
         path # << >>, p \in visited \ MembersOf(path)
  PROVE  SearchHolds(path, visited, [pending EXCEPT ![path[Len(path)]] = @ \ {p}], waits)
<1> DEFINE on == [pending EXCEPT ![path[Len(path)]] = @ \ {p}]
<1>1. \A i \in DOMAIN path : path[i] \in Processes
  BY LenProperties, ElementOfSeq
<1>2. \A q \in Processes : on[q] = IF q = path[Len(path)] THEN pending[q] \ {p} ELSE pending[q]
  OBVIOUS
<1>3. p \in DoneBy(path, visited)
  BY DEF DoneBy
<1> HIDE DEF on
<1>4. Looked(path, visited, on, waits)
  <2>1. Looked(path, visited, pending, waits)
    BY DEF SearchHolds
  <2> SUFFICES ASSUME NEW i \in DOMAIN path
               PROVE  /\ on[path[i]] \subseteq waits[path[i]]
                      /\ \A q \in waits[path[i]] \ on[path[i]] :
                           \/ q \in DoneBy(path, visited)
                           \/ \E j \in DOMAIN path : j = i + 1 /\ q = path[j]
    BY DEF Looked
  <2>2. /\ pending[path[i]] \subseteq waits[path[i]]
        /\ \A q \in waits[path[i]] \ pending[path[i]] :
             q \in DoneBy(path, visited) \/ \E j \in DOMAIN path : j = i + 1 /\ q = path[j]
    BY <2>1 DEF Looked
  <2>3. on[path[i]] \subseteq pending[path[i]] /\ pending[path[i]] \ {p} \subseteq on[path[i]]
    BY <1>1, <1>2
  <2> QED BY <2>2, <2>3, <1>3
<1> QED BY <1>4 DEF SearchHolds, on

\* dfs returns: the last of the path is done.
LEMMA PopKeepsSearch ==
  ASSUME NEW path \in Seq(Processes), NEW visited \in SUBSET Processes,
         NEW waits \in [Processes -> SUBSET Processes],
         NEW pending \in [Processes -> SUBSET Processes],
         SearchHolds(path, visited, pending, waits),
         \A p \in Processes : p \notin waits[p],
         path # << >>, pending[path[Len(path)]] = {}
  PROVE  SearchHolds(SubSeq(path, 1, Len(path) - 1), visited, pending, waits)
<1> DEFINE short == SubSeq(path, 1, Len(path) - 1)
           last == path[Len(path)]
<1>1. Len(path) \in Nat \ {0} /\ DOMAIN path = 1..Len(path)
  BY LenProperties, EmptySeq
<1>1a. \A i \in DOMAIN path : path[i] \in Processes
  BY <1>1, ElementOfSeq
<1>2. short = [i \in 1..(Len(path) - 1) |-> path[i]]
  BY <1>1, <1>1a
<1>3. DOMAIN short = 1..(Len(path) - 1) /\ \A i \in DOMAIN short : short[i] = path[i]
  BY <1>2
<1> HIDE DEF short
<1>4. IsPath(path, waits) /\ Looked(path, visited, pending, waits) /\ MembersOf(path) \subseteq visited
  BY DEF SearchHolds
<1>5. Len(path) \in DOMAIN path /\ last \in Processes
  BY <1>1, <1>1a
<1>6. \A i \in DOMAIN short : i \in DOMAIN path /\ i # Len(path) /\ path[i] # last
  BY <1>1, <1>3, <1>4, <1>5 DEF IsPath
<1>7. \A i \in DOMAIN path : i = Len(path) \/ i \in DOMAIN short
  BY <1>1, <1>3
<1>8. MembersOf(path) = MembersOf(short) \cup {last} /\ last \notin MembersOf(short)
  BY <1>3, <1>5, <1>6, <1>7 DEF MembersOf
<1> DEFINE done == DoneBy(path, visited)
<1>9. DoneBy(short, visited) = done \cup {last}
  BY <1>4, <1>5, <1>8 DEF DoneBy, MembersOf
<1>10. last \notin done
  BY <1>5 DEF DoneBy, MembersOf
<1>11. waits[last] \subseteq done
  <2>1. \A j \in DOMAIN path : j # Len(path) + 1
    BY <1>1
  <2> QED BY <1>4, <1>5, <2>1 DEF Looked
<1>12. \A p \in done : waits[p] \subseteq done
  BY DEF SearchHolds
<1>13. NoCircleIn(done, waits)
  BY DEF SearchHolds
<1> HIDE DEF last, done
<1>14. NoCircleIn(done \cup {last}, waits)
  <2> SUFFICES ASSUME NEW ps \in SUBSET (done \cup {last}), ps # {}, Circle(ps, waits)
               PROVE  FALSE
    BY DEF NoCircleIn
  <2>1. last \in ps
    BY <1>13 DEF NoCircleIn
  <2>2. ps \ {last} \in SUBSET done
    OBVIOUS
  <2>3. \A p \in ps \ {last} : waits[p] \cap (ps \ {last}) # {}
    BY <1>10, <1>12, <2>2 DEF Circle
  <2>4. waits[last] \cap (ps \ {last}) # {}
    BY <2>1, <1>5, <1>10, <1>11 DEF Circle
  <2>5. ps \ {last} # {}
    BY <2>4
  <2> QED BY <2>2, <2>3, <2>5, <1>13 DEF NoCircleIn, Circle
<1>15. IsPath(short, waits)
  BY <1>3, <1>4, <1>6 DEF IsPath
<1>16. Looked(short, visited, pending, waits)
  <2> SUFFICES ASSUME NEW i \in DOMAIN short
               PROVE  /\ pending[short[i]] \subseteq waits[short[i]]
                      /\ \A q \in waits[short[i]] \ pending[short[i]] :
                           \/ q \in done \cup {last}
                           \/ \E j \in DOMAIN short : j = i + 1 /\ q = short[j]
    BY <1>9 DEF Looked
  <2>1. i \in DOMAIN path /\ short[i] = path[i]
    BY <1>3, <1>6
  <2>2. \A j \in DOMAIN path : path[j] = last \/ (j \in DOMAIN short /\ short[j] = path[j])
    <3> TAKE j \in DOMAIN path
    <3>1. CASE j = Len(path)
      BY <3>1 DEF last
    <3>2. CASE j \in DOMAIN short
      BY <3>2, <1>3
    <3> QED BY <3>1, <3>2, <1>7
  <2>3. /\ pending[path[i]] \subseteq waits[path[i]]
        /\ \A q \in waits[path[i]] \ pending[path[i]] :
             q \in done \/ \E j \in DOMAIN path : j = i + 1 /\ q = path[j]
    BY <2>1, <1>4 DEF Looked, done
  <2> QED BY <2>1, <2>2, <2>3
<1>17. MembersOf(short) \subseteq visited
  BY <1>4, <1>8
<1>18. \A p \in done \cup {last} : waits[p] \subseteq done \cup {last}
  BY <1>11, <1>12
<1> QED BY <1>9, <1>14, <1>15, <1>16, <1>17, <1>18 DEF SearchHolds, short

LEMMA WaitInitHolds == WaitInit => SearchInv
<1> SUFFICES ASSUME WaitInit PROVE SearchInv
  OBVIOUS
<1>1. WaitTypeOK
  BY DEF WaitInit, WaitTypeOK
<1> QED BY <1>1 DEF WaitInit, SearchInv, CycleIsDeadlock

\* Steps between searches
LEMMA IdleKeepsSearch ==
  ASSUME SearchInv, Idle, Idle', WaitTypeOK', UNCHANGED <<wStack, wVisited>>
  PROVE  SearchInv'
BY DEF SearchInv, Idle, CycleIsDeadlock

\* A search looks only
LEMMA SearchLooks ==
  ASSUME UNCHANGED <<wWaiting, wHeldBy>>
  PROVE  (Waits' = Waits) /\ Deadlocked' = Deadlocked /\ \A p : WaitsFor(p)' = WaitsFor(p)
BY DEF Waits, WaitsFor, Deadlocked

LEMMA WaitsAreTyped ==
  ASSUME WaitTypeOK
  PROVE  /\ Waits \in [Processes -> SUBSET Processes]
         /\ \A p \in Processes : p \notin Waits[p] /\ Waits[p] = WaitsFor(p)
BY DEF WaitTypeOK, Waits, WaitsFor

LEMMA SearchBeginsKeepsInv == ASSUME SearchInv, SearchBegins PROVE SearchInv'
<1>1. WaitTypeOK'
  BY DEF SearchInv, SearchBegins, WaitTypeOK
<1>2. wStack' = << >> /\ wVisited' = {} /\ wAnswer' = "searching"
  BY DEF SearchInv, SearchBegins, Idle
<1>3. SearchHolds(wStack, wVisited, wPending, Waits)'
  BY <1>2 DEF SearchHolds, MembersOf, DoneBy, IsPath, Looked, NoCircleIn
<1> QED BY <1>1, <1>2, <1>3 DEF SearchInv, CycleIsDeadlock

\* Without roots everybody who waits is done
LEMMA NoRootsNoDeadlock ==
  ASSUME WaitTypeOK, SearchHolds(<< >>, wVisited, wPending, Waits),
         {p \in Processes : WaitsFor(p) # {}} \subseteq wVisited
  PROVE  ~ Deadlocked
<1> SUFFICES ASSUME NEW ps \in (SUBSET Processes) \ {{}}, \A p \in ps : WaitsFor(p) \cap ps # {}
             PROVE  FALSE
  BY DEF Deadlocked
<1>1. DoneBy(<< >>, wVisited) = wVisited
  BY DEF DoneBy, MembersOf
<1>2. ps \in SUBSET wVisited /\ ps # {}
  OBVIOUS
<1>3. Circle(ps, Waits)
  BY WaitsAreTyped DEF Circle
<1> QED BY <1>1, <1>2, <1>3 DEF SearchHolds, NoCircleIn

LEMMA SearchRootKeepsInv == ASSUME SearchInv, SearchRoot PROVE SearchInv'
<1>0. WaitTypeOK /\ wAnswer = "searching" /\ wStack = << >>
      /\ SearchHolds(wStack, wVisited, wPending, Waits)
      /\ UNCHANGED <<wWaiting, wHeldBy>>
  BY DEF SearchInv, SearchRoot
<1>1. (Waits' = Waits) /\ Deadlocked' = Deadlocked
  BY <1>0, SearchLooks
<1> DEFINE roots == {p \in Processes : WaitsFor(p) # {}} \ wVisited
<1>2. CASE roots = {} /\ wAnswer' = "free" /\ UNCHANGED <<wStack, wVisited, wPending>>
  <2>1. WaitTypeOK'
    BY <1>0, <1>2 DEF WaitTypeOK
  <2>2. SearchHolds(<< >>, wVisited, wPending, Waits)
    BY <1>0
  <2>3. ~ Deadlocked
    BY <1>0, <1>2, <2>2, NoRootsNoDeadlock
  <2> QED BY <1>1, <1>2, <2>1, <2>3 DEF SearchInv, CycleIsDeadlock
<1>3. ASSUME NEW p \in roots, Visit(p), UNCHANGED wAnswer PROVE SearchInv'
  <2>1. PICK stack, visited, pending, waits :
          stack = wStack /\ visited = wVisited /\ pending = wPending /\ waits = Waits
    OBVIOUS
  <2>2. PICK on : on = wPending'
    OBVIOUS
  <2>3. /\ stack \in Seq(Processes) /\ visited \in SUBSET Processes /\ p \in Processes
        /\ waits \in [Processes -> SUBSET Processes] /\ pending \in [Processes -> SUBSET Processes]
        /\ SearchHolds(stack, visited, pending, waits) /\ p \notin visited /\ stack = << >>
        /\ waits[p] = WaitsFor(p) /\ waits[p] \subseteq Processes
    BY <1>0, <2>1, WaitsAreTyped DEF WaitTypeOK
  <2>4. /\ on \in [Processes -> SUBSET Processes] /\ on[p] = waits[p]
        /\ \A q \in Processes \ {p} : on[q] = pending[q]
    BY <1>3, <2>1, <2>2, <2>3 DEF Visit
  <2>5. wStack' = Append(stack, p) /\ wVisited' = visited \cup {p}
    BY <1>3, <2>1 DEF Visit
  <2>6. SearchHolds(Append(stack, p), visited \cup {p}, on, waits)
    BY <2>3, <2>4, VisitKeepsSearch
  <2>7. Append(stack, p) \in Seq(Processes)
    BY <2>3, AppendProperties
  <2>8. WaitTypeOK'
    BY <1>0, <1>3, <2>2, <2>3, <2>4, <2>5, <2>7 DEF WaitTypeOK
  <2>9. SearchHolds(wStack', wVisited', wPending', Waits')
    BY <1>1, <2>1, <2>2, <2>5, <2>6
  <2> QED BY <1>0, <1>3, <2>8, <2>9 DEF SearchInv, CycleIsDeadlock
<1> QED BY <1>2, <1>3 DEF SearchRoot

\* The part of the path from i on
LEMMA SuffixOf ==
  ASSUME NEW path \in Seq(Processes), NEW i \in DOMAIN path
  PROVE  /\ SubSeq(path, i, Len(path)) \in Seq(Processes)
         /\ Len(SubSeq(path, i, Len(path))) = Len(path) - i + 1
         /\ Len(path) \in Nat \ {0} /\ i \in 1..Len(path)
         /\ \A j \in 1..(Len(path) - i + 1) : SubSeq(path, i, Len(path))[j] = path[j + i - 1]
<1>1. Len(path) \in Nat /\ DOMAIN path = 1..Len(path)
  BY LenProperties
<1>2. \A j \in DOMAIN path : path[j] \in Processes
  BY <1>1, ElementOfSeq
<1>3. SubSeq(path, i, Len(path)) = [j \in 1..(Len(path) - i + 1) |-> path[j + i - 1]]
  BY <1>1
<1>4. \A j \in 1..(Len(path) - i + 1) : path[j + i - 1] \in Processes
  BY <1>1, <1>2
<1>5. SubSeq(path, i, Len(path)) \in Seq(Processes) /\ Len(path) - i + 1 \in Nat
  <2>1. PICK n : n = Len(path) - i + 1
    OBVIOUS
  <2>2. n \in Nat
    BY <1>1, <2>1
  <2>3. PICK part : part = [j \in 1..n |-> path[j + i - 1]]
    OBVIOUS
  <2>4. part \in [1..n -> Processes]
    BY <1>4, <2>1, <2>3
  <2>5. part \in Seq(Processes)
    BY <2>2, <2>4
  <2> QED BY <1>3, <2>1, <2>2, <2>3, <2>5
<1> QED BY <1>1, <1>3, <1>5, LenProperties

\* A wait for somebody on the path closes a circle
LEMMA CircleClosed ==
  ASSUME NEW path \in Seq(Processes), NEW waits \in [Processes -> SUBSET Processes],
         NEW i \in DOMAIN path, IsPath(path, waits), path[i] \in waits[path[Len(path)]]
  PROVE  LET found == SubSeq(path, i, Len(path))
         IN  \A j \in DOMAIN found :
               found[IF j = Len(found) THEN 1 ELSE j + 1] \in waits[found[j]]
<1> DEFINE found == SubSeq(path, i, Len(path))
<1>1. /\ found \in Seq(Processes)
      /\ Len(found) = Len(path) - i + 1
      /\ Len(path) \in Nat \ {0} /\ i \in 1..Len(path)
      /\ \A j \in 1..(Len(path) - i + 1) : found[j] = path[j + i - 1]
  BY SuffixOf
<1>2. DOMAIN found = 1..(Len(path) - i + 1) /\ DOMAIN path = 1..Len(path)
  BY <1>1, LenProperties
<1> HIDE DEF found
<1> SUFFICES ASSUME NEW j \in DOMAIN found
             PROVE  found[IF j = Len(found) THEN 1 ELSE j + 1] \in waits[found[j]]
  BY DEF found
<1>3. CASE j = Len(found)
  <2>1. found[j] = path[Len(path)] /\ found[1] = path[i]
    BY <1>1, <1>2, <1>3
  <2> QED BY <1>3, <2>1
<1>4. CASE j # Len(found)
  <2>1. j + 1 \in DOMAIN found /\ j + i - 1 \in DOMAIN path /\ j + i \in DOMAIN path
    BY <1>1, <1>2, <1>4
  <2>2. found[j] = path[j + i - 1]
    BY <1>1, <1>2
  <2>3. found[j + 1] = path[j + i]
    BY <1>1, <1>2, <2>1
  <2>4. path[j + i] \in waits[path[j + i - 1]]
    BY <1>1, <1>2, <2>1 DEF IsPath
  <2> QED BY <1>4, <2>2, <2>3, <2>4
<1> QED BY <1>3, <1>4

\* One step of dfs in its loop, for each way it goes
LEMMA SearchOnKeepsInv == ASSUME SearchInv, SearchOn PROVE SearchInv'
<1>0. WaitTypeOK /\ wAnswer = "searching" /\ wStack # << >>
      /\ SearchHolds(wStack, wVisited, wPending, Waits)
      /\ UNCHANGED <<wWaiting, wHeldBy>>
  BY DEF SearchInv, SearchOn
<1>1. (Waits' = Waits) /\ \A p : WaitsFor(p)' = WaitsFor(p)
  BY <1>0, SearchLooks
<1>2. PICK path, visited, pending, waits, on :
        /\ path = wStack /\ visited = wVisited /\ pending = wPending /\ waits = Waits
        /\ on = wPending'
  OBVIOUS
<1>3. /\ path \in Seq(Processes) /\ visited \in SUBSET Processes
      /\ waits \in [Processes -> SUBSET Processes] /\ pending \in [Processes -> SUBSET Processes]
      /\ SearchHolds(path, visited, pending, waits) /\ path # << >>
      /\ \A p \in Processes : p \notin waits[p] /\ waits[p] = WaitsFor(p)
  BY <1>0, <1>2, WaitsAreTyped DEF WaitTypeOK
<1> DEFINE node == path[Len(path)]
<1>4. Len(path) \in DOMAIN path /\ node \in Processes /\ DOMAIN path = 1..Len(path)
  BY <1>3, LenProperties, EmptySeq, ElementOfSeq
<1>5. OnStack(node) /\ \A p : OnStack(p) <=> p \in MembersOf(path)
  BY <1>2, <1>4 DEF OnStack, MembersOf
<1>6. pending[node] \subseteq waits[node] /\ pending[node] \subseteq Processes
  BY <1>3, <1>4 DEF SearchHolds, Looked
<1> HIDE DEF node
<1>7. ASSUME NEW q \in pending[node], wAnswer' = "cycle",
             NEW i \in DOMAIN path, path[i] = q, wStack' = CycleFrom(i),
             UNCHANGED <<wVisited, wPending>>
      PROVE  SearchInv'
  <2>1. PICK found : found = SubSeq(path, i, Len(path))
    OBVIOUS
  <2>2. wStack' = found
    BY <1>2, <1>7, <2>1 DEF CycleFrom
  <2>3. found \in Seq(Processes)
    BY <1>3, <2>1, SuffixOf
  <2>4. path[i] \in waits[path[Len(path)]]
    BY <1>6, <1>7 DEF node
  <2>5. \A j \in DOMAIN found : found[IF j = Len(found) THEN 1 ELSE j + 1] \in waits[found[j]]
    <3>1. IsPath(path, waits)
      BY <1>3 DEF SearchHolds
    <3> QED BY <1>3, <2>1, <2>4, <3>1, CircleClosed
  <2>6. \A j \in DOMAIN found : found[j] \in Processes
    BY <2>3, LenProperties, ElementOfSeq
  <2>7. CycleIsDeadlock'
    <3>1. \A j \in DOMAIN found :
            found[IF j = Len(found) THEN 1 ELSE j + 1] \in WaitsFor(found[j])'
      BY <1>1, <1>3, <2>5, <2>6
    <3> QED BY <1>7, <2>2, <3>1 DEF CycleIsDeadlock
  <2>8. WaitTypeOK'
    BY <1>0, <1>7, <2>2, <2>3 DEF WaitTypeOK
  <2> QED BY <1>7, <2>7, <2>8 DEF SearchInv
<1>8. ASSUME NEW q \in pending[node], ~ OnStack(q), UNCHANGED wAnswer, q \in wVisited,
             wPending' = [wPending EXCEPT ![node] = @ \ {q}], UNCHANGED <<wStack, wVisited>>
      PROVE  SearchInv'
  <2>1. q \in visited \ MembersOf(path) /\ q \in Processes
    BY <1>2, <1>5, <1>6, <1>8
  <2>2. SearchHolds(path, visited, [pending EXCEPT ![path[Len(path)]] = @ \ {q}], waits)
    BY <1>3, <2>1, PassKeepsSearch
  <2>3. SearchHolds(wStack', wVisited', wPending', Waits')
    BY <1>1, <1>2, <1>8, <2>2 DEF node
  <2>4. WaitTypeOK'
    BY <1>0, <1>8 DEF WaitTypeOK
  <2> QED BY <1>0, <1>8, <2>3, <2>4 DEF SearchInv, CycleIsDeadlock
<1>9. ASSUME NEW q \in pending[node], ~ OnStack(q), UNCHANGED wAnswer, q \notin wVisited,
             wVisited' = wVisited \cup {q}, wStack' = Append(wStack, q),
             wPending' = [wPending EXCEPT ![node] = @ \ {q}, ![q] = WaitsFor(q)]
      PROVE  SearchInv'
  <2>1. q \notin visited /\ q \in Processes /\ q # node
    BY <1>2, <1>5, <1>6, <1>9
  <2>2. waits[q] = WaitsFor(q) /\ waits[q] \subseteq Processes
    BY <1>3, <2>1
  <2>3. on \in [Processes -> SUBSET Processes] /\ on[q] = waits[q]
    BY <1>2, <1>3, <1>4, <1>9, <2>1, <2>2
  <2>4. \A p \in Processes \ {q} : on[p] = IF p = node THEN pending[p] \ {q} ELSE pending[p]
    BY <1>2, <1>3, <1>4, <1>9, <2>1, <2>2
  <2>5. SearchHolds(Append(path, q), visited \cup {q}, on, waits)
    <3>1. \A p \in Processes \ {q} :
            on[p] = IF path # << >> /\ p = path[Len(path)] THEN pending[p] \ {q} ELSE pending[p]
      BY <1>3, <2>4 DEF node
    <3>2. path # << >> => q \in pending[path[Len(path)]]
      BY <1>9 DEF node
    <3> QED BY <1>3, <2>1, <2>3, <3>1, <3>2, VisitKeepsSearch
  <2>6. Append(path, q) \in Seq(Processes)
    BY <1>3, <2>1, AppendProperties
  <2>7. WaitTypeOK'
    BY <1>0, <1>2, <1>9, <2>1, <2>3, <2>6 DEF WaitTypeOK
  <2>8. SearchHolds(wStack', wVisited', wPending', Waits')
    BY <1>1, <1>2, <1>9, <2>5
  <2> QED BY <1>0, <1>9, <2>7, <2>8 DEF SearchInv, CycleIsDeadlock
<1>10. ASSUME wPending[node] = {}, wStack' = SubSeq(wStack, 1, Len(wStack) - 1),
              UNCHANGED <<wVisited, wPending, wAnswer>>
       PROVE  SearchInv'
  <2>1. SearchHolds(SubSeq(path, 1, Len(path) - 1), visited, pending, waits)
    BY <1>2, <1>3, <1>10, PopKeepsSearch DEF node
  <2>2. SearchHolds(wStack', wVisited', wPending', Waits')
    BY <1>1, <1>2, <1>10, <2>1
  <2>3. SubSeq(path, 1, Len(path) - 1) \in Seq(Processes)
    <3>1. \A i \in 1..(Len(path) - 1) : path[i] \in Processes
      BY <1>3, <1>4, ElementOfSeq
    <3>2. SubSeq(path, 1, Len(path) - 1) = [i \in 1..(Len(path) - 1) |-> path[i]]
      BY <1>3, <1>4
    <3>3. Len(path) - 1 \in Nat
      BY <1>3, <1>4, LenProperties
    <3> QED BY <3>1, <3>2, <3>3
  <2>4. WaitTypeOK'
    BY <1>0, <1>2, <1>10, <2>3 DEF WaitTypeOK
  <2> QED BY <1>0, <1>10, <2>2, <2>4 DEF SearchInv, CycleIsDeadlock
<1>11. node = wStack[Len(wStack)] /\ pending = wPending /\ path = wStack
  BY <1>2 DEF node
<1> QED BY <1>7, <1>8, <1>9, <1>10, <1>11 DEF SearchOn

LEMMA SearchEndsKeepsInv == ASSUME SearchInv, SearchEnds PROVE SearchInv'
<1>1. WaitTypeOK'
  BY DEF SearchInv, SearchEnds, WaitTypeOK
<1> QED BY <1>1 DEF SearchEnds, SearchInv, CycleIsDeadlock

LEMMA SearchInvHolds == WaitSpec => []SearchInv
<1>1. SearchInv /\ [WaitNext]_waitVars => SearchInv'
  <2> SUFFICES ASSUME SearchInv, [WaitNext]_waitVars PROVE SearchInv'
    OBVIOUS
  <2>0. WaitTypeOK
    BY DEF SearchInv
  <2>1. ASSUME NEW p \in Processes, NEW r \in Resources, RecordLock(p, r) PROVE SearchInv'
    <3>1. Idle /\ Idle' /\ UNCHANGED <<wStack, wVisited>>
      BY <2>1 DEF RecordLock, Idle, searchVars
    <3>2. WaitTypeOK'
      BY <2>0, <2>1 DEF WaitTypeOK, RecordLock, searchVars
    <3> QED BY <3>1, <3>2, IdleKeepsSearch
  <2>2. ASSUME NEW p \in Processes, NEW r \in Resources, RecordWait(p, r) PROVE SearchInv'
    <3>1. Idle /\ Idle' /\ UNCHANGED <<wStack, wVisited>>
      BY <2>2 DEF RecordWait, Idle, searchVars
    <3>2. WaitTypeOK'
      BY <2>0, <2>2 DEF WaitTypeOK, RecordWait, searchVars
    <3> QED BY <3>1, <3>2, IdleKeepsSearch
  <2>3. ASSUME NEW p \in Processes, NEW r \in Resources, RecordRelease(p, r) PROVE SearchInv'
    <3>1. Idle /\ Idle' /\ UNCHANGED <<wStack, wVisited>>
      BY <2>3 DEF RecordRelease, Idle, searchVars
    <3>2. WaitTypeOK'
      BY <2>0, <2>3 DEF WaitTypeOK, RecordRelease, searchVars
    <3> QED BY <3>1, <3>2, IdleKeepsSearch
  <2>4. CASE UNCHANGED waitVars
    <3>1. UNCHANGED <<wWaiting, wHeldBy, wStack, wVisited, wPending, wAnswer>>
      BY <2>4 DEF waitVars
    <3>2. Waits' = Waits /\ (CycleIsDeadlock' <=> CycleIsDeadlock)
      BY <3>1 DEF Waits, WaitsFor, CycleIsDeadlock, Deadlocked
    <3>3. WaitTypeOK'
      BY <2>0, <3>1 DEF WaitTypeOK
    <3>4. wAnswer = "searching" => SearchHolds(wStack', wVisited', wPending', Waits')
      BY <3>1, <3>2 DEF SearchInv
    <3> QED BY <3>1, <3>2, <3>3, <3>4 DEF SearchInv
  <2> QED BY <2>1, <2>2, <2>3, <2>4, SearchBeginsKeepsInv, SearchRootKeepsInv,
             SearchOnKeepsInv, SearchEndsKeepsInv DEF WaitNext, AcquireFree
<1> QED BY <1>1, WaitInitHolds, PTL DEF WaitSpec

\* The depth-first search answers "free" only when nobody is deadlocked, and what
\* it returns is a circle of waits, whatever order it meets the processes in
\* (deadlock_detector.py:123).
THEOREM DeadlocksAreFound == WaitSpec => []CycleIsDeadlock
<1>1. SearchInv => CycleIsDeadlock
  BY DEF SearchInv
<1> QED BY <1>1, SearchInvHolds, PTL
=============================================================================
