-------------------------- MODULE ApiReplicaProofs --------------------------
(* What TLAPS proves of ApiReplica, for any time to live, any length of a  *)
(* check, and any number of probes and connections.                        *)
EXTENDS ApiReplica, StreamCapacityProofs

-----------------------------------------------------------------------------
(* The sessions of a replica are sessions of StreamCapacity: no part of the*)
(* lifespan and no probe disturbs them.                                    *)
THEOREM SessionsOfReplica == ReplicaSpec => Spec
<1>1. ASSUME [ReplicaNext]_allVars PROVE [Next]_vars
  BY <1>1 DEF ReplicaNext, allVars, StartUp, BeginShutdown, Serve, BucketChanges, Tick,
       Ask, ProbeStep, CheckBucket, Conclude, Respond, Next
<1>2. ReplicaInit => Init
  BY DEF ReplicaInit
<1> QED
  BY <1>1, <1>2, PTL DEF ReplicaSpec, Spec

(* So the counter stays exact, sessions stay bounded, and no landmarker    *)
(* leaks or is closed in use but where Task.cancel came at a bad moment,   *)
(* whatever the probes find and whenever the replica is stopped.           *)
THEOREM ReplicaKeepsSessions ==
  ReplicaSpec => /\ [](CountIsExact /\ SessionsBounded)
                 /\ [](NoLandmarkerLeaks /\ NotClosedInUse /\ CleanWithoutTaskCancel)
<1>1. Spec => [](CountIsExact /\ SessionsBounded)
  BY CountIsExactHolds, SessionsBoundedHolds, PTL
<1>2. Spec => [](NoLandmarkerLeaks /\ NotClosedInUse /\ CleanWithoutTaskCancel)
  BY NoLandmarkerLeaksHolds, NotClosedInUseHolds, CleanWithoutTaskCancelHolds, PTL
<1> QED
  BY <1>1, <1>2, SessionsOfReplica

-----------------------------------------------------------------------------
(* The age of the last contact and what is left of the cache add up to at  *)
(* most the time to live; a probe that was told the bucket is there has    *)
(* waited at least as long as that is ago.                                 *)
CacheInv ==
  /\ lifespan \in {"starting", "serving", "closing"}
  /\ reachable \in BOOLEAN
  /\ upAge \in 0..Old
  /\ cacheLeft \in 0..TTL
  /\ probe \in [Probes -> [at : ProbePoints, age : 0..Slow]]
  /\ reachable => upAge = 0
  /\ cacheLeft > 0 => upAge + cacheLeft <= TTL
  /\ \A p \in Probes : probe[p].at = "answered" => upAge <= probe[p].age

LEMMA CacheInit == ReplicaInit => CacheInv
BY ProbeAssumption DEF ReplicaInit, CacheInv, Old, Idle, ProbePoints

LEMMA GoesLemma ==
  ASSUME CacheInv, NEW p \in Probes, NEW since \in 0..Slow,
         NEW to \in ProbePoints, Goes(p, to, since),
         to = "answered" => upAge <= since
  PROVE /\ probe' \in [Probes -> [at : ProbePoints, age : 0..Slow]]
        /\ \A q \in Probes : probe'[q].at = "answered" => upAge <= probe'[q].age
<1> DEFINE moved == [at |-> to, age |-> since]
<1>1. moved \in [at : ProbePoints, age : 0..Slow]
  OBVIOUS
<1>2. \A q \in Probes : probe'[q] = IF q = p THEN moved ELSE probe[q]
  BY DEF Goes, CacheInv
<1>3. probe' \in [Probes -> [at : ProbePoints, age : 0..Slow]]
  BY <1>1 DEF Goes, CacheInv
<1> QED
  BY <1>2, <1>3 DEF CacheInv

LEMMA VerdictLemma ==
  ASSUME NEW p \in Probes, Verdict(p)
  PROVE Goes(p, "idle", 0) \/ (~shuttingDown /\ Goes(p, "ready", 0))
BY DEF Verdict, NotReady, Goes, Idle

LEMMA CacheStep ==
  ASSUME CacheInv, [ReplicaNext]_allVars
  PROVE CacheInv'
<1>1. CASE StartUp
  BY <1>1 DEF StartUp, probeVars, CacheInv
<1>2. CASE BeginShutdown
  BY <1>2 DEF BeginShutdown, probeVars, CacheInv
<1>3. ASSUME NEW c \in Connections, Serve(c) PROVE CacheInv'
  BY <1>3 DEF Serve, replicaVars, probeVars, CacheInv
<1>4. CASE BucketChanges
  BY <1>4, ProbeAssumption DEF BucketChanges, CacheInv, Old
<1>5. CASE Tick
  <2>1. /\ upAge' \in 0..Old /\ upAge' <= upAge + 1 /\ (reachable => upAge' = 0)
        /\ cacheLeft' \in 0..TTL /\ (cacheLeft' > 0 => cacheLeft' = cacheLeft - 1)
        /\ UNCHANGED <<lifespan, reachable>>
    BY <1>5, ProbeAssumption DEF Tick, CacheInv, Old
  <2>2. cacheLeft' > 0 => upAge' + cacheLeft' <= TTL
    <3>1. /\ upAge \in Nat /\ cacheLeft \in Nat /\ upAge' \in Nat /\ cacheLeft' \in Nat
          /\ TTL \in Nat
      BY <2>1, ProbeAssumption DEF CacheInv, Old
    <3>2. ASSUME cacheLeft' > 0 PROVE upAge' + cacheLeft' <= TTL
      <4>1. cacheLeft' = cacheLeft - 1 /\ upAge' <= upAge + 1
        BY <2>1, <3>2
      <4>2. cacheLeft > 0
        BY <3>1, <3>2, <4>1
      <4>3. upAge + cacheLeft <= TTL
        BY <4>2 DEF CacheInv
      <4>4. \A a, b, c, d, t \in Nat : a <= b + 1 /\ c = d - 1 /\ b + d <= t => a + c <= t
        OBVIOUS
      <4> QED
        BY <3>1, <4>1, <4>3, <4>4
    <3> QED
      BY <3>2
  <2>3. ASSUME NEW q \in Probes
        PROVE /\ probe'[q] \in [at : ProbePoints, age : 0..Slow]
              /\ probe'[q].at = "answered" => upAge' <= probe'[q].age
    <3>1. probe[q] \in [at : ProbePoints, age : 0..Slow]
      BY DEF CacheInv
    <3>2. CASE probe[q].at \in Checking
      <4>1. probe[q].age < Slow
        BY <1>5, <3>2 DEF Tick
      <4>2. probe'[q] = [probe[q] EXCEPT !.age = @ + 1]
        BY <1>5, <3>2 DEF Tick
      <4>3. probe[q].age + 1 \in 0..Slow
        BY <3>1, <4>1, ProbeAssumption
      <4>4. probe'[q].at = probe[q].at /\ probe'[q].age = probe[q].age + 1
        BY <3>1, <4>2
      <4> QED
        BY <2>1, <3>1, <4>2, <4>3, <4>4, ProbeAssumption DEF CacheInv, Old
    <3>3. CASE probe[q].at \notin Checking
      BY <1>5, <3>1, <3>3 DEF Tick, Checking
    <3> QED
      BY <3>2, <3>3
  <2>4. probe' \in [Probes -> [at : ProbePoints, age : 0..Slow]]
    BY <1>5, <2>3 DEF Tick
  <2> QED
    BY <2>1, <2>2, <2>3, <2>4 DEF CacheInv
<1>6. ASSUME NEW p \in Probes, Ask(p) PROVE CacheInv'
  <2>1. /\ UNCHANGED <<lifespan, reachable, upAge, cacheLeft>>
        /\ \E to \in {"idle", "ready", "checking"} : Goes(p, to, 0)
    BY <1>6, VerdictLemma DEF Ask
  <2>2. PICK to \in {"idle", "ready", "checking"} : Goes(p, to, 0)
    BY <2>1
  <2>3. to \in ProbePoints /\ to # "answered" /\ 0 \in 0..Slow
    BY ProbeAssumption DEF ProbePoints, Checking
  <2> QED
    BY <2>1, <2>2, <2>3, GoesLemma DEF CacheInv
<1>7. ASSUME NEW p \in Probes, CheckBucket(p) PROVE CacheInv'
  <2>1. UNCHANGED <<lifespan, reachable, upAge, cacheLeft>> /\ probe[p].age \in 0..Slow
    BY <1>7 DEF CheckBucket, CacheInv
  <2>2. CASE reachable
    <3>1. Goes(p, "answered", probe[p].age) /\ upAge <= probe[p].age
      BY <1>7, <2>1, <2>2, ProbeAssumption DEF CheckBucket, CacheInv
    <3> QED
      BY <2>1, <3>1, GoesLemma DEF CacheInv, ProbePoints, Checking
  <2>3. CASE ~reachable
    <3>1. Goes(p, "idle", 0) /\ 0 \in 0..Slow
      BY <1>7, <2>3, ProbeAssumption DEF CheckBucket, NotReady, Goes, Idle
    <3> QED
      BY <2>1, <3>1, GoesLemma DEF CacheInv, ProbePoints
  <2> QED
    BY <2>2, <2>3
<1>8. ASSUME NEW p \in Probes, Conclude(p) PROVE CacheInv'
  <2>1. PICK to \in {"idle", "ready"} : Goes(p, to, 0)
    BY <1>8, VerdictLemma DEF Conclude
  <2>2. to \in ProbePoints /\ to # "answered" /\ 0 \in 0..Slow /\ probe[p].age \in 0..Slow
    BY ProbeAssumption DEF CacheInv, ProbePoints
  <2>3. UNCHANGED <<lifespan, reachable, upAge>>
    BY <1>8 DEF Conclude
  <2>4. cacheLeft' \in 0..TTL /\ (cacheLeft' > 0 => upAge + cacheLeft' <= TTL)
    <3>1. cacheLeft' = IF probe[p].age < TTL THEN TTL - probe[p].age ELSE 0
      BY <1>8 DEF Conclude, Remember
    <3>2. upAge \in Nat /\ upAge <= probe[p].age
      BY <1>8, ProbeAssumption DEF Conclude, CacheInv, Old
    <3> QED
      BY <2>2, <3>1, <3>2, ProbeAssumption
  <2> QED
    BY <2>1, <2>2, <2>3, <2>4, GoesLemma DEF CacheInv
<1>9. ASSUME NEW p \in Probes, Respond(p) PROVE CacheInv'
  <2>1. /\ Goes(p, "idle", 0) /\ 0 \in 0..Slow
        /\ UNCHANGED <<lifespan, reachable, upAge, cacheLeft>>
    BY <1>9, ProbeAssumption DEF Respond, Goes, Idle
  <2> QED
    BY <2>1, GoesLemma DEF CacheInv, ProbePoints
<1>10. CASE UNCHANGED allVars
  BY <1>10 DEF allVars, replicaVars, probeVars, CacheInv
<1> QED
  BY <1>1, <1>2, <1>3, <1>4, <1>5, <1>6, <1>7, <1>8, <1>9, <1>10 DEF ReplicaNext, ProbeStep

LEMMA CacheInvHolds == ReplicaSpec => []CacheInv
BY CacheInit, CacheStep, PTL DEF ReplicaSpec

-----------------------------------------------------------------------------
(* The counters, the cache and the probes stay within what the code knows: *)
(* what is left of the cache is at most the time to live.                  *)
THEOREM ReplicaTypeCorrect == ReplicaSpec => []ReplicaTypeOK
<1>1. TypeOK /\ CacheInv => ReplicaTypeOK
  BY DEF CacheInv, ReplicaTypeOK
<1> QED
  BY <1>1, CacheInvHolds, SessionsOfReplica, TypeCorrect, PTL

LEMMA ReadyStep ==
  ASSUME CacheInv, ReplicaNext, NEW p \in Probes, AnswersReady(p)
  PROVE ~shuttingDown /\ (upAge < TTL \/ upAge <= probe[p].age)
<1>1. ASSUME NEW q \in Probes, NEW to, NEW since, Goes(q, to, since)
      PROVE q = p /\ to = "ready"
  <2>1. probe'[p] = IF p = q THEN [at |-> to, age |-> since] ELSE probe[p]
    BY <1>1 DEF Goes, CacheInv
  <2> QED
    BY <2>1 DEF AnswersReady
<1>2. ASSUME NEW q \in Probes, Ask(q)
      PROVE ~shuttingDown /\ (upAge < TTL \/ upAge <= probe[p].age)
  <2>1. CASE cacheLeft # 0
    <3>1. ~shuttingDown
      BY <1>1, <1>2, <2>1, VerdictLemma DEF Ask
    <3>2. /\ upAge \in Nat /\ cacheLeft \in Nat /\ TTL \in Nat
          /\ upAge + cacheLeft <= TTL
      BY <2>1, ProbeAssumption DEF CacheInv, Old
    <3> QED
      BY <2>1, <3>1, <3>2
  <2>2. CASE cacheLeft = 0
    BY <1>1, <1>2, <2>2 DEF Ask
  <2> QED
    BY <2>1, <2>2
<1>3. ASSUME NEW q \in Probes, CheckBucket(q) PROVE FALSE
  <2>1. Goes(q, "answered", probe[q].age) \/ Goes(q, "idle", 0)
    BY <1>3 DEF CheckBucket, NotReady, Goes, Idle
  <2> QED
    BY <1>1, <2>1
<1>4. ASSUME NEW q \in Probes, Conclude(q)
      PROVE ~shuttingDown /\ (upAge < TTL \/ upAge <= probe[p].age)
  <2>1. ~shuttingDown /\ q = p
    BY <1>1, <1>4, VerdictLemma DEF Conclude
  <2>2. upAge <= probe[q].age
    BY <1>4 DEF Conclude, CacheInv
  <2> QED
    BY <2>1, <2>2
<1>5. ASSUME NEW q \in Probes, Respond(q) PROVE FALSE
  <2>1. Goes(q, "idle", 0)
    BY <1>5 DEF Respond, Goes, Idle
  <2> QED
    BY <1>1, <2>1
<1>6. CASE Tick
  <2>1. probe'[p].at = probe[p].at
    <3>1. probe[p] \in [at : ProbePoints, age : 0..Slow]
      BY DEF CacheInv
    <3> QED
      BY <1>6, <3>1 DEF Tick
  <2> QED
    BY <2>1 DEF AnswersReady
<1>7. ASSUME UNCHANGED probe PROVE FALSE
  BY <1>7 DEF AnswersReady
<1>8. ASSUME StartUp \/ BeginShutdown \/ BucketChanges \/ (\E c \in Connections : Serve(c))
      PROVE UNCHANGED probe
  BY <1>8 DEF StartUp, BeginShutdown, BucketChanges, Serve, probeVars, replicaVars
<1> QED
  BY <1>2, <1>3, <1>4, <1>5, <1>6, <1>7, <1>8 DEF ReplicaNext, ProbeStep

(* A probe is answered with "ready" only when the bucket was there less    *)
(* than the time to live ago or since the probe began, and never once the  *)
(* shutdown has begun, however checks overlap.                             *)
THEOREM ReadyIsFreshHolds == ReplicaSpec => ReadyIsFresh
<1>1. ASSUME CacheInv, [ReplicaNext]_allVars
      PROVE [\A p \in Probes : AnswersReady(p) =>
               ~shuttingDown /\ (upAge < TTL \/ upAge <= probe[p].age)]_allVars
  BY <1>1, ReadyStep
<1> QED
  BY <1>1, CacheInvHolds, PTL DEF ReplicaSpec, ReadyIsFresh

(* No probe is answered with "ready" when the bucket has been away for the *)
(* time to live and for longer than the slowest check.                     *)
OutageBounded ==
  [][\A p \in Probes : AnswersReady(p) => upAge < TTL \/ upAge <= Slow]_allVars

(* However probes, checks and the cache overlap, an outage shows after that*)
(* time: the bound behind OutageIsReported.                                *)
THEOREM OutageBoundedHolds == ReplicaSpec => OutageBounded
<1>1. ASSUME CacheInv, [ReplicaNext]_allVars
      PROVE [\A p \in Probes : AnswersReady(p) => upAge < TTL \/ upAge <= Slow]_allVars
  <2>1. ASSUME NEW p \in Probes, AnswersReady(p), ~UNCHANGED allVars
        PROVE  upAge < TTL \/ upAge <= Slow
    <3>1. upAge < TTL \/ upAge <= probe[p].age
      BY <1>1, <2>1, ReadyStep
    <3>2. probe[p].age \in 0..Slow /\ upAge \in 0..Old
      BY <1>1 DEF CacheInv
    <3> QED
      BY <3>1, <3>2, ProbeAssumption DEF Old
  <2> QED
    BY <2>1
<1> QED
  BY <1>1, CacheInvHolds, PTL DEF ReplicaSpec, OutageBounded
=============================================================================
