----------------------------- MODULE ApiReplica -----------------------------
(***************************************************************************)
(* An API replica around its live sessions: the lifespan of api/app.py and *)
(* the readiness probe, readyz of api/routes.py with the cache of          *)
(* AppState.storage_healthy (api/state.py). Times are ages in ticks: what  *)
(* is left of the cache, how long ago a probe began, how long ago the      *)
(* object store last answered. The NATS connection comes and goes freely.  *)
(***************************************************************************)
EXTENDS StreamCapacity

CONSTANTS
  Probes,     \* calls of readyz that may overlap
  TTL,        \* _STORAGE_CHECK_TTL_S
  Slow        \* the longest check, with the time-outs and retries of the S3 client

ASSUME ProbeAssumption == TTL \in Nat \ {0} /\ Slow \in Nat

VARIABLES
  lifespan,   \* how far lifespan() is
  reachable,  \* TRUE while the bucket answers
  upAge,      \* history: how long ago the bucket was last reachable
  cacheLeft,  \* AppState._storage_ok_until, less the time it is
  probe       \* where a call of readyz is, and how long ago it read the time

probeVars == <<reachable, upAge, cacheLeft, probe>>
replicaVars == <<lifespan, probeVars>>
allVars == <<vars, replicaVars>>

Old == TTL + Slow  \* ages are not counted further
Checking == {"checking", "answered"}
ProbePoints == {"idle", "ready"} \cup Checking
Idle == [at |-> "idle", age |-> 0]

ReplicaTypeOK ==
  /\ TypeOK
  /\ lifespan \in {"starting", "serving", "closing"}
  /\ reachable \in BOOLEAN
  /\ upAge \in 0..Old
  /\ cacheLeft \in 0..TTL
  /\ probe \in [Probes -> [at : ProbePoints, age : 0..Slow]]

ReplicaInit ==
  /\ Init
  /\ lifespan = "starting"
  /\ reachable \in BOOLEAN /\ upAge = (IF reachable THEN 0 ELSE Old)
  /\ cacheLeft = 0
  /\ probe = [p \in Probes |-> Idle]

-----------------------------------------------------------------------------
(* lifespan(): nothing is served before the service is built and warmed up *)
(* and the bus is connected; shutting_down is set before anything is closed*)

StartUp ==
  /\ lifespan = "starting" /\ lifespan' = "serving"
  /\ UNCHANGED <<vars, probeVars>>

BeginShutdown ==
  /\ lifespan = "serving" /\ lifespan' = "closing" /\ Shutdown
  /\ UNCHANGED probeVars

Serve(c) ==
  /\ lifespan # "starting" /\ ConnectionStep(c)
  /\ UNCHANGED replicaVars

-----------------------------------------------------------------------------
(* The bucket, and time                                                    *)

BucketChanges ==
  /\ reachable' = ~reachable /\ upAge' = 0
  /\ UNCHANGED <<vars, lifespan, cacheLeft, probe>>

Tick ==
  /\ \A p \in Probes : probe[p].at \in Checking => probe[p].age < Slow
  /\ upAge' = IF reachable THEN 0 ELSE IF upAge < Old THEN upAge + 1 ELSE Old
  /\ cacheLeft' = IF cacheLeft > 0 THEN cacheLeft - 1 ELSE 0
  /\ probe' = [p \in Probes |->
       IF probe[p].at \in Checking THEN [probe[p] EXCEPT !.age = @ + 1] ELSE probe[p]]
  /\ UNCHANGED <<vars, lifespan, reachable>>

-----------------------------------------------------------------------------
(* readyz and storage_healthy                                              *)

Goes(p, to, since) == probe' = [probe EXCEPT ![p] = [at |-> to, age |-> since]]
NotReady(p) == probe' = [probe EXCEPT ![p] = Idle]

(* The store is healthy: NATS may have been away when the call began, and  *)
(* shutting_down is looked at last, after the check has been awaited.      *)
Verdict(p) == NotReady(p) \/ (~shuttingDown /\ Goes(p, "ready", 0))

AskAndRefresh(p) ==  \* mutation: a hit prolongs the life of the cache
  /\ lifespan # "starting" /\ probe[p].at = "idle"
  /\ \/ cacheLeft > 0 /\ cacheLeft' = TTL /\ Verdict(p)
     \/ cacheLeft = 0 /\ Goes(p, "checking", 0) /\ UNCHANGED cacheLeft
  /\ UNCHANGED <<vars, lifespan, reachable, upAge>>

(* A call reads the time, and the cache: a hit is answered at once.        *)
Ask(p) ==
  /\ lifespan # "starting" /\ probe[p].at = "idle"
  /\ \/ cacheLeft > 0 /\ Verdict(p)
     \/ cacheLeft = 0 /\ Goes(p, "checking", 0)
  /\ UNCHANGED <<vars, lifespan, reachable, upAge, cacheLeft>>

(* head_bucket, in a thread; if it raises, the answer is "not ready".      *)
CheckBucket(p) ==
  /\ probe[p].at = "checking"
  /\ IF reachable THEN Goes(p, "answered", probe[p].age) ELSE NotReady(p)
  /\ UNCHANGED <<vars, lifespan, reachable, upAge, cacheLeft>>

RememberFromNow(p) ==  \* mutation: the time is read after the check
  cacheLeft' = IF probe[p].at = "answered" THEN TTL ELSE cacheLeft

(* The cache lasts from the time that was read before the check.           *)
Remember(p) ==
  cacheLeft' = IF probe[p].age < TTL THEN TTL - probe[p].age ELSE 0

Conclude(p) ==
  /\ probe[p].at = "answered" /\ Remember(p) /\ Verdict(p)
  /\ UNCHANGED <<vars, lifespan, reachable, upAge>>

Respond(p) ==
  /\ probe[p].at = "ready" /\ probe' = [probe EXCEPT ![p] = Idle]
  /\ UNCHANGED <<vars, lifespan, reachable, upAge, cacheLeft>>

ProbeStep(p) == CheckBucket(p) \/ Conclude(p) \/ Respond(p)

ReplicaNext ==
  \/ StartUp \/ BeginShutdown \/ BucketChanges \/ Tick
  \/ \E c \in Connections : Serve(c)
  \/ \E p \in Probes : Ask(p) \/ ProbeStep(p)

ReplicaSpec == ReplicaInit /\ [][ReplicaNext]_allVars

(* Time passes, threads return, and tasks that can run do. Probes, outages *)
(* and the shutdown are never due.                                         *)
ReplicaFairSpec ==
  /\ ReplicaSpec
  /\ WF_allVars(Tick)
  /\ \A p \in Probes : WF_allVars(ProbeStep(p))
  /\ \A c \in Connections :
       /\ WF_allVars(Handle(c) /\ UNCHANGED replicaVars)
       /\ SF_allVars(SessionEnds(c) /\ UNCHANGED replicaVars)

-----------------------------------------------------------------------------
(* Properties                                                              *)

AnswersReady(p) == probe[p].at # "ready" /\ probe'[p].at = "ready"

(* A probe that is answered with "ready" speaks the truth although it reads*)
(* a cache, awaits a slow check, and may overlap others: the bucket was    *)
(* reachable less than the TTL ago, or after the probe began, and the      *)
(* replica does not shut down, also not since (api/state.py:29-42,         *)
(* routes.py:96-103; app.py:141 "readiness flips to 503").                 *)
ReadyIsFresh ==
  [][\A p \in Probes : AnswersReady(p) =>
       ~shuttingDown /\ (upAge < TTL \/ upAge <= probe[p].age)]_allVars

(* An outage of the bucket that lasts is reported: the cache runs out, no  *)
(* matter how often the replica is probed.                                 *)
OutageIsReported ==
  <>[]~reachable => <>[](\A p \in Probes : probe[p].at # "ready")
=============================================================================
