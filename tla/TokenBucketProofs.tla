------------------------- MODULE TokenBucketProofs -------------------------
(* What TLAPS proves of TokenBucket and of SessionClock around it, for     *)
(* every rate, every arrival, and every length of an analysis.             *)
EXTENDS SessionClock, TLAPS

(* At any time, what is left in the bucket and what the frames of a window *)
(* cost is within the allowance of that window ...                         *)
NeverOver ==
  \A i \in DOMAIN admitted :
    tokens + Cost(Len(admitted) - i + 1) <= Allowance(admitted[i], lastRefill)

(* ... and equals it for some window, unless the bucket is full.           *)
Tight ==
  \/ tokens = Burst
  \/ \E i \in DOMAIN admitted :
       tokens + Cost(Len(admitted) - i + 1) >= Allowance(admitted[i], lastRefill)

DropsKnown == \A d \in DOMAIN dropped : dropped[d].after <= Len(admitted)

BucketInv ==
  /\ TypeOK /\ NeverOver /\ Tight /\ DropsKnown /\ RateBounded /\ OnlyExcessDropped

-----------------------------------------------------------------------------
LEMMA BurstSize == Burst \in Nat /\ Burst >= 2 * Frame /\ Frame = 1000
BY RateAssumption DEF Burst, Frame

LEMMA BucketInit == Init => BucketInv
<1> SUFFICES ASSUME Init PROVE BucketInv
  OBVIOUS
<1>1. admitted = <<>> /\ dropped = <<>> /\ DOMAIN admitted = {} /\ DOMAIN dropped = {}
  BY DEF Init
<1>2. TypeOK
  BY <1>1, BurstSize DEF Init, TypeOK
<1> QED
  BY <1>1, <1>2 DEF Init, BucketInv, NeverOver, Tight, DropsKnown, RateBounded, OnlyExcessDropped

(* A refill keeps both bounds, for the window that now reaches to `now`.   *)
LEMMA RefillLemma ==
  ASSUME TypeOK, NeverOver, Tight, NEW gap \in Nat
  PROVE LET now == lastRefill + gap
            r == Refilled(now)
            n == Len(admitted)
        IN /\ now \in Nat /\ r \in 0..Burst /\ n \in Nat
           /\ \A i \in DOMAIN admitted : r + Cost(n - i + 1) <= Allowance(admitted[i], now)
           /\ \/ r = Burst
              \/ \E i \in DOMAIN admitted : r + Cost(n - i + 1) >= Allowance(admitted[i], now)
<1> DEFINE now == lastRefill + gap
           r == Refilled(now)
           n == Len(admitted)
           plain == tokens + gap * MaxFps
<1>1. /\ now \in Nat /\ now - lastRefill = gap /\ n \in Nat /\ tokens \in Nat /\ tokens <= Burst
      /\ lastRefill \in Nat /\ DOMAIN admitted = 1..n
      /\ \A i \in 1..n : admitted[i] \in Nat
      /\ gap * MaxFps \in Nat /\ plain \in Nat
  BY BurstSize, RateAssumption DEF TypeOK
<1>2. r = IF plain >= Burst THEN Burst ELSE plain
  BY <1>1 DEF Refilled
<1>3. r \in 0..Burst /\ r <= plain
  BY <1>1, <1>2, BurstSize
<1>4. ASSUME NEW i \in 1..n
      PROVE /\ Allowance(admitted[i], now) = Allowance(admitted[i], lastRefill) + gap * MaxFps
            /\ Allowance(admitted[i], now) \in Int /\ Allowance(admitted[i], lastRefill) \in Int
            /\ Cost(n - i + 1) \in Int
  <2>1. admitted[i] \in Nat /\ n - i + 1 \in Nat
    BY <1>1
  <2>2. (now - admitted[i]) * MaxFps = (lastRefill - admitted[i]) * MaxFps + gap * MaxFps
    BY <1>1, <2>1, RateAssumption
  <2> QED
    BY <1>1, <2>1, <2>2, BurstSize, RateAssumption DEF Allowance, Cost
<1>5. ASSUME NEW i \in 1..n
      PROVE r + Cost(n - i + 1) <= Allowance(admitted[i], now)
  <2>1. tokens + Cost(n - i + 1) <= Allowance(admitted[i], lastRefill)
    BY <1>1 DEF NeverOver
  <2>2. /\ r \in Int /\ r <= tokens + gap * MaxFps
        /\ tokens \in Int /\ gap * MaxFps \in Int
    BY <1>1, <1>3, BurstSize
  <2>3. /\ Allowance(admitted[i], now) = Allowance(admitted[i], lastRefill) + gap * MaxFps
        /\ Allowance(admitted[i], lastRefill) \in Int /\ Cost(n - i + 1) \in Int
    BY <1>4
  <2> HIDE DEF r, now, n
  <2> QED
    BY <2>1, <2>2, <2>3
<1>6. r = Burst \/ \E i \in 1..n : r + Cost(n - i + 1) >= Allowance(admitted[i], now)
  <2>1. CASE plain >= Burst
    BY <2>1, <1>2
  <2>2. CASE ~(plain >= Burst)
    <3>1. tokens # Burst /\ r = plain
      BY <2>2, <1>1, <1>2, BurstSize
    <3>2. PICK i \in 1..n :
            tokens + Cost(n - i + 1) >= Allowance(admitted[i], lastRefill)
      BY <3>1, <1>1 DEF Tight
    <3>3. r + Cost(n - i + 1) >= Allowance(admitted[i], now)
      <4>1. /\ Allowance(admitted[i], now) = Allowance(admitted[i], lastRefill) + gap * MaxFps
            /\ Allowance(admitted[i], lastRefill) \in Int /\ Cost(n - i + 1) \in Int
        BY <1>4
      <4>2. r = tokens + gap * MaxFps /\ tokens \in Int /\ gap * MaxFps \in Int
        BY <3>1, <1>1
      <4> HIDE DEF r, now, n, plain
      <4> QED
        BY <3>2, <4>1, <4>2
    <3> QED
      BY <3>3
  <2> QED
    BY <2>1, <2>2
<1> QED
  BY <1>1, <1>3, <1>5, <1>6

LEMMA AdmitLemma ==
  ASSUME BucketInv, NEW gap \in Nat, Admit(lastRefill + gap)
  PROVE BucketInv'
<1> DEFINE now == lastRefill + gap
           r == Refilled(now)
           n == Len(admitted)
<1>1. /\ now \in Nat /\ r \in 0..Burst /\ n \in Nat
      /\ \A i \in DOMAIN admitted : r + Cost(n - i + 1) <= Allowance(admitted[i], now)
      /\ \/ r = Burst
         \/ \E i \in DOMAIN admitted : r + Cost(n - i + 1) >= Allowance(admitted[i], now)
  BY RefillLemma DEF BucketInv
<1>2. /\ r >= Frame /\ tokens' = r - Frame /\ lastRefill' = now
      /\ admitted' = Append(admitted, now) /\ dropped' = dropped
      /\ admitted \in Seq(Nat) /\ dropped \in Seq(Drop)
  BY DEF Admit, BucketInv, TypeOK
<1> HIDE DEF now, r
<1>3. /\ Len(admitted') = n + 1 /\ DOMAIN admitted' = 1..(n + 1) /\ DOMAIN admitted = 1..n
      /\ \A i \in 1..n : admitted'[i] = admitted[i] /\ admitted[i] \in Nat
      /\ admitted'[n + 1] = now
      /\ admitted' \in Seq(Nat)
  BY <1>1, <1>2
<1>4. TypeOK'
  BY <1>1, <1>2, <1>3, BurstSize DEF TypeOK
<1>5. Cost(1) = Frame /\ Allowance(now, now) = Burst
  BY <1>1, BurstSize, RateAssumption DEF Cost, Allowance
<1>6. ASSUME NEW i \in 1..n
      PROVE /\ Cost((n + 1) - i + 1) = Cost(n - i + 1) + Frame
            /\ Cost(n - i + 1) \in Nat /\ Allowance(admitted[i], now) \in Int
  BY <1>1, <1>3, BurstSize, RateAssumption DEF Cost, Allowance
<1>7. NeverOver'
  <2> SUFFICES ASSUME NEW i \in 1..(n + 1)
               PROVE tokens' + Cost((n + 1) - i + 1) <= Allowance(admitted'[i], now)
    BY <1>2, <1>3 DEF NeverOver
  <2>1. CASE i \in 1..n
    <3>1. /\ r + Cost(n - i + 1) <= Allowance(admitted[i], now)
          /\ Cost((n + 1) - i + 1) = Cost(n - i + 1) + Frame
          /\ Cost(n - i + 1) \in Nat /\ Allowance(admitted[i], now) \in Int
      BY <2>1, <1>1, <1>3, <1>6
    <3>2. r - Frame + (Cost(n - i + 1) + Frame) <= Allowance(admitted[i], now)
      BY <3>1, <1>1, BurstSize
    <3> QED
      BY <2>1, <3>1, <3>2, <1>2, <1>3
  <2>2. CASE i = n + 1
    <3>1. (n + 1) - i + 1 = 1 /\ admitted'[i] = now
      BY <2>2, <1>1, <1>3
    <3>2. (r - Frame) + Frame <= Burst
      BY <1>1, BurstSize
    <3> QED
      BY <3>1, <3>2, <1>2, <1>5
  <2> QED
    BY <2>1, <2>2, <1>1
<1>8. Tight'
  <2> SUFFICES \E i \in 1..(n + 1) :
                 tokens' + Cost((n + 1) - i + 1) >= Allowance(admitted'[i], now)
    BY <1>2, <1>3 DEF Tight
  <2>1. CASE r = Burst
    <3>1. n + 1 \in 1..(n + 1) /\ (n + 1) - (n + 1) + 1 = 1
      BY <1>1
    <3>2. tokens' + Cost((n + 1) - (n + 1) + 1) >= Allowance(admitted'[n + 1], now)
      BY <3>1, <2>1, <1>1, <1>2, <1>3, <1>5, BurstSize
    <3> QED
      BY <3>1, <3>2
  <2>2. CASE r # Burst
    <3>1. PICK i \in 1..n : r + Cost(n - i + 1) >= Allowance(admitted[i], now)
      BY <2>2, <1>1, <1>3
    <3>2. i \in 1..(n + 1)
      BY <1>1
    <3>3. tokens' + Cost((n + 1) - i + 1) >= Allowance(admitted'[i], now)
      BY <3>1, <1>1, <1>2, <1>3, <1>6, BurstSize
    <3> QED
      BY <3>2, <3>3
  <2> QED
    BY <2>1, <2>2
<1>9. DropsKnown'
  <2> SUFFICES ASSUME NEW d \in DOMAIN dropped PROVE dropped[d].after <= n + 1
    BY <1>2, <1>3 DEF DropsKnown
  <2>1. dropped[d] \in Drop /\ dropped[d].after <= n
    BY <1>2 DEF BucketInv, DropsKnown
  <2> QED
    BY <2>1, <1>1 DEF Drop
<1>10. RateBounded'
  <2> SUFFICES ASSUME NEW i \in 1..(n + 1), NEW k \in 1..(n + 1), i <= k
               PROVE Cost(k - i + 1) <= Allowance(admitted'[i], admitted'[k])
    BY <1>3 DEF RateBounded
  <2>1. CASE k \in 1..n
    <3>1. i \in 1..n
      BY <2>1, <1>1
    <3> QED
      BY <2>1, <3>1, <1>3 DEF BucketInv, RateBounded
  <2>2. CASE k = n + 1
    <3>1. tokens' + Cost((n + 1) - i + 1) <= Allowance(admitted'[i], now)
      BY <1>2, <1>3, <1>7 DEF NeverOver
    <3>2. /\ tokens' \in Nat /\ Cost((n + 1) - i + 1) \in Int
          /\ Allowance(admitted'[i], now) \in Int
      <4>1. admitted'[i] \in Nat /\ (n + 1) - i + 1 \in Int
        BY <1>1, <1>3
      <4>2. Cost((n + 1) - i + 1) \in Int
        BY <4>1, BurstSize DEF Cost
      <4>3. Allowance(admitted'[i], now) \in Int
        BY <4>1, <1>1, BurstSize, RateAssumption DEF Allowance
      <4>4. tokens' \in Nat
        BY <1>1, <1>2, BurstSize
      <4> QED
        BY <4>2, <4>3, <4>4
    <3> QED
      BY <2>2, <3>1, <3>2, <1>3
  <2> QED
    BY <2>1, <2>2, <1>1
<1>11. OnlyExcessDropped'
  <2> SUFFICES ASSUME NEW d \in DOMAIN dropped
               PROVE \E i \in 1..dropped[d].after :
                       Cost(dropped[d].after - i + 2) > Allowance(admitted'[i], dropped[d].t)
    BY <1>2 DEF OnlyExcessDropped
  <2>1. PICK i \in 1..dropped[d].after :
          Cost(dropped[d].after - i + 2) > Allowance(admitted[i], dropped[d].t)
    BY DEF BucketInv, OnlyExcessDropped
  <2>2. dropped[d] \in Drop /\ dropped[d].after <= n
    BY <1>2 DEF BucketInv, DropsKnown
  <2>3. admitted'[i] = admitted[i]
    BY <2>2, <1>1, <1>3 DEF Drop
  <2> QED
    BY <2>1, <2>3
<1> QED
  BY <1>4, <1>7, <1>8, <1>9, <1>10, <1>11 DEF BucketInv

LEMMA DropLemma ==
  ASSUME BucketInv, NEW gap \in Nat, DropFrame(lastRefill + gap)
  PROVE BucketInv'
<1> DEFINE now == lastRefill + gap
           r == Refilled(now)
           n == Len(admitted)
           m == Len(dropped)
           drop == [t |-> now, after |-> n]
<1>1. /\ now \in Nat /\ r \in 0..Burst /\ n \in Nat
      /\ \A i \in DOMAIN admitted : r + Cost(n - i + 1) <= Allowance(admitted[i], now)
      /\ \/ r = Burst
         \/ \E i \in DOMAIN admitted : r + Cost(n - i + 1) >= Allowance(admitted[i], now)
  BY RefillLemma DEF BucketInv
<1>2. /\ r < Frame /\ tokens' = r /\ lastRefill' = now
      /\ dropped' = Append(dropped, drop) /\ admitted' = admitted
      /\ admitted \in Seq(Nat) /\ dropped \in Seq(Drop)
  BY DEF DropFrame, BucketInv, TypeOK
<1>3. drop \in Drop /\ drop.t = now /\ drop.after = n
  BY <1>1 DEF Drop
<1> HIDE DEF now, r, drop
<1>4. /\ m \in Nat /\ DOMAIN dropped = 1..m /\ DOMAIN dropped' = 1..(m + 1)
      /\ \A d \in 1..m : dropped'[d] = dropped[d]
      /\ dropped'[m + 1] = drop
      /\ dropped' \in Seq(Drop)
  BY <1>2, <1>3
<1>5. TypeOK'
  BY <1>1, <1>2, <1>4, BurstSize DEF TypeOK
<1>6. NeverOver' /\ Tight'
  BY <1>1, <1>2 DEF NeverOver, Tight
<1>7. DropsKnown'
  <2> SUFFICES ASSUME NEW d \in 1..(m + 1) PROVE dropped'[d].after <= n
    BY <1>2, <1>4 DEF DropsKnown
  <2>1. CASE d \in 1..m
    BY <2>1, <1>4 DEF BucketInv, DropsKnown
  <2>2. CASE d = m + 1
    BY <2>2, <1>1, <1>3, <1>4
  <2> QED
    BY <2>1, <2>2, <1>4
<1>8. RateBounded'
  BY <1>2 DEF BucketInv, RateBounded
<1>9. OnlyExcessDropped'
  <2> SUFFICES ASSUME NEW d \in 1..(m + 1)
               PROVE \E i \in 1..dropped'[d].after :
                       Cost(dropped'[d].after - i + 2) > Allowance(admitted[i], dropped'[d].t)
    BY <1>2, <1>4 DEF OnlyExcessDropped
  <2>1. CASE d \in 1..m
    BY <2>1, <1>4 DEF BucketInv, OnlyExcessDropped
  <2>2. CASE d = m + 1
    <3>1. r # Burst
      BY <1>1, <1>2, BurstSize
    <3>2. /\ DOMAIN admitted = 1..n
          /\ \A i \in 1..n : admitted[i] \in Nat
      BY <1>2
    <3>3. PICK i \in 1..n : r + Cost(n - i + 1) >= Allowance(admitted[i], now)
      BY <3>1, <3>2, <1>1
    <3>4. /\ Cost(n - i + 2) = Cost(n - i + 1) + Frame /\ Cost(n - i + 1) \in Int
          /\ Allowance(admitted[i], now) \in Int
      BY <3>2, <1>1, BurstSize, RateAssumption DEF Cost, Allowance
    <3>5. Cost(n - i + 2) > Allowance(admitted[i], now)
      BY <3>3, <3>4, <1>1, <1>2, BurstSize
    <3>6. dropped'[d].after = n /\ dropped'[d].t = now
      BY <2>2, <1>3, <1>4
    <3> QED
      BY <3>5, <3>6
  <2> QED
    BY <2>1, <2>2, <1>4
<1> QED
  BY <1>5, <1>6, <1>7, <1>8, <1>9 DEF BucketInv

LEMMA BucketInvHolds == Spec => []BucketInv
<1>1. ASSUME BucketInv, [Next]_vars PROVE BucketInv'
  <2>1. CASE Next
    <3>1. PICK gap \in Gaps : Admit(lastRefill + gap) \/ DropFrame(lastRefill + gap)
      BY <2>1 DEF Next
    <3>2. gap \in Nat
      BY ArrivalAssumption
    <3> QED
      BY <1>1, <3>1, <3>2, AdmitLemma, DropLemma
  <2>2. CASE UNCHANGED vars
    BY <1>1, <2>2 DEF vars, BucketInv, TypeOK, NeverOver, Tight, DropsKnown, RateBounded,
                      OnlyExcessDropped
  <2> QED
    BY <1>1, <2>1, <2>2
<1> QED
  BY <1>1, BucketInit, PTL DEF Spec

-----------------------------------------------------------------------------
(* The bucket never holds less than nothing nor more than its burst.       *)
THEOREM TypeCorrect == Spec => []TypeOK
BY BucketInvHolds, PTL DEF BucketInv

(* No window of time sees more frames than burst + rate * length pay for,  *)
(* whatever the rate and however the frames arrive.                        *)
THEOREM RateBoundedHolds == Spec => []RateBounded
BY BucketInvHolds, PTL DEF BucketInv

(* And a frame is dropped only if admitting it would exceed that bound.    *)
THEOREM OnlyExcessDroppedHolds == Spec => []OnlyExcessDropped
BY BucketInvHolds, PTL DEF BucketInv

-----------------------------------------------------------------------------
(* The session in time. The frames it admits are those of the bucket.      *)
THEOREM BucketOfSession == ClockSpec => Spec
<1>1. ASSUME [ClockNext]_clockVars PROVE [Next]_vars
  BY <1>1 DEF ClockNext, clockVars, Receive, Take, Decoded, Rejected, Answered, Next
<1>2. ClockInit => Init
  BY DEF ClockInit
<1> QED
  BY <1>1, <1>2, PTL DEF ClockSpec, Spec

(* However slow the pump is, the limit holds of a session in time: no      *)
(* window admits more than its allowance, and no frame within it is lost.  *)
THEOREM SessionKeepsRate == ClockSpec => [](RateBounded /\ OnlyExcessDropped)
BY BucketOfSession, RateBoundedHolds, OnlyExcessDroppedHolds, PTL

(* The pump took the frame in hand at `begun`; it has worked on it since,  *)
(* and what is in the mailbox came after that.                             *)
Busy(begun) ==
  /\ pump.received <= begun /\ begun <= pump.received + Work
  /\ begun <= clock /\ clock <= pump.due
  /\ latest # Empty => latest >= begun

ClockInv ==
  /\ clock \in Nat /\ latest \in Nat \cup {Empty} /\ lastTs \in Nat \cup {Empty}
  /\ pump \in [at : {"waiting", "decoding", "analysing"}, received : Nat, due : Nat]
  /\ latest # Empty => latest <= clock
  /\ pump.at \in {"waiting", "decoding"} => lastTs < clock
  /\ pump.at = "waiting" /\ latest # Empty => clock <= latest + Work
  /\ pump.at = "decoding" =>
       \E begun \in Nat, d \in Decoding : Busy(begun) /\ pump.due = begun + d
  /\ pump.at = "analysing" =>
       /\ pump.received <= lastTs /\ lastTs < pump.due
       /\ \E begun \in Nat : Busy(begun) /\ pump.due <= begun + Work

LEMMA ClockInvInit == ClockInit => ClockInv
BY DEF ClockInit, ClockInv, Waiting, Empty

LEMMA ReceiveStep ==
  ASSUME ClockInv, NEW t \in Nat, Receive(t)
  PROVE ClockInv'
<1>1. /\ clock' = t /\ t >= clock /\ UNCHANGED <<pump, lastTs>>
      /\ latest' = t \/ latest' = latest
  BY DEF Receive, Quiet
<1>2. CASE pump.at = "waiting"
  <2>1. latest = Empty \/ t = clock
    BY <1>2 DEF Receive, Quiet
  <2> QED
    BY <1>1, <1>2, <2>1, WorkAssumption DEF ClockInv, Empty
<1>3. CASE pump.at # "waiting"
  <2>1. t <= pump.due
    BY <1>3 DEF Receive, Quiet
  <2>2. ASSUME NEW begun \in Nat, Busy(begun) PROVE Busy(begun)'
    BY <1>1, <2>1, <2>2 DEF Busy, ClockInv, Empty
  <2>3. CASE pump.at = "decoding"
    BY <1>1, <2>2, <2>3 DEF ClockInv, Empty
  <2>4. CASE pump.at = "analysing"
    BY <1>1, <2>2, <2>4 DEF ClockInv, Empty
  <2> QED
    BY <1>3, <2>3, <2>4 DEF ClockInv
<1> QED
  BY <1>2, <1>3

LEMMA PumpStep ==
  ASSUME ClockInv, Take \/ Decoded \/ Rejected \/ Answered
  PROVE ClockInv'
<1>1. CASE Take
  <2>1. PICK d \in Decoding :
          pump' = [at |-> "decoding", received |-> latest, due |-> clock + d]
    BY <1>1 DEF Take
  <2>2. /\ latest \in Nat /\ latest <= clock /\ clock <= latest + Work /\ d \in Nat
        /\ latest' = Empty /\ UNCHANGED <<clock, lastTs>> /\ lastTs < clock
    BY <1>1, WorkAssumption DEF Take, ClockInv
  <2>3. Busy(clock)' /\ pump'.due = clock + d
    BY <2>1, <2>2 DEF Busy, ClockInv
  <2> QED
    BY <2>1, <2>2, <2>3 DEF ClockInv
<1>2. CASE Decoded
  <2>1. PICK begun \in Nat, d \in Decoding : Busy(begun) /\ pump.due = begun + d
    BY <1>2 DEF Decoded, ClockInv
  <2>2. PICK a \in Analysing : pump' = [pump EXCEPT !.at = "analysing", !.due = clock' + a]
    BY <1>2 DEF Decoded
  <2>3. /\ clock' = pump.due /\ UNCHANGED latest /\ lastTs < clock /\ d \in Nat /\ a \in Nat \ {0}
        /\ d + a <= Work
    BY <1>2, WorkAssumption DEF Decoded, ClockInv
  <2>4. clock' \in Nat /\ lastTs' = clock'
    <3>1. clock \in Nat /\ lastTs \in Int /\ pump.due \in Nat
      BY DEF ClockInv, Empty
    <3>2. clock <= pump.due
      BY <2>1 DEF Busy
    <3>3. lastTs' = IF clock' >= lastTs + 1 THEN clock' ELSE lastTs + 1
      BY <1>2 DEF Decoded, Stamp
    <3> QED
      BY <2>3, <3>1, <3>2, <3>3
  <2>5. /\ pump'.at = "analysing" /\ pump'.received = pump.received
        /\ pump'.due = begun + d + a /\ pump.received \in Nat
        /\ pump' \in [at : {"waiting", "decoding", "analysing"}, received : Nat, due : Nat]
    <3>1. pump \in [at : {"waiting", "decoding", "analysing"}, received : Nat, due : Nat]
      BY DEF ClockInv
    <3>2. /\ pump'.at = "analysing" /\ pump'.received = pump.received
          /\ pump'.due = clock' + a
      BY <2>2, <3>1
    <3>3. clock' + a = begun + d + a /\ clock' + a \in Nat
      BY <2>1, <2>3, <2>4
    <3> QED
      BY <2>2, <3>1, <3>2, <3>3
  <2>6. Busy(begun)' /\ pump'.due <= begun + Work
    BY <2>1, <2>3, <2>4, <2>5, WorkAssumption DEF Busy, ClockInv, Empty
  <2>7. pump'.received <= lastTs' /\ lastTs' < pump'.due
    BY <2>1, <2>3, <2>4, <2>5 DEF Busy
  <2>8. latest' # Empty => latest' <= clock'
    BY <2>1, <2>3, <2>4 DEF Busy, ClockInv, Empty
  <2> QED
    BY <2>3, <2>4, <2>5, <2>6, <2>7, <2>8 DEF ClockInv
<1>3. CASE Rejected \/ Answered
  <2>1. /\ clock' = pump.due /\ pump' = Waiting /\ UNCHANGED <<latest, lastTs>>
        /\ pump.at \in {"decoding", "analysing"}
    BY <1>3 DEF Rejected, Answered
  <2>2. PICK begun \in Nat : Busy(begun) /\ pump.due <= begun + Work
    <3>1. CASE pump.at = "decoding"
      <4>1. PICK begun \in Nat, d \in Decoding : Busy(begun) /\ pump.due = begun + d
        BY <3>1 DEF ClockInv
      <4>2. d + 0 <= Work /\ d \in Nat
        BY WorkAssumption
      <4> QED
        BY <4>1, <4>2, WorkAssumption
    <3> QED
      BY <2>1, <3>1 DEF ClockInv
  <2>3. pump.due \in Nat /\ clock <= pump.due
    BY <2>2 DEF Busy, ClockInv
  <2>4. lastTs' < clock'
    BY <2>1, <2>3 DEF ClockInv, Empty
  <2>5. latest' # Empty => latest' <= clock' /\ clock' <= latest' + Work
    BY <2>1, <2>2, <2>3, WorkAssumption DEF Busy, ClockInv, Empty
  <2> QED
    BY <2>1, <2>3, <2>4, <2>5 DEF ClockInv, Waiting
<1> QED
  BY <1>1, <1>2, <1>3

LEMMA ClockInvHolds == ClockSpec => [](TypeOK /\ ClockInv)
<1>1. ASSUME TypeOK, ClockInv, [ClockNext]_clockVars PROVE ClockInv'
  <2>1. CASE UNCHANGED clockVars
    BY <1>1, <2>1 DEF clockVars, sessionVars, ClockInv, Busy
  <2>2. ASSUME NEW gap \in Gaps, Receive(lastRefill + gap) PROVE ClockInv'
    <3>1. lastRefill + gap \in Nat
      BY <1>1, ArrivalAssumption DEF TypeOK
    <3> QED
      BY <1>1, <2>2, <3>1, ReceiveStep
  <2>3. CASE Take \/ Decoded \/ Rejected \/ Answered
    BY <1>1, <2>3, PumpStep
  <2> QED
    BY <1>1, <2>1, <2>2, <2>3 DEF ClockNext
<1>2. ClockSpec => []TypeOK
  BY BucketOfSession, TypeCorrect, PTL
<1> QED
  BY <1>1, <1>2, ClockInvInit, PTL DEF ClockSpec

(* The clock, the mailbox and the stamps of a session are times.           *)
THEOREM ClockTypeCorrect == ClockSpec => []ClockTypeOK
<1>1. TypeOK /\ ClockInv => ClockTypeOK
  BY DEF ClockInv, ClockTypeOK
<1> QED
  BY <1>1, ClockInvHolds, PTL

(* No frame is in the hands of the server for longer than two analyses,    *)
(* however many the client sends and however slow each of them is.         *)
THEOREM LatencyBoundedHolds == ClockSpec => []LatencyBounded
<1>1. ASSUME ClockInv PROVE LatencyBounded
  <2> SUFFICES ASSUME pump.at # "waiting" PROVE pump.due <= pump.received + 2 * Work
    BY DEF LatencyBounded
  <2>1. PICK begun \in Nat : Busy(begun) /\ pump.due <= begun + Work
    <3>1. CASE pump.at = "decoding"
      <4>1. PICK begun \in Nat, d \in Decoding : Busy(begun) /\ pump.due = begun + d
        BY <1>1, <3>1 DEF ClockInv
      <4>2. d + 0 <= Work /\ d \in Nat
        BY WorkAssumption
      <4> QED
        BY <4>1, <4>2, WorkAssumption
    <3> QED
      BY <1>1, <3>1 DEF ClockInv
  <2> QED
    BY <1>1, <2>1, WorkAssumption DEF Busy, ClockInv
<1> QED
  BY <1>1, ClockInvHolds, PTL

(* A stamp is never earlier than the reception of its frame, and late by   *)
(* less than two analyses.                                                 *)
THEOREM StampLagHolds == ClockSpec => []StampLag
<1>1. ASSUME ClockInv, LatencyBounded PROVE StampLag
  <2>1. pump.at = "analysing" =>
          pump.received <= lastTs /\ lastTs < pump.due /\ pump.due <= pump.received + 2 * Work
    BY <1>1 DEF ClockInv, LatencyBounded
  <2>2. lastTs \in Int /\ pump.received \in Nat /\ pump.due \in Nat /\ 2 * Work \in Nat
    BY <1>1, WorkAssumption DEF ClockInv, Empty
  <2> QED
    BY <2>1, <2>2 DEF StampLag
<1> QED
  BY <1>1, ClockInvHolds, LatencyBoundedHolds, PTL
=============================================================================
