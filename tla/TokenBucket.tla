---------------------------- MODULE TokenBucket ----------------------------
(***************************************************************************)
(* The rate limit of a live session: the token bucket in the reader of     *)
(* _run_stream, api/routes.py. Times are milliseconds since the reader     *)
(* started and tokens are thousandths of a frame, so that a refill is a    *)
(* whole number where the code computes with floats.                       *)
(***************************************************************************)
EXTENDS Integers, Sequences

CONSTANTS
  MaxFps,    \* stream_max_fps
  Gaps,      \* times between one frame and the next
  MaxFrames  \* frames the client sends at most (bound of the instance)

ASSUME RateAssumption == MaxFps \in Nat \ {0}
ASSUME ArrivalAssumption == Gaps \subseteq Nat /\ MaxFrames \in Nat

Frame == 1000
Burst == IF 2 * Frame >= 200 * MaxFps THEN 2 * Frame ELSE 200 * MaxFps  \* max(2, fps / 5)

VARIABLES
  tokens, lastRefill,  \* the variables of reader()
  admitted,            \* history: when the frames that reach the mailbox arrived
  dropped              \* history: for each dropped frame, when it arrived and how many
                       \* frames had been admitted before it

vars == <<tokens, lastRefill, admitted, dropped>>

Drop == [t : Nat, after : Nat]

TypeOK ==
  /\ tokens \in 0..Burst
  /\ lastRefill \in Nat
  /\ admitted \in Seq(Nat)
  /\ dropped \in Seq(Drop)

Init == tokens = Burst /\ lastRefill = 0 /\ admitted = <<>> /\ dropped = <<>>

-----------------------------------------------------------------------------
RefilledWithoutCap(now) ==  \* mutation: the bucket has no brim
  tokens + (now - lastRefill) * MaxFps

Refilled(now) ==
  LET refill == tokens + (now - lastRefill) * MaxFps IN
  IF refill >= Burst THEN Burst ELSE refill

Admit(now) ==
  /\ Refilled(now) >= Frame
  /\ tokens' = Refilled(now) - Frame /\ lastRefill' = now
  /\ admitted' = Append(admitted, now) /\ UNCHANGED dropped

DropUnrefilled(now) ==  \* mutation: the refill is kept only for frames that pass
  /\ Refilled(now) < Frame
  /\ lastRefill' = now
  /\ dropped' = Append(dropped, [t |-> now, after |-> Len(admitted)])
  /\ UNCHANGED <<tokens, admitted>>

DropFrame(now) ==
  /\ Refilled(now) < Frame
  /\ tokens' = Refilled(now) /\ lastRefill' = now
  /\ dropped' = Append(dropped, [t |-> now, after |-> Len(admitted)])
  /\ UNCHANGED admitted

Next ==
  /\ Len(admitted) + Len(dropped) < MaxFrames
  /\ \E gap \in Gaps : Admit(lastRefill + gap) \/ DropFrame(lastRefill + gap)

Spec == Init /\ [][Next]_vars

-----------------------------------------------------------------------------
(* Properties                                                              *)

(* What frames i..k cost, and what the bucket can have paid for them.      *)
Cost(n) == n * Frame
Allowance(from, to) == Burst + (to - from) * MaxFps

(* "Strict on sustained overload" (ARCHITECTURE.md:58-59): in every window *)
(* of time at most burst + stream_max_fps * length frames reach the        *)
(* mailbox, wherever the window begins and whatever was dropped in it.     *)
RateBounded ==
  \A i, k \in DOMAIN admitted :
    i <= k => Cost(k - i + 1) <= Allowance(admitted[i], admitted[k])

(* "Tolerant of network jitter" (ARCHITECTURE.md:58): a frame is dropped   *)
(* only when some window that ends with it would have held too many frames,*)
(* so the regression in the docs - a third of the frames of a client at the*)
(* nominal rate dropped - cannot come back.                                *)
OnlyExcessDropped ==
  \A d \in DOMAIN dropped :
    LET n == dropped[d].after IN
    \E i \in 1..n : Cost(n - i + 2) > Allowance(admitted[i], dropped[d].t)
=============================================================================
