---------------------------- MODULE SessionClock ----------------------------
(***************************************************************************)
(* A live session in time: the reader with its token bucket, the mailbox,  *)
(* and StreamSession.process (service.py), which decodes a frame, stamps it*)
(* and looks for landmarks. LiveStream has the same tasks without time, and*)
(* with everything that can end the session. Time goes from one event to   *)
(* the next, in milliseconds since the session began.                      *)
(***************************************************************************)
EXTENDS TokenBucket

CONSTANTS
  Decoding,   \* times that decoding a frame takes
  Analysing,  \* times that finding the landmarks and sending the answer take
  Work        \* the longest time for all of it

ASSUME WorkAssumption ==
  /\ Decoding \subseteq Nat /\ Analysing \subseteq Nat \ {0} /\ Work \in Nat
  /\ \A d \in Decoding, a \in Analysing \cup {0} : d + a <= Work

VARIABLES
  clock,   \* time of the last event
  latest,  \* when the frame in the mailbox was received, Empty without one
  pump,    \* what is done with the frame in hand, when it was received, when that is done
  lastTs   \* StreamSession._last_ts

sessionVars == <<clock, latest, pump, lastTs>>
clockVars == <<vars, sessionVars>>

Empty == -1
Waiting == [at |-> "waiting", received |-> 0, due |-> 0]

ClockTypeOK ==
  /\ TypeOK
  /\ clock \in Nat /\ latest \in Nat \cup {Empty} /\ lastTs \in Nat \cup {Empty}
  /\ pump \in [at : {"waiting", "decoding", "analysing"}, received : Nat, due : Nat]

ClockInit ==
  /\ Init
  /\ clock = 0 /\ latest = Empty /\ pump = Waiting /\ lastTs = Empty

-----------------------------------------------------------------------------
(* Nothing is due before time t.                                           *)
Quiet(t) ==
  /\ t >= clock
  /\ IF pump.at = "waiting" THEN latest = Empty \/ t = clock ELSE t <= pump.due

(* A frame that passes the bucket replaces the one in the mailbox.         *)
Receive(t) ==
  /\ Len(admitted) + Len(dropped) < MaxFrames /\ Quiet(t) /\ clock' = t
  /\ \/ Admit(t) /\ latest' = t
     \/ DropFrame(t) /\ UNCHANGED latest
  /\ UNCHANGED <<pump, lastTs>>

TakeAndKeep ==  \* mutation: the frame is read but left in the mailbox
  /\ pump.at = "waiting" /\ latest # Empty
  /\ \E d \in Decoding : pump' = [at |-> "decoding", received |-> latest, due |-> clock + d]
  /\ UNCHANGED <<vars, clock, latest, lastTs>>

Take ==
  /\ pump.at = "waiting" /\ latest # Empty /\ latest' = Empty
  /\ \E d \in Decoding : pump' = [at |-> "decoding", received |-> latest, due |-> clock + d]
  /\ UNCHANGED <<vars, clock, lastTs>>

NextStamp(t) == lastTs' = lastTs + 1  \* mutation: frames are numbered

Stamp(t) == lastTs' = IF t >= lastTs + 1 THEN t ELSE lastTs + 1

(* The frame is decoded, and stamped with the time that it is then ...     *)
Decoded ==
  /\ pump.at = "decoding" /\ clock' = pump.due /\ Stamp(clock')
  /\ \E a \in Analysing : pump' = [pump EXCEPT !.at = "analysing", !.due = clock' + a]
  /\ UNCHANGED <<vars, latest>>

(* ... or it cannot be decoded.                                            *)
Rejected ==
  /\ pump.at = "decoding" /\ clock' = pump.due /\ pump' = Waiting
  /\ UNCHANGED <<vars, latest, lastTs>>

Answered ==
  /\ pump.at = "analysing" /\ clock' = pump.due /\ pump' = Waiting
  /\ UNCHANGED <<vars, latest, lastTs>>

ClockNext ==
  \/ \E gap \in Gaps : Receive(lastRefill + gap)
  \/ Take \/ Decoded \/ Rejected \/ Answered

ClockSpec == ClockInit /\ [][ClockNext]_clockVars

-----------------------------------------------------------------------------
(* Properties                                                              *)

(* "If analysis falls behind, latency stays flat and you lose frames rather*)
(* than time" (ARCHITECTURE.md:57): whatever the client sends and however  *)
(* slow the frames before it were, a frame is dealt with within two        *)
(* analyses of its reception.                                              *)
LatencyBounded == pump.at # "waiting" => pump.due <= pump.received + 2 * Work

(* "Timestamps are the server's receive time" (ARCHITECTURE.md:54), as far *)
(* as it is true: a frame is stamped when it has been decoded, after it may*)
(* have waited for the one before. It is never stamped before it came, and *)
(* less than two analyses late, so no time between two stamps is off by    *)
(* more than that.                                                         *)
StampLag ==
  pump.at = "analysing" => lastTs >= pump.received /\ lastTs < pump.received + 2 * Work
=============================================================================
