----------------------------- MODULE LiveStream -----------------------------
(***************************************************************************)
(* One live session: _run_stream of api/routes.py. A reader task receives  *)
(* messages and keeps the newest frame in a single-slot mailbox; the pump  *)
(* takes frames from it, has them analysed in a thread and answers. Both   *)
(* run on one event loop, so the code between two awaits is one step.      *)
(***************************************************************************)
EXTENDS Integers

CONSTANTS
  MaxFrames,  \* frames the client sends at most (bound of the instance)
  Faults      \* what may happen to this session, see FaultKinds

FaultKinds ==
  { "undecodable",  \* a frame is not a valid image (AppError)
    "broken",       \* the analysis of a frame raises anything else
    "deadline",     \* stream_max_duration_s passes
    "disconnect",   \* the connection is lost
    "idle" }        \* nothing arrives for stream_idle_timeout_s

ASSUME StreamAssumption == MaxFrames \in Nat /\ Faults \subseteq FaultKinds

VARIABLES
  connected,  \* the client is still there
  received,   \* frames received, numbered from 1 in the order of arrival
  reader,     \* where the reader task is
  outcome,    \* the list `outcome` has at most one entry; "none" when empty
  latest,     \* the mailbox: a frame number, 0 when empty
  haveFrame,  \* the event that wakes the pump
  pump,       \* where the pump is
  inHand,     \* the frame the pump has taken
  expired,    \* the deadline has passed
  reason,     \* what _run_stream returned
  accepted, taken  \* history: last frame put into the mailbox, last one taken from it

vars == <<connected, received, reader, outcome, latest, haveFrame, pump, inHand, expired,
          reason, accepted, taken>>

Outcomes == {"idle_timeout", "client_closed", "too_big"}
May(fault) == fault \in Faults

TypeOK ==
  /\ connected \in BOOLEAN /\ haveFrame \in BOOLEAN /\ expired \in BOOLEAN
  /\ received \in 0..MaxFrames /\ latest \in 0..MaxFrames /\ inHand \in 0..MaxFrames
  /\ accepted \in 0..MaxFrames /\ taken \in 0..MaxFrames
  /\ reader \in {"receiving", "ponging", "done", "failed", "cancelled"}
  /\ outcome \in Outcomes \cup {"none"}
  /\ pump \in {"waiting", "processing", "replying", "erroring", "returned", "raised"}
  /\ reason \in Outcomes \cup {"none", "max_duration", "error"}

Init ==
  /\ connected = TRUE /\ received = 0 /\ reader = "receiving" /\ outcome = "none"
  /\ latest = 0 /\ haveFrame = FALSE /\ pump = "waiting" /\ inHand = 0
  /\ expired = FALSE /\ reason = "none" /\ accepted = 0 /\ taken = 0

-----------------------------------------------------------------------------
(* The environment                                                         *)

Disconnect ==
  /\ May("disconnect") /\ connected /\ connected' = FALSE
  /\ UNCHANGED <<received, reader, outcome, latest, haveFrame, pump, inHand, expired, reason,
                 accepted, taken>>

DeadlinePasses ==
  /\ May("deadline") /\ ~expired /\ expired' = TRUE
  /\ UNCHANGED <<connected, received, reader, outcome, latest, haveFrame, pump, inHand, reason,
                 accepted, taken>>

-----------------------------------------------------------------------------
(* The reader                                                              *)

pumpSide == <<pump, inHand, reason, taken, connected, expired>>

(* A frame is dropped by the rate limit, or replaces the one in the mailbox*)
ReceiveFrame ==
  /\ reader = "receiving" /\ connected /\ received < MaxFrames
  /\ received' = received + 1
  /\ \/ latest' = received' /\ accepted' = received' /\ haveFrame' = TRUE
     \/ UNCHANGED <<latest, accepted, haveFrame>>
  /\ UNCHANGED <<reader, outcome, pumpSide>>

ReceivePing ==
  /\ reader = "receiving" /\ connected /\ reader' = "ponging"
  /\ UNCHANGED <<received, outcome, latest, haveFrame, accepted, pumpSide>>

(* send_text("pong"): when the client is gone it may raise, and the task   *)
(* ends without a word.                                                    *)
Pong ==
  /\ reader = "ponging"
  /\ reader' = "receiving" \/ (~connected /\ reader' = "failed")
  /\ UNCHANGED <<received, outcome, latest, haveFrame, accepted, pumpSide>>

ReadsLastQuietly(o) ==  \* mutation: the pump is not woken
  /\ reader = "receiving" /\ reader' = "done"
  /\ outcome' = o
  /\ UNCHANGED <<received, latest, accepted, haveFrame, pumpSide>>

ReadsLast(o) ==
  /\ reader = "receiving" /\ reader' = "done"
  /\ outcome' = o /\ haveFrame' = TRUE
  /\ UNCHANGED <<received, latest, accepted, pumpSide>>

ReceiveTooBig == connected /\ ReadsLast("too_big")
ReceiveDisconnect == ~connected /\ ReadsLast("client_closed")
IdleTimeout == May("idle") /\ ReadsLast("idle_timeout")

-----------------------------------------------------------------------------
(* The pump. Leaving the loop cancels the reader.                          *)

Leave(how, r) ==
  /\ pump' = how /\ reason' = r /\ inHand' = 0
  /\ reader' = IF reader \in {"done", "failed"} THEN reader ELSE "cancelled"

(* Round the loop again: the deadline is checked before the next wait.     *)
Again ==
  IF expired THEN Leave("returned", "max_duration")
  ELSE pump' = "waiting" /\ inHand' = 0 /\ UNCHANGED <<reader, reason>>

SendFails == ~connected /\ Leave("raised", "client_closed")

readerSide == <<received, outcome, accepted, connected, expired>>

WaitTimesOutLate ==  \* mutation: the wait has no timeout
  /\ pump = "waiting" /\ expired /\ haveFrame
  /\ Leave("returned", "max_duration")
  /\ UNCHANGED <<latest, haveFrame, taken, readerSide>>

WaitTimesOut ==
  /\ pump = "waiting" /\ expired
  /\ Leave("returned", "max_duration")
  /\ UNCHANGED <<latest, haveFrame, taken, readerSide>>

WakeAndReturn ==  \* mutation: an outcome wins over the frame that is waiting
  /\ pump = "waiting" /\ haveFrame /\ haveFrame' = FALSE
  /\ \/ outcome # "none" /\ Leave("returned", outcome) /\ UNCHANGED <<latest, taken>>
     \/ /\ outcome = "none" /\ latest # 0 /\ pump' = "processing" /\ inHand' = latest /\ latest' = 0
        /\ taken' = latest
        /\ UNCHANGED <<reader, reason>>
  /\ UNCHANGED readerSide

WakeAndKeep ==  \* mutation: the frame is read but left in the mailbox
  /\ pump = "waiting" /\ haveFrame /\ haveFrame' = FALSE
  /\ \/ outcome # "none" /\ latest = 0 /\ Leave("returned", outcome)
        /\ UNCHANGED <<latest, taken>>
     \/ /\ latest # 0 /\ pump' = "processing" /\ inHand' = latest
        /\ taken' = latest
        /\ UNCHANGED <<latest, reader, reason>>
  /\ UNCHANGED readerSide

(* A frame is waiting, or the session is over. The code goes round the loop*)
(* if neither holds, which never happens (WaitingFrameWakes).              *)
Wake ==
  /\ pump = "waiting" /\ haveFrame /\ haveFrame' = FALSE
  /\ \/ outcome # "none" /\ latest = 0 /\ Leave("returned", outcome)
        /\ UNCHANGED <<latest, taken>>
     \/ /\ latest # 0 /\ pump' = "processing" /\ inHand' = latest /\ latest' = 0
        /\ taken' = latest
        /\ UNCHANGED <<reader, reason>>
  /\ UNCHANGED readerSide

(* session.process in a thread: a result, an AppError, or anything else,   *)
(* which ends the session.                                                 *)
Analyse ==
  /\ pump = "processing"
  /\ \/ /\ pump' = "replying" \/ (May("undecodable") /\ pump' = "erroring")
        /\ UNCHANGED <<inHand, reason, reader>>
     \/ May("broken") /\ Leave("raised", "error")
  /\ UNCHANGED <<latest, haveFrame, taken, readerSide>>

ReplyAndClear ==  \* mutation: the event is cleared after the answer
  /\ pump = "replying" /\ haveFrame' = FALSE
  /\ \/ SendFails
     \/ IF outcome # "none" /\ latest = 0 THEN Leave("returned", outcome) ELSE Again
  /\ UNCHANGED <<latest, taken, readerSide>>

(* The frame message and its events are sent; then, and only then, is the  *)
(* outcome looked at.                                                      *)
Reply ==
  /\ pump = "replying"
  /\ \/ SendFails
     \/ IF outcome # "none" /\ latest = 0 THEN Leave("returned", outcome) ELSE Again
  /\ UNCHANGED <<latest, haveFrame, taken, readerSide>>

ReplyError ==
  /\ pump = "erroring"
  /\ SendFails \/ Again
  /\ UNCHANGED <<latest, haveFrame, taken, readerSide>>

-----------------------------------------------------------------------------
ReaderEvents == ReceiveDisconnect \/ Pong
Reader == ReceiveFrame \/ ReceivePing \/ ReceiveTooBig \/ IdleTimeout \/ ReaderEvents
Pump == WaitTimesOut \/ Wake \/ Analyse \/ Reply \/ ReplyError

Next == Disconnect \/ DeadlinePasses \/ Reader \/ Pump

Spec == Init /\ [][Next]_vars

(* The event loop runs ready tasks and analysis returns; a client sends    *)
(* what it likes, and the deadline is 15 minutes away.                     *)
FairSpec == Spec /\ WF_vars(Pump) /\ WF_vars(ReaderEvents)

-----------------------------------------------------------------------------
(* Properties                                                              *)

(* The pump analyses the newest frame there is, and each frame at most once*)
(* and in the order of arrival ("a reader coroutine keeps only the newest  *)
(* unprocessed frame", ARCHITECTURE.md:56).                                *)
NewestFrameNext ==
  [][taken' # taken \/ (pump' = "processing" /\ pump # "processing") =>
       inHand' = accepted /\ inHand' > taken]_vars

(* No lost and no idle wake-up: whenever a frame waits in the mailbox and  *)
(* the pump waits for one, the pump has been woken; and it is woken only   *)
(* for a frame or for the end.                                             *)
WaitingFrameWakes ==
  /\ pump = "waiting" /\ latest # 0 => haveFrame
  /\ haveFrame => latest # 0 \/ outcome # "none"

(* A session that ends for the reader's reason has taken every frame that  *)
(* was accepted before it.                                                 *)
DrainedBeforeReturn == pump = "returned" /\ reason \in Outcomes => taken = accepted

(* A session ends when its client is gone or the reader has ended it,      *)
(* except that an AppError after that makes the pump forget it, and that a *)
(* pong which raises keeps it from the pump.                               *)
EndIsNoticed ==
  <>(~connected \/ outcome # "none") =>
    <>(\/ pump \in {"returned", "raised"}
       \/ reader = "failed"
       \/ outcome # "none" /\ pump = "erroring")

(* When the reader has ended the session - idle, disconnected, or an       *)
(* oversized frame - the pump returns, without waiting for the deadline    *)
(* ("Idle timeout, maximum duration, oversized frame (1009), abrupt        *)
(* disconnects", ARCHITECTURE.md:62).                                      *)
OutcomeEndsSession == outcome # "none" ~> pump \in {"returned", "raised"}

(* A session does not outlive stream_max_duration_s by more than the work  *)
(* in hand.                                                                *)
DeadlineEndsSession == expired ~> pump \in {"returned", "raised"}
=============================================================================
