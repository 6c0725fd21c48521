--------------------------- MODULE BlinkDetector ---------------------------
(***************************************************************************)
(* The blink state machine of blink.py: a hysteresis detector over an      *)
(* eye-closure signal with one sample per frame. Closure values and        *)
(* thresholds are whole numbers of a scale 0..Full instead of floats in    *)
(* 0..1, times are milliseconds.                                           *)
(***************************************************************************)
EXTENDS Integers, Sequences

CONSTANTS
  Times,           \* timestamps a caller may pass
  Closures,        \* closure values a caller may pass, out of range ones too
  Full,            \* the closure value 1.0
  CloseThreshold, OpenThreshold, MinDuration, MaxDuration, MaxFaceGap  \* BlinkConfig

ASSUME ConfigAssumption ==
  /\ Full \in Nat /\ CloseThreshold \in Nat /\ OpenThreshold \in Nat
  /\ OpenThreshold < CloseThreshold /\ CloseThreshold <= Full
  /\ MinDuration \in Nat /\ MaxDuration \in Nat /\ MinDuration < MaxDuration
  /\ MaxFaceGap \in Nat
ASSUME InputAssumption == Times \subseteq Nat /\ Closures \subseteq Nat

Never == -1    \* a timestamp that is None
NoFace == -1   \* the closure of a frame without a face
Ended == -2    \* in frames: finish() was called

VARIABLES
  closedSince, peak, lastSeen, lastT,  \* the fields of BlinkDetector
  blinks, longs, discards,             \* its counters
  events,   \* history: every event update() has returned
  opened,   \* history: how many closures have begun
  frames    \* history: the accepted input, [t |-> time, c |-> closure]

counters == <<blinks, longs, discards>>
vars == <<closedSince, peak, lastSeen, lastT, counters, events, opened, frames>>

Kinds == {"blink", "long_closure"}
Event == [kind : Kinds, start : Nat, end : Nat, peak : Nat]

TypeOK ==
  /\ closedSince \in Nat \cup {Never} /\ lastSeen \in Nat \cup {Never} /\ lastT \in Nat \cup {Never}
  /\ peak \in 0..Full
  /\ blinks \in Nat /\ longs \in Nat /\ discards \in Nat /\ opened \in Nat
  /\ events \in Seq(Event)
  /\ frames \in Seq([t : Nat, c : 0..Full \cup {NoFace, Ended}])

Init ==
  /\ closedSince = Never /\ lastSeen = Never /\ lastT = Never /\ peak = 0
  /\ blinks = 0 /\ longs = 0 /\ discards = 0
  /\ events = <<>> /\ opened = 0 /\ frames = <<>>

Closed == closedSince # Never
Reset == closedSince' = Never /\ peak' = 0
Log(t, c) == frames' = Append(frames, [t |-> t, c |-> c])
Larger(a, b) == IF a >= b THEN a ELSE b

(* update() raises for a timestamp that does not increase, before it does  *)
(* anything; every other call moves _last_t.                               *)
Advances(t) == t > lastT /\ lastT' = t

-----------------------------------------------------------------------------
FaceLostUncounted(t) ==  \* mutation: the discarded closure is not counted
  /\ Advances(t)
  /\ IF Closed /\ lastSeen # Never /\ t - lastSeen > MaxFaceGap
     THEN Reset ELSE UNCHANGED <<closedSince, peak>>
  /\ Log(t, NoFace)
  /\ UNCHANGED <<lastSeen, counters, events, opened>>

(* update(t, None): the closure is given up when the face has been away    *)
(* too long.                                                               *)
FaceLost(t) ==
  /\ Advances(t)
  /\ IF Closed /\ lastSeen # Never /\ t - lastSeen > MaxFaceGap
     THEN Reset /\ discards' = discards + 1
     ELSE UNCHANGED <<closedSince, peak, discards>>
  /\ Log(t, NoFace)
  /\ UNCHANGED <<lastSeen, blinks, longs, events, opened>>

(* update() with a closure outside [0, 1] raises after _last_t was set.    *)
BadClosure(t, c) ==
  /\ c > Full /\ Advances(t)
  /\ UNCHANGED <<closedSince, peak, lastSeen, counters, events, opened, frames>>

Seen(t, c) == c \in 0..Full /\ Advances(t) /\ lastSeen' = t /\ Log(t, c)

StillOpen(t, c) ==
  /\ Seen(t, c) /\ ~Closed
  /\ IF c >= CloseThreshold
     THEN closedSince' = t /\ peak' = c /\ opened' = opened + 1
     ELSE UNCHANGED <<closedSince, peak, opened>>
  /\ UNCHANGED <<counters, events>>

StillClosed(t, c) ==
  /\ Seen(t, c) /\ Closed /\ c > OpenThreshold
  /\ peak' = Larger(peak, c)
  /\ UNCHANGED <<closedSince, counters, events, opened>>

Returns(kind, t, p) ==
  events' = Append(events, [kind |-> kind, start |-> closedSince, end |-> t, peak |-> p])

EmitSwapped(t, p) ==  \* mutation: the comparison with the longest blink is reversed
  LET duration == t - closedSince IN
  CASE duration < MinDuration -> discards' = discards + 1 /\ UNCHANGED <<blinks, longs, events>>
    [] duration < MaxDuration /\ duration >= MinDuration ->
         longs' = longs + 1 /\ Returns("long_closure", t, p) /\ UNCHANGED <<blinks, discards>>
    [] OTHER -> blinks' = blinks + 1 /\ Returns("blink", t, p) /\ UNCHANGED <<longs, discards>>

(* _emit: too short is discarded, too long is not a blink.                 *)
Emit(t, p) ==
  LET duration == t - closedSince IN
  \/ /\ duration < MinDuration
     /\ discards' = discards + 1 /\ UNCHANGED <<blinks, longs, events>>
  \/ /\ duration > MaxDuration /\ duration >= MinDuration
     /\ longs' = longs + 1 /\ Returns("long_closure", t, p) /\ UNCHANGED <<blinks, discards>>
  \/ /\ duration \in MinDuration..MaxDuration
     /\ blinks' = blinks + 1 /\ Returns("blink", t, p) /\ UNCHANGED <<longs, discards>>

ReopensEarly(t, c) ==  \* mutation: no hysteresis, any fall below close_threshold ends it
  /\ Seen(t, c) /\ Closed /\ c < CloseThreshold
  /\ Emit(t, Larger(peak, c)) /\ Reset
  /\ UNCHANGED opened

ReopensUnreset(t, c) ==  \* mutation: the closure is still open after its event
  /\ Seen(t, c) /\ Closed /\ c <= OpenThreshold
  /\ Emit(t, Larger(peak, c)) /\ UNCHANGED <<closedSince, peak, opened>>

Reopens(t, c) ==
  /\ Seen(t, c) /\ Closed /\ c <= OpenThreshold
  /\ Emit(t, Larger(peak, c)) /\ Reset
  /\ UNCHANGED opened

(* finish(): the end of a closure that is still open is unknown.           *)
Finish ==
  /\ Closed
  /\ Reset /\ discards' = discards + 1
  /\ Log(lastT, Ended)
  /\ UNCHANGED <<lastSeen, lastT, blinks, longs, events, opened>>

Next ==
  \/ \E t \in Times : FaceLost(t)
  \/ \E t \in Times, c \in Closures :
       BadClosure(t, c) \/ StillOpen(t, c) \/ StillClosed(t, c) \/ Reopens(t, c)
  \/ Finish

Spec == Init /\ [][Next]_vars

-----------------------------------------------------------------------------
(* What the events should be, from the frames alone. A frame is decisive   *)
(* when it closes the eyes, opens them, or breaks off the observation; the *)
(* frames between say nothing.                                             *)

Faces(f) == {i \in DOMAIN f : f[i].c \in 0..Full}
Closes(f, i) == f[i].c >= CloseThreshold
Opens(f, i) == f[i].c \in 0..OpenThreshold
Lost(f, i) ==
  /\ f[i].c = NoFace
  /\ \E k \in Faces(f) :
       k < i /\ f[i].t - f[k].t > MaxFaceGap /\ \A l \in Faces(f) : ~(k < l /\ l < i)
Breaks(f, i) == Opens(f, i) \/ Lost(f, i) \/ f[i].c = Ended
BreakWithin(f, i, k) == \E b \in (i + 1)..(k - 1) : Breaks(f, b)

(* A closure begins at a closing frame that no earlier one leads up to.    *)
Begins(f, s) == Closes(f, s) /\ \A k \in 1..(s - 1) : Closes(f, k) => BreakWithin(f, k, s)
Spans(f, s, e) == s < e /\ Begins(f, s) /\ Opens(f, e) /\ ~BreakWithin(f, s, e)

PeakOf(f, s, e) == LET cs == {f[i].c : i \in s..e} IN CHOOSE x \in cs : \A y \in cs : x >= y

ExpectedEvents(f) ==
  { [kind |-> IF f[p[2]].t - f[p[1]].t <= MaxDuration THEN "blink" ELSE "long_closure",
     start |-> f[p[1]].t, end |-> f[p[2]].t, peak |-> PeakOf(f, p[1], p[2])]
    : p \in { q \in (DOMAIN f) \X (DOMAIN f) :
              Spans(f, q[1], q[2]) /\ f[q[2]].t - f[q[1]].t >= MinDuration } }

-----------------------------------------------------------------------------
(* Properties                                                              *)

(* The detector reports exactly the closures of the frame history: begun   *)
(* at a closing frame, ended by the first opening one with no break in     *)
(* between, none split, merged, repeated or missed (blink.py:7-10).        *)
MatchesReference == {events[i] : i \in DOMAIN events} = ExpectedEvents(frames)

(* Every closure that begins is accounted for exactly once: as a blink, a  *)
(* long closure, a discarded one, or the one still open.                   *)
Accounted == opened = blinks + longs + discards + (IF Closed THEN 1 ELSE 0)

(* Events come out in order and do not overlap: the next closure begins    *)
(* after the end of the one before, and an open closure after them all.    *)
EventsOrdered ==
  /\ \A i, k \in DOMAIN events : i < k => events[i].end < events[k].start
  /\ Closed => \A i \in DOMAIN events : events[i].end < closedSince

(* An event is what its kind says: at least min_duration_ms long, a blink  *)
(* exactly when no longer than max_duration_ms, with a peak that closed the*)
(* eyes ("longer closures are reported separately", README.md:14).         *)
EventsSound ==
  \A i \in DOMAIN events :
    LET e == events[i] IN
    /\ e.end - e.start >= MinDuration
    /\ e.kind = "blink" <=> e.end - e.start <= MaxDuration
    /\ e.peak \in CloseThreshold..Full

(* "A closure whose end was not observed (stream ended, or the face was    *)
(* lost for more than max_face_gap_ms) is discarded, not guessed"          *)
(* (ARCHITECTURE.md:47): no event spans two neighbouring sightings of the  *)
(* face, with frames without one in between, further apart than that.      *)
NoEventAcrossGap ==
  \A n \in DOMAIN events : \A p, q \in Faces(frames) :
    ~(/\ p + 1 < q /\ \A l \in (p + 1)..(q - 1) : frames[l].c = NoFace
       /\ events[n].start <= frames[p].t /\ frames[q].t <= events[n].end
       /\ frames[q].t - frames[p].t > MaxFaceGap)
=============================================================================
