------------------------ MODULE BlinkDetectorProofs ------------------------
(* Theorems about BlinkDetector, for every configuration BlinkConfig       *)
(* accepts and every sequence of frames, those of a video among them.      *)
EXTENDS VideoAnalysis, TLAPS

(* Timestamps the detector remembers lie in its past.                      *)
Past ==
  /\ closedSince <= lastT
  /\ Closed => peak >= CloseThreshold
  /\ \A i \in DOMAIN events : events[i].end <= lastT

DetectorInv == TypeOK /\ Past /\ Accounted /\ EventsOrdered /\ EventsSound

LEMMA DetectorInit == Init => DetectorInv
  BY ConfigAssumption
     DEF Init, DetectorInv, TypeOK, Past, Accounted, EventsOrdered, EventsSound, Closed, Never,
         counters, Event

(* The numbers in the state are integers, also when no time is known.      *)
LEMMA Numbers ==
  ASSUME TypeOK
  PROVE  /\ closedSince \in Int /\ lastSeen \in Int /\ lastT \in Int /\ peak \in Int
         /\ \A i \in DOMAIN events : /\ events[i] \in Event /\ events[i].start \in Int
                                     /\ events[i].end \in Int /\ events[i].peak \in Int
  <1>1. \A i \in DOMAIN events : events[i] \in Event
    BY DEF TypeOK
  <1>2. QED
    BY <1>1, ConfigAssumption DEF TypeOK, Never, Event

(* Appending an event that ends now keeps what holds of the ones before.   *)
LEMMA ReturnsLemma ==
  ASSUME DetectorInv, Closed, NEW t \in Nat, t > lastT, NEW p \in CloseThreshold..Full,
         NEW kind \in Kinds, Returns(kind, t, p), t - closedSince >= MinDuration,
         kind = "blink" <=> t - closedSince <= MaxDuration
  PROVE  /\ events' \in Seq(Event)
         /\ \A i \in DOMAIN events' : events'[i].end <= t
         /\ \A i, k \in DOMAIN events' : i < k => events'[i].end < events'[k].start
         /\ \A i \in DOMAIN events' :
              /\ events'[i].end - events'[i].start >= MinDuration
              /\ events'[i].kind = "blink" <=> events'[i].end - events'[i].start <= MaxDuration
              /\ events'[i].peak \in CloseThreshold..Full
  <1> DEFINE e == [kind |-> kind, start |-> closedSince, end |-> t, peak |-> p]
  <1>1. e \in Event /\ events \in Seq(Event)
    BY ConfigAssumption DEF DetectorInv, TypeOK, Event, Closed
  <1>2. events' = Append(events, e)
    BY DEF Returns
  <1>3. events' \in Seq(Event) /\ Len(events') = Len(events) + 1
    BY <1>1, <1>2
  <1>4. \A i \in DOMAIN events' : events'[i] = IF i = Len(events) + 1 THEN e ELSE events[i]
    BY <1>1, <1>2
  <1>5. DOMAIN events' = 1..(Len(events) + 1) /\ DOMAIN events = 1..Len(events)
    BY <1>1, <1>3
  <1>6. \A i \in 1..Len(events) : events[i] \in Event
    BY <1>1
  <1>7. \A i \in DOMAIN events' : events'[i].end <= t
    BY <1>1, <1>4, <1>5, Numbers DEF DetectorInv, Past
  <1>8. \A i, k \in DOMAIN events' : i < k => events'[i].end < events'[k].start
    BY <1>1, <1>4, <1>5, <1>6 DEF DetectorInv, EventsOrdered
  <1>9. \A i \in DOMAIN events' :
              /\ events'[i].end - events'[i].start >= MinDuration
              /\ events'[i].kind = "blink" <=> events'[i].end - events'[i].start <= MaxDuration
              /\ events'[i].peak \in CloseThreshold..Full
    BY <1>4, <1>5 DEF DetectorInv, EventsSound
  <1>10. QED
    BY <1>3, <1>7, <1>8, <1>9

LEMMA LogType ==
  ASSUME TypeOK, NEW t \in Nat, NEW c \in 0..Full \cup {NoFace, Ended}, Log(t, c)
  PROVE  frames' \in Seq([t : Nat, c : 0..Full \cup {NoFace, Ended}])
  <1>1. [t |-> t, c |-> c] \in [t : Nat, c : 0..Full \cup {NoFace, Ended}]
    OBVIOUS
  <1>2. QED
    BY <1>1 DEF TypeOK, Log

(* A call of update(), with any time.                                      *)
LEMMA UpdateLemma ==
  ASSUME DetectorInv, NEW t \in Nat, NEW c \in Nat,
         \/ FaceLost(t) \/ BadClosure(t, c)
         \/ StillOpen(t, c) \/ StillClosed(t, c) \/ Reopens(t, c)
  PROVE  DetectorInv'
  <1> USE ConfigAssumption DEF DetectorInv, Closed, Never, counters
  <1>1. CASE FaceLost(t)
    <2>1. t \in Nat /\ lastT \in Int /\ t > lastT /\ lastT' = t
      BY <1>1, Numbers DEF FaceLost, Advances
    <2>2. frames' \in Seq([t : Nat, c : 0..Full \cup {NoFace, Ended}])
      BY <1>1, <2>1, LogType DEF FaceLost, Advances
    <2>3. CASE Reset /\ discards' = discards + 1 /\ Closed
      <3>1. TypeOK' /\ Accounted'
        BY <1>1, <2>1, <2>2, <2>3 DEF FaceLost, Reset, TypeOK, Accounted
      <3>2. Past' /\ EventsOrdered' /\ EventsSound'
        BY <1>1, <2>1, <2>3, Numbers DEF FaceLost, Reset, Past, EventsOrdered, EventsSound
      <3>3. QED
        BY <3>1, <3>2
    <2>4. CASE UNCHANGED <<closedSince, peak, discards>>
      <3>1. TypeOK' /\ Accounted'
        BY <1>1, <2>1, <2>2, <2>4 DEF FaceLost, TypeOK, Accounted
      <3>2. Past' /\ EventsOrdered' /\ EventsSound'
        BY <1>1, <2>1, <2>4, Numbers DEF FaceLost, Past, EventsOrdered, EventsSound
      <3>3. QED
        BY <3>1, <3>2
    <2>5. QED
      BY <1>1, <2>3, <2>4 DEF FaceLost
  <1>2. CASE BadClosure(t, c)
    <2>1. t \in Nat /\ lastT \in Int /\ t > lastT /\ lastT' = t
      BY <1>2, Numbers DEF BadClosure, Advances
    <2>2. frames' \in Seq([t : Nat, c : 0..Full \cup {NoFace, Ended}])
      BY <1>2 DEF BadClosure, Advances, TypeOK
    <2>3. TypeOK'
      BY <1>2, <2>1, <2>2 DEF BadClosure, TypeOK
    <2>4. Past'
      BY <1>2, <2>1, Numbers DEF BadClosure, Past
    <2>5. Accounted'
      BY <1>2 DEF BadClosure, TypeOK, Accounted
    <2>6. EventsOrdered' /\ EventsSound'
      BY <1>2, <2>1, Numbers DEF BadClosure, Past, EventsOrdered, EventsSound
    <2>7. QED
      BY <2>3, <2>4, <2>5, <2>6
  <1>3. CASE StillOpen(t, c)
    <2>1. t \in Nat /\ lastT \in Int /\ t > lastT /\ lastT' = t
      BY <1>3, Numbers DEF StillOpen, Seen, Advances
    <2>2. frames' \in Seq([t : Nat, c : 0..Full \cup {NoFace, Ended}])
      BY <1>3, <2>1, LogType DEF StillOpen, Seen, Advances
    <2>3. TypeOK'
      BY <1>3, <2>1, <2>2 DEF StillOpen, Seen, TypeOK
    <2>4. Past'
      BY <1>3, <2>1, Numbers DEF StillOpen, Seen, Past
    <2>5. Accounted'
      <3>1. CASE c >= CloseThreshold
        BY <1>3, <2>1, <3>1 DEF StillOpen, TypeOK, Accounted
      <3>2. CASE UNCHANGED <<closedSince, opened>>
        BY <1>3, <3>2 DEF StillOpen, TypeOK, Accounted
      <3>3. QED
        BY <1>3, <3>1, <3>2 DEF StillOpen
    <2>6. EventsOrdered' /\ EventsSound'
      BY <1>3, <2>1, Numbers DEF StillOpen, Seen, Past, EventsOrdered, EventsSound
    <2>7. QED
      BY <2>3, <2>4, <2>5, <2>6
  <1>4. CASE StillClosed(t, c)
    <2>1. t \in Nat /\ lastT \in Int /\ t > lastT /\ lastT' = t
      BY <1>4, Numbers DEF StillClosed, Seen, Advances
    <2>2. frames' \in Seq([t : Nat, c : 0..Full \cup {NoFace, Ended}])
      BY <1>4, <2>1, LogType DEF StillClosed, Seen, Advances
    <2>3. TypeOK'
      BY <1>4, <2>1, <2>2 DEF StillClosed, Seen, Larger, TypeOK
    <2>4. Past'
      BY <1>4, <2>1, Numbers DEF StillClosed, Seen, Larger, Past
    <2>5. Accounted'
      BY <1>4 DEF StillClosed, Seen, Larger, TypeOK, Accounted
    <2>6. EventsOrdered' /\ EventsSound'
      BY <1>4, <2>1, Numbers DEF StillClosed, Seen, Larger, Past, EventsOrdered, EventsSound
    <2>7. QED
      BY <2>3, <2>4, <2>5, <2>6
  <1>5. CASE Reopens(t, c)
    <2>1. frames' \in Seq([t : Nat, c : 0..Full \cup {NoFace, Ended}])
      BY <1>5, LogType DEF Reopens, Seen
    <2>2. t \in Nat /\ t > lastT /\ Larger(peak, c) \in CloseThreshold..Full
      <3>1. peak \in 0..Full /\ peak >= CloseThreshold /\ c \in 0..Full
        BY <1>5 DEF Reopens, Seen, Past, TypeOK
      <3>2. Larger(peak, c) \in CloseThreshold..Full
        BY <3>1 DEF Larger
      <3>3. t \in Nat /\ t > lastT
        BY <1>5 DEF Reopens, Seen, Advances
      <3>4. QED
        BY <3>2, <3>3
    <2>3. lastSeen' = t /\ lastT' = t /\ closedSince' = Never /\ peak' = 0
          /\ opened' = opened /\ Closed
      BY <1>5 DEF Reopens, Seen, Advances, Reset
    <2>4. CASE UNCHANGED <<blinks, longs, events>> /\ discards' = discards + 1
      <3>1. TypeOK' /\ Accounted'
        BY <2>1, <2>2, <2>3, <2>4 DEF TypeOK, Accounted
      <3>2. Past' /\ EventsOrdered' /\ EventsSound'
        BY <2>2, <2>3, <2>4, Numbers DEF Past, EventsOrdered, EventsSound
      <3>3. QED
        BY <3>1, <3>2
    <2>5. ASSUME NEW kind \in Kinds, Returns(kind, t, Larger(peak, c)),
                 t - closedSince >= MinDuration,
                 kind = "blink" <=> t - closedSince <= MaxDuration
          PROVE  /\ events' \in Seq(Event) /\ EventsOrdered' /\ EventsSound'
                 /\ \A i \in DOMAIN events' : events'[i].end <= t
      BY <2>2, <2>3, <2>5, ReturnsLemma DEF EventsOrdered, EventsSound
    <2>6. CASE /\ Returns("long_closure", t, Larger(peak, c)) /\ longs' = longs + 1
               /\ t - closedSince > MaxDuration /\ UNCHANGED <<blinks, discards>>
      <3>1. /\ events' \in Seq(Event) /\ EventsOrdered' /\ EventsSound'
            /\ \A i \in DOMAIN events' : events'[i].end <= t
        <4>1. t - closedSince >= MinDuration /\ ~(t - closedSince <= MaxDuration)
          BY <2>2, <2>6, Numbers
        <4>2. QED
          BY <2>5, <2>6, <4>1 DEF Kinds
      <3>2. TypeOK' /\ Past'
        BY <2>1, <2>2, <2>3, <2>6, <3>1 DEF TypeOK, Past
      <3>3. Accounted'
        BY <2>3, <2>6 DEF TypeOK, Accounted
      <3>4. QED
        BY <3>1, <3>2, <3>3
    <2>7. CASE /\ Returns("blink", t, Larger(peak, c)) /\ blinks' = blinks + 1
               /\ t - closedSince \in MinDuration..MaxDuration /\ UNCHANGED <<longs, discards>>
      <3>1. /\ events' \in Seq(Event) /\ EventsOrdered' /\ EventsSound'
            /\ \A i \in DOMAIN events' : events'[i].end <= t
        BY <2>3, <2>5, <2>7 DEF Kinds
      <3>2. TypeOK' /\ Past'
        BY <2>1, <2>2, <2>3, <2>7, <3>1 DEF TypeOK, Past
      <3>3. Accounted'
        BY <2>3, <2>7 DEF TypeOK, Accounted
      <3>4. QED
        BY <3>1, <3>2, <3>3
    <2>8. QED
      BY <1>5, <2>4, <2>6, <2>7 DEF Reopens, Emit
  <1>6. QED
    BY <1>1, <1>2, <1>3, <1>4, <1>5

LEMMA FinishLemma == ASSUME DetectorInv, Finish PROVE DetectorInv'
  <1> USE ConfigAssumption DEF DetectorInv, Closed, Never, counters
  <1>1. lastT \in Nat
    BY DEF Finish, Past, TypeOK
  <1>2. frames' \in Seq([t : Nat, c : 0..Full \cup {NoFace, Ended}])
    BY <1>1, LogType DEF Finish
  <1>3. TypeOK' /\ Accounted'
    BY <1>1, <1>2 DEF Finish, Reset, TypeOK, Accounted
  <1>4. Past' /\ EventsOrdered' /\ EventsSound'
    BY <1>1, Numbers DEF Finish, Reset, Past, EventsOrdered, EventsSound
  <1>5. QED
    BY <1>3, <1>4

LEMMA DetectorStep == DetectorInv /\ [Next]_vars => DetectorInv'
  <1> SUFFICES ASSUME DetectorInv, [Next]_vars PROVE DetectorInv'
    OBVIOUS
  <1>1. ASSUME NEW t \in Times, FaceLost(t) PROVE DetectorInv'
    BY <1>1, UpdateLemma, InputAssumption
  <1>2. ASSUME NEW t \in Times, NEW c \in Closures,
               BadClosure(t, c) \/ StillOpen(t, c) \/ StillClosed(t, c) \/ Reopens(t, c)
        PROVE  DetectorInv'
    BY <1>2, UpdateLemma, InputAssumption
  <1>3. CASE Finish
    BY <1>3, FinishLemma
  <1>4. CASE UNCHANGED vars
    BY <1>4 DEF DetectorInv, vars, counters, TypeOK, Past, Closed, Accounted, EventsOrdered,
               EventsSound
  <1>5. QED
    BY <1>1, <1>2, <1>3, <1>4 DEF Next

LEMMA DetectorInvHolds == Spec => []DetectorInv
  BY DetectorInit, DetectorStep, PTL DEF Spec

(* The detector's fields stay in their types, whatever is fed to it.       *)
THEOREM TypeCorrect == Spec => []TypeOK
  <1>1. DetectorInv => TypeOK
    BY DEF DetectorInv
  <1>2. QED
    BY <1>1, DetectorInvHolds, PTL

(* Each closure that begins becomes exactly one of: a blink, a long        *)
(* closure, a discarded one, the one that is open.                         *)
THEOREM AccountedHolds == Spec => []Accounted
  <1>1. DetectorInv => Accounted
    BY DEF DetectorInv
  <1>2. QED
    BY <1>1, DetectorInvHolds, PTL

(* Events are reported in order and never overlap.                         *)
THEOREM EventsOrderedHolds == Spec => []EventsOrdered
  <1>1. DetectorInv => EventsOrdered
    BY DEF DetectorInv
  <1>2. QED
    BY <1>1, DetectorInvHolds, PTL

(* No blink is shorter than min_duration_ms or longer than                 *)
(* max_duration_ms, no long closure is counted as a blink, and every event *)
(* had the eyes closed.                                                    *)
THEOREM EventsSoundHolds == Spec => []EventsSound
  <1>1. DetectorInv => EventsSound
    BY DEF DetectorInv
  <1>2. QED
    BY <1>1, DetectorInvHolds, PTL

-----------------------------------------------------------------------------
(* The events against the frame history                                    *)

Frame == [t : Nat, c : 0..Full \cup {NoFace, Ended}]

(* A closure that begins at frame s is not over yet.                       *)
OpenAt(f, s) == Begins(f, s) /\ ~BreakWithin(f, s, Len(f) + 1)

IsPeak(f, s, e, x) == (\E i \in s..e : f[i].c = x) /\ (\A i \in s..e : f[i].c <= x)

(* Frames s and e are the ends of a closure that becomes an event z.       *)
Reports(f, s, e) == Spans(f, s, e) /\ f[e].t - f[s].t >= MinDuration
EventOf(f, s, e) ==
  [kind |-> IF f[e].t - f[s].t <= MaxDuration THEN "blink" ELSE "long_closure",
   start |-> f[s].t, end |-> f[e].t, peak |-> PeakOf(f, s, e)]

(* The detector knows the last frame with a face.                          *)
LastFace ==
  IF Faces(frames) = {} THEN lastSeen = Never
  ELSE \E k \in Faces(frames) : lastSeen = frames[k].t /\ \A l \in Faces(frames) : l <= k

(* It is closed exactly while a closure of the history is not over, and has*)
(* its beginning and its peak.                                             *)
OpenClosure ==
  IF Closed
  THEN \E s \in DOMAIN frames : OpenAt(frames, s) /\ closedSince = frames[s].t
                                /\ IsPeak(frames, s, Len(frames), peak)
  ELSE \A s \in DOMAIN frames : Closes(frames, s) => BreakWithin(frames, s, Len(frames) + 1)

HistoryInv == LastFace /\ OpenClosure /\ MatchesReference

(* The reference events are those of the frames that report one.           *)
LEMMA ExpectedLemma ==
  ASSUME NEW f, NEW z
  PROVE  z \in ExpectedEvents(f) <=>
           \E s, e \in DOMAIN f : Reports(f, s, e) /\ z = EventOf(f, s, e)
  <1>1. ASSUME NEW s \in DOMAIN f, NEW e \in DOMAIN f, Reports(f, s, e), z = EventOf(f, s, e)
        PROVE  z \in ExpectedEvents(f)
    <2> DEFINE p == <<s, e>>
    <2>1. p \in (DOMAIN f) \X (DOMAIN f) /\ p[1] = s /\ p[2] = e
      OBVIOUS
    <2>2. QED
      BY <1>1, <2>1 DEF ExpectedEvents, Reports, EventOf
  <1>2. ASSUME z \in ExpectedEvents(f)
        PROVE  \E s, e \in DOMAIN f : Reports(f, s, e) /\ z = EventOf(f, s, e)
    BY <1>2 DEF ExpectedEvents, Reports, EventOf
  <1>3. QED
    BY <1>1, <1>2

(* PeakOf is the one value that IsPeak says it is.                         *)
LEMMA PeakLemma ==
  ASSUME NEW f \in Seq(Frame), NEW s \in DOMAIN f, NEW e \in DOMAIN f, NEW x, IsPeak(f, s, e, x)
  PROVE  PeakOf(f, s, e) = x
  <1> DEFINE cs == {f[i].c : i \in s..e}
  <1>1. \A i \in s..e : f[i] \in Frame /\ f[i].c \in Int
    <2>1. \A i \in s..e : i \in DOMAIN f
      OBVIOUS
    <2>2. \A y \in Frame : y.c \in Int
      BY ConfigAssumption DEF Frame, NoFace, Ended
    <2>3. QED
      BY <2>1, <2>2
  <1>2. x \in cs /\ cs \subseteq Int /\ \A y \in cs : x >= y
    BY <1>1 DEF IsPeak
  <1>3. PeakOf(f, s, e) = CHOOSE z \in cs : \A y \in cs : z >= y
    BY DEF PeakOf
  <1> HIDE DEF cs
  <1>4. PeakOf(f, s, e) \in cs /\ \A y \in cs : PeakOf(f, s, e) >= y
    BY <1>2, <1>3
  <1>5. x \in Int /\ PeakOf(f, s, e) \in Int
    BY <1>2, <1>4
  <1>6. x >= PeakOf(f, s, e) /\ PeakOf(f, s, e) >= x
    BY <1>2, <1>4
  <1>7. QED
    BY <1>5, <1>6

(* One more frame changes nothing that was decided before it.              *)
LEMMA AppendLemma ==
  ASSUME NEW f \in Seq(Frame), NEW x \in Frame, NEW g, g = Append(f, x)
  PROVE  /\ g \in Seq(Frame) /\ Len(g) = Len(f) + 1 /\ Len(f) \in Nat
         /\ DOMAIN f = 1..Len(f) /\ DOMAIN g = 1..(Len(f) + 1)
         /\ g[Len(f) + 1] = x
         /\ \A i \in 1..Len(f) : g[i] = f[i]
         /\ \A i \in 1..(Len(f) + 1) : g[i] \in Frame
  OBVIOUS

(* One more frame adds itself to the frames with a face, or nothing.       *)
LEMMA FacesLemma ==
  ASSUME NEW f \in Seq(Frame), NEW x \in Frame, NEW g, g = Append(f, x)
  PROVE  /\ \A i \in 1..Len(f) : i \in Faces(g) <=> i \in Faces(f)
         /\ Faces(f) \subseteq 1..Len(f)
         /\ Faces(g) \subseteq 1..(Len(f) + 1)
         /\ x.c \in 0..Full => Faces(g) = Faces(f) \cup {Len(f) + 1}
         /\ x.c \notin 0..Full => Faces(g) = Faces(f)
  BY AppendLemma DEF Faces

(* One more frame does not change what an earlier one closes, opens or     *)
(* breaks.                                                                 *)
LEMMA BreaksLemma ==
  ASSUME NEW f \in Seq(Frame), NEW x \in Frame, NEW g, g = Append(f, x), NEW b \in 1..Len(f)
  PROVE  (Closes(g, b) <=> Closes(f, b)) /\ (Opens(g, b) <=> Opens(f, b))
         /\ (Breaks(g, b) <=> Breaks(f, b))
  <1>1. /\ Len(f) \in Nat /\ Len(g) = Len(f) + 1
        /\ \A i \in 1..Len(f) : g[i] = f[i]
    BY AppendLemma
  <1>2. /\ Faces(f) \subseteq 1..Len(f)
        /\ Faces(g) \subseteq 1..(Len(f) + 1)
        /\ \A i \in 1..Len(f) : i \in Faces(g) <=> i \in Faces(f)
    BY FacesLemma
  <1>3. Lost(g, b) <=> Lost(f, b)
    <2>1. g[b] = f[b]
      BY <1>1
    <2>2. \A k \in 1..(Len(f) + 1) : k < b => k \in 1..Len(f) /\ g[k] = f[k]
      BY <1>1
    <2>3. ASSUME NEW k \in 1..Len(f), k < b
          PROVE  (\A l \in Faces(g) : ~(k < l /\ l < b)) <=> (\A l \in Faces(f) : ~(k < l /\ l < b))
      BY <1>1, <1>2, <2>2
    <2>4. QED
      BY <1>1, <1>2, <2>1, <2>2, <2>3 DEF Lost
  <1>4. QED
    BY <1>1, <1>3 DEF Closes, Opens, Breaks

(* One more frame does not change where the closures before it begin and   *)
(* end; a closure that was not over is, if the frame breaks it.            *)
LEMMA BeginsLemma ==
  ASSUME NEW f \in Seq(Frame), NEW x \in Frame, NEW g, g = Append(f, x)
  PROVE  /\ \A i, k \in 1..(Len(f) + 1) : BreakWithin(g, i, k) <=> BreakWithin(f, i, k)
         /\ \A s \in 1..Len(f) : Begins(g, s) <=> Begins(f, s)
         /\ \A s \in 1..Len(f) : BreakWithin(g, s, Len(f) + 2) <=>
                                   BreakWithin(f, s, Len(f) + 1) \/ Breaks(g, Len(f) + 1)
         /\ \A s, e \in 1..Len(f) : Spans(g, s, e) <=> Spans(f, s, e)
  <1>1. Len(f) \in Nat
    BY AppendLemma
  <1>2. \A b \in 1..Len(f) : /\ Closes(g, b) <=> Closes(f, b)
                             /\ Opens(g, b) <=> Opens(f, b)
                             /\ Breaks(g, b) <=> Breaks(f, b)
    BY BreaksLemma
  <1>3. \A i, k \in 1..(Len(f) + 1) : BreakWithin(g, i, k) <=> BreakWithin(f, i, k)
    BY <1>1, <1>2 DEF BreakWithin
  <1>4. \A s \in 1..Len(f) : Begins(g, s) <=> Begins(f, s)
    BY <1>1, <1>2, <1>3 DEF Begins
  <1>5. ASSUME NEW s \in 1..Len(f)
        PROVE  BreakWithin(g, s, Len(f) + 2) <=>
                 BreakWithin(f, s, Len(f) + 1) \/ Breaks(g, Len(f) + 1)
    <2>1. \A b \in (s + 1)..(Len(f) + 1) : b = Len(f) + 1 \/ b \in (s + 1)..Len(f)
      BY <1>1
    <2>2. Len(f) + 1 \in (s + 1)..(Len(f) + 1) /\ (Len(f) + 2) - 1 = Len(f) + 1
          /\ (Len(f) + 1) - 1 = Len(f)
          /\ \A b \in (s + 1)..Len(f) : b \in 1..Len(f) /\ b \in (s + 1)..(Len(f) + 1)
      BY <1>1
    <2>3. QED
      BY <1>2, <2>1, <2>2 DEF BreakWithin
  <1>6. \A s, e \in 1..Len(f) : Spans(g, s, e) <=> Spans(f, s, e)
    BY <1>1, <1>2, <1>3, <1>4 DEF Spans
  <1>7. QED
    BY <1>3, <1>4, <1>5, <1>6

(* At most one closure is not over.                                        *)
LEMMA OneOpen ==
  ASSUME NEW f \in Seq(Frame), NEW s \in DOMAIN f, NEW r \in DOMAIN f, OpenAt(f, s), OpenAt(f, r)
  PROVE  s = r
  <1>1. ASSUME NEW p \in DOMAIN f, NEW q \in DOMAIN f, OpenAt(f, p), OpenAt(f, q), p < q
        PROVE  FALSE
    <2>1. DOMAIN f = 1..Len(f) /\ Len(f) \in Nat
      OBVIOUS
    <2>2. BreakWithin(f, p, q)
      BY <1>1, <2>1 DEF OpenAt, Begins
    <2>3. QED
      BY <1>1, <2>1, <2>2 DEF OpenAt, BreakWithin
  <1>2. QED
    BY <1>1

(* With frame x the history is g, and the closure z is over.               *)
EndsWith(f, x, g, z) ==
  \E s \in DOMAIN f : /\ OpenAt(f, s) /\ x.c \in 0..OpenThreshold
                      /\ x.t - f[s].t >= MinDuration
                      /\ z = EventOf(g, s, Len(f) + 1)

(* The events of a history that is longer by one frame: those there were,  *)
(* and the closure that was not over, if the frame opens the eyes.         *)
LEMMA ExpectedAppend ==
  ASSUME NEW f \in Seq(Frame), NEW x \in Frame, NEW g, g = Append(f, x), NEW z
  PROVE  z \in ExpectedEvents(g) <=> z \in ExpectedEvents(f) \/ EndsWith(f, x, g, z)
  <1> DEFINE n == Len(f)
  <1>1. /\ g \in Seq(Frame) /\ n \in Nat /\ DOMAIN f = 1..n /\ DOMAIN g = 1..(n + 1)
        /\ g[n + 1] = x /\ \A i \in 1..n : g[i] = f[i]
    BY AppendLemma
  <1> HIDE DEF n
  <1>2. ASSUME NEW s \in 1..n, NEW e \in 1..n
        PROVE  (Reports(g, s, e) <=> Reports(f, s, e)) /\ EventOf(g, s, e) = EventOf(f, s, e)
    <2>1. Spans(g, s, e) <=> Spans(f, s, e)
      BY BeginsLemma DEF n
    <2>2. g[s] = f[s] /\ g[e] = f[e]
      BY <1>1
    <2>3. {g[i].c : i \in s..e} = {f[i].c : i \in s..e}
      <3>1. \A i \in s..e : g[i] = f[i]
        BY <1>1
      <3>2. QED
        BY <3>1
    <2>4. PeakOf(g, s, e) = PeakOf(f, s, e)
      BY <2>3 DEF PeakOf
    <2>5. QED
      BY <2>1, <2>2, <2>4 DEF Reports, EventOf
  <1>3. ASSUME NEW s \in 1..n
        PROVE  Reports(g, s, n + 1) <=>
                 OpenAt(f, s) /\ x.c \in 0..OpenThreshold /\ x.t - f[s].t >= MinDuration
    <2>1. Begins(g, s) <=> Begins(f, s)
      BY BeginsLemma DEF n
    <2>2. BreakWithin(g, s, n + 1) <=> BreakWithin(f, s, n + 1)
      <3>1. s \in 1..(n + 1) /\ n + 1 \in 1..(n + 1)
        BY <1>1
      <3>2. QED
        BY <3>1, BeginsLemma DEF n
    <2>3. Opens(g, n + 1) <=> x.c \in 0..OpenThreshold
      BY <1>1 DEF Opens
    <2>4. QED
      BY <1>1, <2>1, <2>2, <2>3 DEF Reports, Spans, OpenAt, n
  <1>4. ASSUME NEW s \in 1..(n + 1), NEW e \in 1..(n + 1), Reports(g, s, e)
        PROVE  s \in 1..n
    BY <1>1, <1>4 DEF Reports, Spans
  <1>5. \A s, e \in 1..(n + 1) : s \in 1..n => e \in 1..n \/ e = n + 1
    BY <1>1
  <1>6. \A s \in 1..n : s \in 1..(n + 1)
    BY <1>1
  <1>7. n + 1 \in 1..(n + 1)
    BY <1>1
  <1>8. CASE z \in ExpectedEvents(g)
    <2>1. PICK s \in 1..(n + 1), e \in 1..(n + 1) : Reports(g, s, e) /\ z = EventOf(g, s, e)
      <3>1. \E s, e \in DOMAIN g : Reports(g, s, e) /\ z = EventOf(g, s, e)
        BY <1>8, ExpectedLemma
      <3>2. QED
        BY <1>1, <3>1
    <2>2. s \in 1..n
      BY <1>4, <2>1
    <2>3. CASE e \in 1..n
      <3>1. Reports(f, s, e) /\ z = EventOf(f, s, e)
        BY <1>2, <2>1, <2>2, <2>3
      <3>2. z \in ExpectedEvents(f)
        BY <1>1, <2>2, <2>3, <3>1, ExpectedLemma
      <3>3. QED
        BY <1>8, <3>2
    <2>4. CASE e = n + 1
      <3>1. Reports(g, s, n + 1) /\ z = EventOf(g, s, n + 1)
        BY <2>1, <2>4
      <3>2. OpenAt(f, s) /\ x.c \in 0..OpenThreshold /\ x.t - f[s].t >= MinDuration
        BY <1>3, <2>2, <3>1
      <3>3. s \in DOMAIN f /\ z = EventOf(g, s, Len(f) + 1)
        BY <1>1, <2>2, <3>1 DEF n
      <3>4. QED
        BY <1>8, <3>2, <3>3 DEF EndsWith
    <2>5. QED
      BY <1>5, <2>2, <2>3, <2>4
  <1>9. ASSUME z \in ExpectedEvents(f) PROVE z \in ExpectedEvents(g)
    <2>1. PICK s \in 1..n, e \in 1..n : Reports(f, s, e) /\ z = EventOf(f, s, e)
      BY <1>1, <1>9, ExpectedLemma
    <2>2. Reports(g, s, e) /\ z = EventOf(g, s, e)
      BY <1>2, <2>1
    <2>3. QED
      BY <1>1, <1>6, <2>2, ExpectedLemma
  <1>10. ASSUME NEW s \in 1..n, OpenAt(f, s), x.c \in 0..OpenThreshold,
                x.t - f[s].t >= MinDuration, z = EventOf(g, s, n + 1)
         PROVE  z \in ExpectedEvents(g)
    <2>1. Reports(g, s, n + 1)
      BY <1>3, <1>10
    <2>2. QED
      BY <1>1, <1>6, <1>7, <1>10, <2>1, ExpectedLemma
  <1>11. QED
    BY <1>1, <1>8, <1>9, <1>10 DEF n, EndsWith

(* What the frame that was just logged is.                                 *)
LEMMA NewFrame ==
  ASSUME NEW f \in Seq(Frame), NEW x \in Frame, NEW g, g = Append(f, x)
  PROVE  /\ Closes(g, Len(f) + 1) <=> x.c >= CloseThreshold
         /\ Opens(g, Len(f) + 1) <=> x.c \in 0..OpenThreshold
         /\ Lost(g, Len(f) + 1) <=>
              /\ x.c = NoFace
              /\ \E k \in Faces(f) : x.t - f[k].t > MaxFaceGap /\ \A l \in Faces(f) : l <= k
  <1> DEFINE n == Len(f)
  <1>1. n \in Nat /\ g[n + 1] = x /\ \A i \in 1..n : g[i] = f[i]
    BY AppendLemma
  <1>2. Closes(g, n + 1) <=> x.c >= CloseThreshold
    BY <1>1 DEF Closes
  <1>3. Opens(g, n + 1) <=> x.c \in 0..OpenThreshold
    BY <1>1 DEF Opens
  <1>4. Lost(g, n + 1) <=>
              /\ x.c = NoFace
              /\ \E k \in Faces(f) : x.t - f[k].t > MaxFaceGap /\ \A l \in Faces(f) : l <= k
    <2>1. CASE x.c # NoFace
      BY <1>1, <2>1 DEF Lost
    <2>2. CASE x.c = NoFace
      <3>1. Faces(g) = Faces(f) /\ Faces(f) \subseteq 1..n
        <4>1. x.c \notin 0..Full
          BY <2>2, ConfigAssumption DEF NoFace
        <4>2. QED
          BY <4>1, FacesLemma
      <3> HIDE DEF n
      <3>2. \A k \in Faces(f) : k \in 1..n /\ k < n + 1 /\ g[k] = f[k]
        <4>1. \A k \in Faces(f) : k \in 1..n
          BY <3>1
        <4>2. \A k \in 1..n : k < n + 1
          BY <1>1
        <4>3. \A k \in 1..n : g[k] = f[k]
          BY <1>1
        <4>4. QED
          BY <4>1, <4>2, <4>3
      <3>3. \A k, l \in 1..n : (k < l /\ l < n + 1) <=> ~(l <= k)
        BY <1>1
      <3>4. QED
        BY <1>1, <2>2, <3>1, <3>2, <3>3 DEF Lost
    <2>3. QED
      BY <2>1, <2>2
  <1>5. QED
    BY <1>2, <1>3, <1>4

(* What the frame does to the closures before it.                          *)
LEMMA OpenAppend ==
  ASSUME NEW f \in Seq(Frame), NEW x \in Frame, NEW g, g = Append(f, x), NEW s \in DOMAIN f
  PROVE  /\ OpenAt(g, s) <=> OpenAt(f, s) /\ ~Breaks(g, Len(f) + 1)
         /\ Closes(g, s) <=> Closes(f, s)
         /\ BreakWithin(g, s, Len(g) + 1) <=>
              BreakWithin(f, s, Len(f) + 1) \/ Breaks(g, Len(f) + 1)
  <1>1. s \in 1..Len(f) /\ Len(g) = Len(f) + 1 /\ Len(f) \in Nat
    BY AppendLemma
  <1>2. Len(g) + 1 = Len(f) + 2
    BY <1>1
  <1>3. /\ Begins(g, s) <=> Begins(f, s)
        /\ BreakWithin(g, s, Len(f) + 2) <=>
             BreakWithin(f, s, Len(f) + 1) \/ Breaks(g, Len(f) + 1)
    BY <1>1, BeginsLemma
  <1>4. QED
    BY <1>1, <1>2, <1>3, BreaksLemma DEF OpenAt

(* A closing frame begins a closure when there is none.                    *)
LEMMA OpenNew ==
  ASSUME NEW f \in Seq(Frame), NEW x \in Frame, NEW g, g = Append(f, x),
         x.c >= CloseThreshold,
         \A s \in DOMAIN f : Closes(f, s) => BreakWithin(f, s, Len(f) + 1)
  PROVE  OpenAt(g, Len(f) + 1)
  <1> DEFINE n == Len(f)
  <1>1. n \in Nat /\ DOMAIN f = 1..n /\ Len(g) = n + 1
    BY AppendLemma
  <1>2. Closes(g, n + 1)
    BY NewFrame
  <1>3. ASSUME NEW k \in 1..n, Closes(g, k) PROVE BreakWithin(g, k, n + 1)
    <2>1. BreakWithin(f, k, n + 1)
      BY <1>1, <1>3, BreaksLemma
    <2>2. k \in 1..(n + 1) /\ n + 1 \in 1..(n + 1)
      BY <1>1
    <2>3. QED
      BY <2>1, <2>2, BeginsLemma
  <1>4. ~BreakWithin(g, n + 1, Len(g) + 1)
    BY <1>1 DEF BreakWithin
  <1>5. (n + 1) - 1 = n
    BY <1>1
  <1>6. Begins(g, n + 1)
    BY <1>2, <1>3, <1>5 DEF Begins
  <1>7. QED
    BY <1>4, <1>6 DEF OpenAt

(* The peak of a closure after one more frame with a face.                 *)
LEMMA PeakAppend ==
  ASSUME NEW f \in Seq(Frame), NEW x \in Frame, NEW g, g = Append(f, x), NEW s \in DOMAIN f,
         NEW p \in Nat, IsPeak(f, s, Len(f), p)
  PROVE  IsPeak(g, s, Len(f) + 1, Larger(p, x.c))
  <1> DEFINE n == Len(f)
  <1>1. n \in Nat /\ s \in 1..n /\ g[n + 1] = x /\ \A i \in 1..n : g[i] = f[i] /\ f[i] \in Frame
    BY AppendLemma
  <1>2. \A y \in Frame : y.c \in Int
    BY ConfigAssumption DEF Frame, NoFace, Ended
  <1> HIDE DEF n
  <1>3. Larger(p, x.c) \in Int /\ p <= Larger(p, x.c) /\ x.c <= Larger(p, x.c)
        /\ (Larger(p, x.c) = p \/ Larger(p, x.c) = x.c)
    BY <1>2 DEF Larger
  <1>4. \A i \in s..(n + 1) : i = n + 1 \/ i \in s..n
    BY <1>1
  <1>5. \A i \in s..n : i \in 1..n /\ i \in s..(n + 1)
    BY <1>1
  <1>6. n + 1 \in s..(n + 1)
    BY <1>1
  <1>7. (\E i \in s..n : f[i].c = p) /\ (\A i \in s..n : f[i].c <= p)
    BY DEF IsPeak, n
  <1>8. \E i \in s..(n + 1) : g[i].c = Larger(p, x.c)
    BY <1>1, <1>3, <1>5, <1>6, <1>7
  <1>9. ASSUME NEW i \in s..(n + 1) PROVE g[i].c <= Larger(p, x.c)
    <2>1. CASE i = n + 1
      BY <1>1, <1>3, <2>1
    <2>2. CASE i \in s..n
      <3>1. g[i].c = f[i].c /\ f[i].c \in Int /\ f[i].c <= p
        BY <1>1, <1>2, <1>5, <1>7, <2>2
      <3>2. QED
        BY <1>3, <3>1
    <2>3. QED
      BY <1>4, <2>1, <2>2
  <1>10. QED
    BY <1>8, <1>9 DEF IsPeak, n

(* LastFace after one more frame.                                          *)
LEMMA LastFaceAppend ==
  ASSUME TypeOK, LastFace, NEW t \in Nat, NEW c \in 0..Full \cup {NoFace, Ended},
         Log(t, c), lastSeen' = IF c \in 0..Full THEN t ELSE lastSeen
  PROVE  LastFace'
  <1> DEFINE x == [t |-> t, c |-> c]
             n == Len(frames)
  <1>1. frames \in Seq(Frame) /\ x \in Frame /\ frames' = Append(frames, x)
    BY DEF TypeOK, Frame, Log
  <1>2. /\ n \in Nat /\ frames'[n + 1] = x /\ \A i \in 1..n : frames'[i] = frames[i]
    BY <1>1, AppendLemma
  <1>3. /\ Faces(frames) \subseteq 1..n
        /\ c \in 0..Full => Faces(frames') = Faces(frames) \cup {n + 1}
        /\ c \notin 0..Full => Faces(frames') = Faces(frames)
    <2>1. x.c = c
      OBVIOUS
    <2> HIDE DEF x
    <2>2. QED
      BY <1>1, <2>1, FacesLemma
  <1>4. CASE c \in 0..Full
    <2>1. n + 1 \in Faces(frames') /\ lastSeen' = frames'[n + 1].t
          /\ \A l \in Faces(frames') : l <= n + 1
      BY <1>2, <1>3, <1>4
    <2>2. QED
      BY <2>1 DEF LastFace
  <1>5. CASE c \notin 0..Full
    <2>1. Faces(frames') = Faces(frames) /\ lastSeen' = lastSeen
      BY <1>3, <1>5
    <2>2. QED
      BY <1>2, <1>3, <2>1 DEF LastFace
  <1>6. QED
    BY <1>4, <1>5

(* A frame that ends no closure, or one too short, is no event.            *)
LEMMA QuietAppend ==
  ASSUME NEW x \in Frame, frames \in Seq(Frame), frames' = Append(frames, x), UNCHANGED events,
         MatchesReference,
         \A s \in DOMAIN frames : ~(/\ OpenAt(frames, s) /\ x.c \in 0..OpenThreshold
                                    /\ x.t - frames[s].t >= MinDuration)
  PROVE  MatchesReference'
  <1>1. \A z : z \in ExpectedEvents(frames') <=> z \in ExpectedEvents(frames)
    <2> TAKE z
    <2>1. ~EndsWith(frames, x, frames', z)
      BY DEF EndsWith
    <2>2. QED
      BY <2>1, ExpectedAppend
  <1>2. ExpectedEvents(frames') = ExpectedEvents(frames)
    BY <1>1
  <1>3. QED
    BY <1>2 DEF MatchesReference

(* A frame that is logged makes the history longer by that frame.          *)
LEMMA LoggedFrame ==
  ASSUME TypeOK, NEW t \in Nat, NEW c \in 0..Full \cup {NoFace, Ended}, Log(t, c)
  PROVE  /\ frames \in Seq(Frame) /\ [t |-> t, c |-> c] \in Frame
         /\ frames' = Append(frames, [t |-> t, c |-> c])
         /\ frames' \in Seq(Frame) /\ Len(frames) \in Nat /\ Len(frames') = Len(frames) + 1
         /\ DOMAIN frames = 1..Len(frames) /\ DOMAIN frames' = 1..(Len(frames) + 1)
         /\ \A i \in DOMAIN frames : i \in DOMAIN frames' /\ frames'[i] = frames[i]
         /\ \A i \in DOMAIN frames' : i \in DOMAIN frames \/ i = Len(frames) + 1
         /\ frames'[Len(frames) + 1] = [t |-> t, c |-> c]
         /\ Len(frames) + 1 \in DOMAIN frames'
  <1>1. frames \in Seq(Frame) /\ [t |-> t, c |-> c] \in Frame
        /\ frames' = Append(frames, [t |-> t, c |-> c])
    BY DEF TypeOK, Frame, Log
  <1>2. QED
    BY <1>1, AppendLemma

(* The open closure goes on over a frame that does not break it.           *)
LEMMA GoesOn ==
  ASSUME TypeOK, OpenClosure, Closed,
         NEW t \in Nat, NEW c \in 0..Full \cup {NoFace, Ended}, Log(t, c),
         ~Breaks(frames', Len(frames) + 1), closedSince' = closedSince, peak' = Larger(peak, c)
  PROVE  OpenClosure'
  <1> DEFINE x == [t |-> t, c |-> c]
             n == Len(frames)
  <1>1. /\ frames \in Seq(Frame) /\ x \in Frame /\ frames' = Append(frames, x)
        /\ x.c = c /\ n \in Nat /\ Len(frames') = n + 1
        /\ \A i \in DOMAIN frames : i \in DOMAIN frames' /\ frames'[i] = frames[i]
    BY LoggedFrame
  <1>2. PICK s \in DOMAIN frames : /\ OpenAt(frames, s) /\ closedSince = frames[s].t
                                   /\ IsPeak(frames, s, n, peak)
    BY DEF OpenClosure
  <1> HIDE DEF x
  <1>3. OpenAt(frames', s)
    BY <1>1, <1>2, OpenAppend
  <1>4. IsPeak(frames', s, n + 1, Larger(peak, x.c))
    <2>1. peak \in Nat
      BY ConfigAssumption DEF TypeOK
    <2>2. QED
      BY <1>1, <1>2, <2>1, PeakAppend
  <1>5. /\ s \in DOMAIN frames' /\ closedSince' = frames'[s].t
        /\ IsPeak(frames', s, Len(frames'), peak')
    BY <1>1, <1>2, <1>4
  <1>6. Closed'
    BY DEF Closed
  <1>7. QED
    BY <1>3, <1>5, <1>6 DEF OpenClosure

(* A break ends the open closure, and no later one is there.               *)
LEMMA IsOver ==
  ASSUME TypeOK, OpenClosure, NEW t \in Nat, NEW c \in 0..Full \cup {NoFace, Ended}, Log(t, c),
         c < CloseThreshold, ~Closed',
         Closed => Breaks(frames', Len(frames) + 1)
  PROVE  OpenClosure'
  <1> DEFINE x == [t |-> t, c |-> c]
             n == Len(frames)
  <1>1. /\ frames \in Seq(Frame) /\ x \in Frame /\ frames' = Append(frames, x)
        /\ x.c = c /\ n \in Nat /\ Len(frames') = n + 1
        /\ \A i \in DOMAIN frames' : i \in DOMAIN frames \/ i = n + 1
    BY LoggedFrame
  <1>2. c \in Int /\ CloseThreshold \in Int
    BY ConfigAssumption DEF NoFace, Ended
  <1> HIDE DEF x
  <1>3. ASSUME NEW s \in DOMAIN frames', Closes(frames', s)
        PROVE  BreakWithin(frames', s, Len(frames') + 1)
    <2>1. s # n + 1
      <3>1. Closes(frames', n + 1) <=> x.c >= CloseThreshold
        BY <1>1, NewFrame
      <3>2. QED
        BY <1>1, <1>2, <1>3, <3>1
    <2>2. s \in DOMAIN frames /\ Closes(frames, s)
      BY <1>1, <1>3, <2>1, OpenAppend
    <2>3. Closed \/ BreakWithin(frames, s, n + 1)
      BY <2>2 DEF OpenClosure
    <2>4. QED
      BY <1>1, <2>2, <2>3, OpenAppend
  <1>4. QED
    BY <1>3 DEF OpenClosure

(* A new closure begins.                                                   *)
LEMMA Starts ==
  ASSUME TypeOK, OpenClosure, NEW t \in Nat, NEW c \in 0..Full, Log(t, c),
         c >= CloseThreshold, ~Closed, closedSince' = t, peak' = c
  PROVE  OpenClosure'
  <1> DEFINE x == [t |-> t, c |-> c]
             n == Len(frames)
  <1>1. /\ frames \in Seq(Frame) /\ x \in Frame /\ frames' = Append(frames, x)
        /\ x.c = c /\ x.t = t /\ n \in Nat /\ Len(frames') = n + 1
        /\ n + 1 \in DOMAIN frames' /\ frames'[n + 1] = x
    BY LoggedFrame
  <1>2. \A s \in DOMAIN frames : Closes(frames, s) => BreakWithin(frames, s, n + 1)
    BY DEF OpenClosure
  <1> HIDE DEF x
  <1>3. OpenAt(frames', n + 1)
    BY <1>1, <1>2, OpenNew
  <1>4. IsPeak(frames', n + 1, n + 1, c)
    <2>1. \A i \in (n + 1)..(n + 1) : i = n + 1
      BY <1>1
    <2>2. n + 1 \in (n + 1)..(n + 1) /\ c <= c
      BY <1>1, ConfigAssumption
    <2>3. QED
      BY <1>1, <2>1, <2>2 DEF IsPeak
  <1>5. Closed'
    BY DEF Closed, Never
  <1>6. QED
    BY <1>1, <1>3, <1>4, <1>5 DEF OpenClosure

(* A face was lost for too long, as the detector and the history see it.   *)
LEMMA LostLemma ==
  ASSUME TypeOK, LastFace, NEW t \in Nat, Log(t, NoFace)
  PROVE  Breaks(frames', Len(frames) + 1) <=> lastSeen # Never /\ t - lastSeen > MaxFaceGap
  <1> DEFINE x == [t |-> t, c |-> NoFace]
             n == Len(frames)
  <1>1. /\ frames \in Seq(Frame) /\ x \in Frame /\ frames' = Append(frames, x)
        /\ x.c = NoFace /\ x.t = t /\ n \in Nat /\ frames'[n + 1] = x
    BY LoggedFrame
  <1> HIDE DEF x
  <1>2. ~Opens(frames', n + 1) /\ frames'[n + 1].c # Ended
    BY <1>1, ConfigAssumption DEF Opens, NoFace, Ended
  <1>3. Lost(frames', n + 1) <=>
          \E k \in Faces(frames) : t - frames[k].t > MaxFaceGap /\ \A l \in Faces(frames) : l <= k
    BY <1>1, NewFrame
  <1>4. CASE Faces(frames) = {}
    BY <1>2, <1>3, <1>4 DEF LastFace, Breaks
  <1>5. CASE Faces(frames) # {}
    <2>1. PICK k \in Faces(frames) : lastSeen = frames[k].t /\ \A l \in Faces(frames) : l <= k
      BY <1>5 DEF LastFace
    <2>2. \A l \in Faces(frames) : l \in Int /\ frames[l].t \in Nat
      <3>1. \A l \in Faces(frames) : l \in DOMAIN frames
        BY DEF Faces
      <3>2. \A l \in DOMAIN frames : l \in Int /\ frames[l] \in Frame
        BY <1>1
      <3>3. QED
        BY <3>1, <3>2 DEF Frame
    <2>3. \A l \in Faces(frames) : (\A j \in Faces(frames) : j <= l) => l = k
      BY <2>1, <2>2
    <2>4. lastSeen # Never
      BY <2>1, <2>2 DEF Never
    <2>5. QED
      BY <1>2, <1>3, <2>1, <2>3, <2>4 DEF Breaks
  <1>6. QED
    BY <1>4, <1>5

(* The closure that is open becomes an event when the eyes open, if it was *)
(* long enough.                                                            *)
LEMMA ReopenAppend ==
  ASSUME NEW f \in Seq(Frame), NEW x \in Frame, NEW g, g = Append(f, x), NEW s \in DOMAIN f,
         OpenAt(f, s), x.c \in 0..OpenThreshold, NEW z
  PROVE  z \in ExpectedEvents(g) <=>
           \/ z \in ExpectedEvents(f)
           \/ x.t - f[s].t >= MinDuration /\ z = EventOf(g, s, Len(f) + 1)
  <1>1. z \in ExpectedEvents(g) <=> z \in ExpectedEvents(f) \/ EndsWith(f, x, g, z)
    BY ExpectedAppend
  <1>2. \A r \in DOMAIN f : OpenAt(f, r) => r = s
    BY OneOpen
  <1>3. EndsWith(f, x, g, z) <=> x.t - f[s].t >= MinDuration /\ z = EventOf(g, s, Len(f) + 1)
    BY <1>2 DEF EndsWith
  <1>4. QED
    BY <1>1, <1>3

(* The elements of a sequence with one more.                               *)
LEMMA RangeAppend ==
  ASSUME NEW S, NEW q \in Seq(S), NEW e \in S, NEW r, r = Append(q, e)
  PROVE  \A z : z \in {r[i] : i \in DOMAIN r} <=> z \in {q[i] : i \in DOMAIN q} \/ z = e
  <1>1. /\ Len(q) \in Nat /\ DOMAIN q = 1..Len(q) /\ DOMAIN r = 1..(Len(q) + 1)
        /\ \A i \in 1..Len(q) : i \in DOMAIN r /\ r[i] = q[i]
        /\ Len(q) + 1 \in DOMAIN r /\ r[Len(q) + 1] = e
        /\ \A i \in DOMAIN r : i \in 1..Len(q) \/ i = Len(q) + 1
    OBVIOUS
  <1>2. QED
    BY <1>1

(* Every call of update() keeps the events, the open closure and what is   *)
(* known of the last face in step with the history.                        *)
LEMMA HistoryUpdate ==
  ASSUME DetectorInv, HistoryInv, NEW t \in Nat, NEW c \in Nat,
         \/ FaceLost(t) \/ BadClosure(t, c)
         \/ StillOpen(t, c) \/ StillClosed(t, c) \/ Reopens(t, c)
  PROVE  HistoryInv'
  <1> USE DEF HistoryInv
  <1>1. TypeOK
    BY DEF DetectorInv
  <1>2. CASE FaceLost(t)
    <2>1. Log(t, NoFace) /\ lastSeen' = lastSeen /\ events' = events
          /\ IF Closed /\ lastSeen # Never /\ t - lastSeen > MaxFaceGap
             THEN closedSince' = Never
             ELSE closedSince' = closedSince /\ peak' = peak
      BY <1>2 DEF FaceLost, Reset
    <2>2. NoFace \notin 0..Full /\ NoFace < CloseThreshold /\ NoFace \notin 0..OpenThreshold
      BY ConfigAssumption DEF NoFace
    <2>3. LastFace'
      BY <1>1, <2>1, <2>2, LastFaceAppend
    <2>4. MatchesReference'
      <3> DEFINE x == [t |-> t, c |-> NoFace]
      <3>1. x \in Frame /\ frames \in Seq(Frame) /\ frames' = Append(frames, x) /\ x.c = NoFace
        BY <1>1, <2>1, LoggedFrame
      <3> HIDE DEF x
      <3>2. QED
        BY <2>1, <2>2, <3>1, QuietAppend
    <2>5. Breaks(frames', Len(frames) + 1) <=> lastSeen # Never /\ t - lastSeen > MaxFaceGap
      BY <1>1, <2>1, LostLemma
    <2>6. OpenClosure'
      <3>1. CASE Closed /\ ~Breaks(frames', Len(frames) + 1)
        <4>1. peak \in Nat /\ Larger(peak, NoFace) = peak
          BY <1>1, ConfigAssumption DEF TypeOK, Larger, NoFace
        <4>2. closedSince' = closedSince /\ peak' = Larger(peak, NoFace)
          BY <2>1, <2>5, <3>1, <4>1
        <4>3. QED
          BY <1>1, <2>1, <3>1, <4>2, GoesOn
      <3>2. CASE ~Closed \/ Breaks(frames', Len(frames) + 1)
        <4>1. ~Closed'
          BY <2>1, <2>5, <3>2 DEF Closed
        <4>2. QED
          BY <1>1, <2>1, <2>2, <3>2, <4>1, IsOver
      <3>3. QED
        BY <3>1, <3>2
    <2>7. QED
      BY <2>3, <2>4, <2>6
  <1>3. CASE BadClosure(t, c)
    BY <1>3 DEF BadClosure, LastFace, OpenClosure, MatchesReference, Closed, counters
  <1>4. ASSUME Seen(t, c)
        PROVE  /\ c \in 0..Full /\ Log(t, c) /\ LastFace'
               /\ [t |-> t, c |-> c] \in Frame /\ frames \in Seq(Frame)
               /\ frames' = Append(frames, [t |-> t, c |-> c])
               /\ frames' \in Seq(Frame) /\ Len(frames) \in Nat
               /\ Breaks(frames', Len(frames) + 1) <=> c <= OpenThreshold
    <2> DEFINE x == [t |-> t, c |-> c]
    <2>1. c \in 0..Full /\ Log(t, c) /\ lastSeen' = t
      BY <1>4 DEF Seen
    <2>2. LastFace'
      BY <1>1, <2>1, LastFaceAppend
    <2>3. /\ x \in Frame /\ frames \in Seq(Frame) /\ frames' = Append(frames, x) /\ x.c = c
          /\ frames' \in Seq(Frame) /\ Len(frames) \in Nat /\ frames'[Len(frames) + 1] = x
      BY <1>1, <2>1, LoggedFrame
    <2> HIDE DEF x
    <2>4. /\ Opens(frames', Len(frames) + 1) <=> c <= OpenThreshold
          /\ ~Lost(frames', Len(frames) + 1) /\ frames'[Len(frames) + 1].c # Ended
      <3>1. c # NoFace /\ c # Ended /\ (c \in 0..OpenThreshold <=> c <= OpenThreshold)
        BY <2>1, ConfigAssumption DEF NoFace, Ended
      <3>2. QED
        BY <2>3, <3>1, NewFrame
    <2>5. QED
      BY <2>1, <2>2, <2>3, <2>4 DEF Breaks, x
  <1>5. CASE StillOpen(t, c)
    <2>1. Seen(t, c) /\ ~Closed /\ events' = events
      BY <1>5 DEF StillOpen
    <2>2. MatchesReference'
      <3>1. \A s \in DOMAIN frames : ~OpenAt(frames, s)
        BY <2>1 DEF OpenClosure, OpenAt, Begins
      <3>2. QED
        BY <1>4, <2>1, <3>1, QuietAppend
    <2>3. OpenClosure'
      <3>1. CASE c >= CloseThreshold
        BY <1>1, <1>4, <1>5, <2>1, <3>1, Starts DEF StillOpen
      <3>2. CASE c < CloseThreshold
        <4>1. ~Closed'
          BY <1>5, <2>1, <3>2, ConfigAssumption DEF StillOpen, Closed
        <4>2. QED
          BY <1>1, <1>4, <2>1, <3>2, <4>1, IsOver
      <3>3. QED
        BY <3>1, <3>2, ConfigAssumption
    <2>4. QED
      BY <1>4, <2>1, <2>2, <2>3
  <1>6. CASE StillClosed(t, c)
    <2>1. Seen(t, c) /\ Closed /\ events' = events /\ c > OpenThreshold
          /\ peak' = Larger(peak, c) /\ closedSince' = closedSince
      BY <1>6 DEF StillClosed
    <2>2. c \notin 0..OpenThreshold /\ ~(c <= OpenThreshold)
      BY <2>1, ConfigAssumption
    <2>3. MatchesReference'
      <3> DEFINE x == [t |-> t, c |-> c]
      <3>1. x \in Frame /\ frames \in Seq(Frame) /\ frames' = Append(frames, x) /\ x.c = c
        BY <1>4, <2>1
      <3> HIDE DEF x
      <3>2. QED
        BY <2>1, <2>2, <3>1, QuietAppend
    <2>4. OpenClosure'
      BY <1>1, <1>4, <2>1, <2>2, GoesOn
    <2>5. QED
      BY <1>4, <2>1, <2>3, <2>4
  <1>7. CASE Reopens(t, c)
    <2> DEFINE x == [t |-> t, c |-> c]
               n == Len(frames)
               p == Larger(peak, c)
    <2>1. Seen(t, c) /\ Closed /\ c <= OpenThreshold /\ closedSince' = Never /\ Emit(t, p)
      BY <1>7 DEF Reopens, Reset
    <2>2. OpenClosure'
      <3>1. c < CloseThreshold /\ ~Closed'
        BY <2>1, ConfigAssumption DEF Closed
      <3>2. QED
        BY <1>1, <1>4, <2>1, <3>1, IsOver
    <2>3. PICK s \in DOMAIN frames : /\ OpenAt(frames, s) /\ closedSince = frames[s].t
                                     /\ IsPeak(frames, s, n, peak)
      BY <2>1 DEF OpenClosure
    <2>4. /\ frames' \in Seq(Frame) /\ s \in DOMAIN frames' /\ n + 1 \in DOMAIN frames'
          /\ frames'[s] = frames[s] /\ frames'[n + 1] = x /\ x.t = t /\ x.c = c
          /\ x \in Frame /\ frames \in Seq(Frame) /\ frames' = Append(frames, x)
      BY <1>1, <1>4, <2>1, LoggedFrame
    <2> HIDE DEF x, n
    <2>5. PeakOf(frames', s, n + 1) = p
      <3>1. peak \in Nat
        BY <1>1, ConfigAssumption DEF TypeOK
      <3>2. IsPeak(frames', s, n + 1, Larger(peak, x.c))
        BY <2>3, <2>4, <3>1, PeakAppend DEF n
      <3>3. IsPeak(frames', s, n + 1, p)
        BY <2>4, <3>2
      <3>4. QED
        BY <2>4, <3>3, PeakLemma
    <2>6. EventOf(frames', s, n + 1) =
            [kind |-> IF t - closedSince <= MaxDuration THEN "blink" ELSE "long_closure",
             start |-> closedSince, end |-> t, peak |-> p]
      BY <2>3, <2>4, <2>5 DEF EventOf
    <2>7. \A z : z \in ExpectedEvents(frames') <=>
             \/ z \in ExpectedEvents(frames)
             \/ t - closedSince >= MinDuration /\ z = EventOf(frames', s, n + 1)
      <3>1. x.c \in 0..OpenThreshold
        BY <2>1, <2>4, ConfigAssumption
      <3>2. x.t - frames[s].t = t - closedSince
        BY <2>3, <2>4
      <3>3. TAKE z
      <3>4. x \in Frame /\ frames \in Seq(Frame) /\ frames' = Append(frames, x)
            /\ s \in DOMAIN frames /\ OpenAt(frames, s)
        BY <2>3, <2>4
      <3>5. z \in ExpectedEvents(frames') <=>
              \/ z \in ExpectedEvents(frames)
              \/ x.t - frames[s].t >= MinDuration /\ z = EventOf(frames', s, Len(frames) + 1)
        BY <3>1, <3>4, ReopenAppend
      <3>6. QED
        BY <3>2, <3>5 DEF n
    <2>8. MatchesReference'
      <3>1. CASE t - closedSince < MinDuration /\ events' = events
        <4>1. ~(t - closedSince >= MinDuration)
          BY <1>1, <3>1, Numbers, ConfigAssumption
        <4>2. ExpectedEvents(frames') = ExpectedEvents(frames)
          BY <2>7, <4>1
        <4>3. QED
          BY <3>1, <4>2 DEF MatchesReference
      <3>2. ASSUME NEW kind, Returns(kind, t, p), t - closedSince >= MinDuration,
                   kind = IF t - closedSince <= MaxDuration THEN "blink" ELSE "long_closure"
            PROVE  MatchesReference'
        <4> DEFINE e == EventOf(frames', s, n + 1)
        <4>1. events' = Append(events, e) /\ events \in Seq(Event)
          BY <1>1, <2>6, <3>2 DEF Returns, TypeOK
        <4> HIDE DEF e
        <4>2. \A z : z \in {events'[i] : i \in DOMAIN events'} <=>
                       z \in {events[i] : i \in DOMAIN events} \/ z = e
          <5>1. e \in Event
            <6>1. closedSince \in Nat /\ p \in Nat
              BY <1>1, <2>1, ConfigAssumption DEF TypeOK, Closed, Larger
            <6>2. QED
              BY <2>6, <6>1 DEF e, Event, Kinds
          <5>2. QED
            BY <4>1, <5>1, RangeAppend
        <4>3. \A z : z \in ExpectedEvents(frames') <=> z \in ExpectedEvents(frames) \/ z = e
          BY <2>7, <3>2 DEF e
        <4>4. {events'[i] : i \in DOMAIN events'} = ExpectedEvents(frames')
          BY <4>2, <4>3 DEF MatchesReference
        <4>5. QED
          BY <4>4 DEF MatchesReference
      <3>3. closedSince \in Int /\ MinDuration \in Nat /\ MaxDuration \in Nat
        BY <1>1, Numbers, ConfigAssumption
      <3>4. CASE t - closedSince > MaxDuration /\ t - closedSince >= MinDuration
                 /\ Returns("long_closure", t, p)
        BY <3>2, <3>3, <3>4
      <3>5. CASE t - closedSince \in MinDuration..MaxDuration /\ Returns("blink", t, p)
        BY <3>2, <3>3, <3>5
      <3>6. QED
        BY <2>1, <3>1, <3>4, <3>5 DEF Emit
    <2>9. QED
      BY <1>4, <2>1, <2>2, <2>8
  <1>8. QED
    BY <1>2, <1>3, <1>5, <1>6, <1>7

(* Before the first frame there is nothing to report.                      *)
LEMMA HistoryInit == Init => HistoryInv
  <1> SUFFICES ASSUME Init PROVE HistoryInv
    OBVIOUS
  <1>1. frames = <<>> /\ events = <<>> /\ DOMAIN frames = {} /\ DOMAIN events = {}
        /\ closedSince = Never /\ lastSeen = Never
    BY DEF Init
  <1>2. LastFace /\ OpenClosure
    BY <1>1 DEF LastFace, OpenClosure, Faces, Closed
  <1>3. ExpectedEvents(frames) = {}
    <2>1. \A z : z \notin ExpectedEvents(frames)
      BY <1>1, ExpectedLemma
    <2>2. QED
      BY <2>1
  <1>4. QED
    BY <1>1, <1>2, <1>3 DEF HistoryInv, MatchesReference

(* finish() gives up the open closure and reports nothing.                 *)
LEMMA HistoryFinish == ASSUME DetectorInv, HistoryInv, Finish PROVE HistoryInv'
  <1> USE DEF HistoryInv
  <1>1. TypeOK /\ lastT \in Nat /\ Closed
    BY ConfigAssumption DEF Finish, DetectorInv, Past, TypeOK, Closed, Never
  <1>2. Log(lastT, Ended) /\ lastSeen' = lastSeen /\ events' = events /\ closedSince' = Never
    BY DEF Finish, Reset
  <1>3. Ended \notin 0..Full /\ Ended \notin 0..OpenThreshold /\ Ended < CloseThreshold
    BY ConfigAssumption DEF Ended
  <1> DEFINE x == [t |-> lastT, c |-> Ended]
  <1>4. /\ x \in Frame /\ frames \in Seq(Frame) /\ frames' = Append(frames, x) /\ x.c = Ended
        /\ frames'[Len(frames) + 1] = x
    BY <1>1, <1>2, LoggedFrame
  <1> HIDE DEF x
  <1>5. LastFace'
    BY <1>1, <1>2, <1>3, LastFaceAppend
  <1>6. MatchesReference'
    BY <1>2, <1>3, <1>4, QuietAppend
  <1>7. Breaks(frames', Len(frames) + 1)
    BY <1>4 DEF Breaks
  <1>8. OpenClosure'
    BY <1>1, <1>2, <1>3, <1>7, IsOver DEF Closed
  <1>9. QED
    BY <1>5, <1>6, <1>8

(* HistoryInv, with DetectorInv, is inductive.                             *)
LEMMA HistoryStep == DetectorInv /\ HistoryInv /\ [Next]_vars => HistoryInv'
  <1> SUFFICES ASSUME DetectorInv, HistoryInv, [Next]_vars PROVE HistoryInv'
    OBVIOUS
  <1>1. ASSUME NEW t \in Times, FaceLost(t) PROVE HistoryInv'
    BY <1>1, HistoryUpdate, InputAssumption
  <1>2. ASSUME NEW t \in Times, NEW c \in Closures,
               BadClosure(t, c) \/ StillOpen(t, c) \/ StillClosed(t, c) \/ Reopens(t, c)
        PROVE  HistoryInv'
    BY <1>2, HistoryUpdate, InputAssumption
  <1>3. CASE Finish
    BY <1>3, HistoryFinish
  <1>4. CASE UNCHANGED vars
    BY <1>4 DEF vars, HistoryInv, LastFace, OpenClosure, Closed, MatchesReference
  <1>5. QED
    BY <1>1, <1>2, <1>3, <1>4 DEF Next

(* The detector reports the closures of the frame history, each once, with *)
(* its own beginning, end, peak and kind, and no others.                   *)
THEOREM MatchesReferenceHolds == Spec => []MatchesReference
  <1>1. Init => HistoryInv
    BY HistoryInit
  <1>2. DetectorInv /\ HistoryInv /\ [Next]_vars => HistoryInv'
    BY HistoryStep
  <1>3. HistoryInv => MatchesReference
    BY DEF HistoryInv
  <1>4. QED
    BY <1>1, <1>2, <1>3, DetectorInvHolds, PTL DEF Spec

-----------------------------------------------------------------------------
(* What the detector does promise about a face that is lost                *)

(* Frames come in the order of their times; only finish() repeats one.     *)
InOrder ==
  /\ \A i, k \in DOMAIN frames : i < k => frames[i].t <= frames[k].t
  /\ \A i \in DOMAIN frames : frames[i].t <= lastT

(* No event spans a frame without a face that is more than MaxFaceGap after*)
(* the last sighting (blink.py:75-82). Between this frame and the next     *)
(* sighting any time may pass: that is how NoEventAcrossGap is violated.   *)
GapsTolerated ==
  \A n \in DOMAIN events, p \in Faces(frames), l \in DOMAIN frames :
    /\ p < l /\ \A k \in (p + 1)..l : frames[k].c = NoFace
    /\ events[n].start <= frames[p].t /\ frames[l].t < events[n].end
    => frames[l].t - frames[p].t <= MaxFaceGap

(* The times of the frames are times.                                      *)
LEMMA TimesOfFrames ==
  ASSUME TypeOK
  PROVE  /\ Len(frames) \in Nat /\ DOMAIN frames = 1..Len(frames)
         /\ \A i \in DOMAIN frames : frames[i].t \in Nat
  <1>1. frames \in Seq(Frame)
    BY DEF TypeOK, Frame
  <1>2. \A y \in Frame : y.t \in Nat
    BY DEF Frame
  <1>3. QED
    BY <1>1, <1>2

(* InOrder after one more frame.                                           *)
LEMMA InOrderAppend ==
  ASSUME TypeOK, InOrder, NEW t \in Nat, NEW c \in 0..Full \cup {NoFace, Ended},
         Log(t, c), lastT <= t, lastT' = t
  PROVE  InOrder'
  <1>1. /\ \A i \in DOMAIN frames' : i \in DOMAIN frames \/ i = Len(frames) + 1
        /\ \A i \in DOMAIN frames : frames'[i] = frames[i] /\ i \in 1..Len(frames)
        /\ frames'[Len(frames) + 1].t = t /\ Len(frames) \in Nat
    <2> DEFINE x == [t |-> t, c |-> c]
    <2>1. /\ Len(frames) \in Nat /\ DOMAIN frames = 1..Len(frames)
          /\ \A i \in DOMAIN frames' : i \in DOMAIN frames \/ i = Len(frames) + 1
          /\ \A i \in DOMAIN frames : frames'[i] = frames[i]
          /\ frames'[Len(frames) + 1] = x
      BY LoggedFrame
    <2>2. x.t = t
      OBVIOUS
    <2> HIDE DEF x
    <2>3. QED
      BY <2>1, <2>2
  <1>2. \A i \in DOMAIN frames : frames[i].t \in Nat /\ frames[i].t <= t
    BY TimesOfFrames DEF TypeOK, InOrder, Never
  <1>3. ASSUME NEW i \in DOMAIN frames', NEW k \in DOMAIN frames', i < k
        PROVE  frames'[i].t <= frames'[k].t
    BY <1>1, <1>2, <1>3 DEF InOrder
  <1>4. ASSUME NEW i \in DOMAIN frames' PROVE frames'[i].t <= lastT'
    BY <1>1, <1>2
  <1>5. QED
    BY <1>3, <1>4 DEF InOrder

(* Every call of update() keeps the frames in order, as it refuses a time  *)
(* that does not increase.                                                 *)
LEMMA InOrderUpdate ==
  ASSUME TypeOK, InOrder, NEW t \in Nat, NEW c \in Nat,
         \/ FaceLost(t) \/ BadClosure(t, c)
         \/ StillOpen(t, c) \/ StillClosed(t, c) \/ Reopens(t, c)
  PROVE  InOrder'
  <1>1. lastT <= t /\ lastT' = t
    BY DEF FaceLost, BadClosure, StillOpen, StillClosed, Reopens, Seen, Advances, TypeOK, Never
  <1>2. CASE FaceLost(t)
    BY <1>1, <1>2, InOrderAppend DEF FaceLost
  <1>3. CASE BadClosure(t, c)
    BY <1>1, <1>3, TimesOfFrames DEF BadClosure, InOrder, TypeOK, Never
  <1>4. CASE StillOpen(t, c) \/ StillClosed(t, c) \/ Reopens(t, c)
    BY <1>1, <1>4, InOrderAppend DEF StillOpen, StillClosed, Reopens, Seen
  <1>5. QED
    BY <1>2, <1>3, <1>4

(* InOrder is inductive.                                                   *)
LEMMA InOrderStep == DetectorInv /\ InOrder /\ [Next]_vars => InOrder'
  <1> SUFFICES ASSUME DetectorInv, InOrder, [Next]_vars PROVE InOrder'
    OBVIOUS
  <1>1. TypeOK
    BY DEF DetectorInv
  <1>2. ASSUME NEW t \in Times, FaceLost(t) PROVE InOrder'
    BY <1>1, <1>2, InOrderUpdate, InputAssumption
  <1>3. ASSUME NEW t \in Times, NEW c \in Closures,
               BadClosure(t, c) \/ StillOpen(t, c) \/ StillClosed(t, c) \/ Reopens(t, c)
        PROVE  InOrder'
    BY <1>1, <1>3, InOrderUpdate, InputAssumption
  <1>4. CASE Finish
    <2>1. lastT \in Nat
      BY <1>4, ConfigAssumption DEF Finish, DetectorInv, Past, TypeOK, Closed, Never
    <2>2. Log(lastT, Ended) /\ lastT <= lastT /\ lastT' = lastT
      BY <1>4, <2>1 DEF Finish
    <2>3. QED
      BY <1>1, <2>1, <2>2, InOrderAppend
  <1>5. CASE UNCHANGED vars
    BY <1>5 DEF vars, InOrder
  <1>6. QED
    BY <1>2, <1>3, <1>4, <1>5 DEF Next

(* A frame without a face that a closure spans is not long after the last  *)
(* sighting, or it would have broken the closure.                          *)
LEMMA SpannedGap ==
  ASSUME TypeOK, InOrder,
         NEW s \in DOMAIN frames, NEW e \in DOMAIN frames, Spans(frames, s, e),
         NEW p \in Faces(frames), NEW l \in DOMAIN frames,
         p < l, \A k \in (p + 1)..l : frames[k].c = NoFace,
         frames[s].t <= frames[p].t, frames[l].t < frames[e].t
  PROVE  frames[l].t - frames[p].t <= MaxFaceGap
  <1>1. /\ Len(frames) \in Nat /\ DOMAIN frames = 1..Len(frames)
        /\ p \in DOMAIN frames
        /\ \A i \in DOMAIN frames : frames[i].t \in Nat
    BY TimesOfFrames DEF Faces
  <1>2. frames[s].c # NoFace /\ s < e
    BY ConfigAssumption DEF Spans, Begins, Closes, NoFace
  <1>3. l < e
    BY <1>1 DEF InOrder
  <1>4. CASE p < s
    <2>1. s \notin (p + 1)..l
      BY <1>2
    <2>2. l < s
      BY <1>1, <1>4, <2>1
    <2>3. frames[l].t <= frames[s].t
      BY <2>2 DEF InOrder
    <2>4. QED
      BY <1>1, <2>3, ConfigAssumption
  <1>5. CASE s <= p /\ frames[l].t - frames[p].t > MaxFaceGap
    <2>1. frames[l].c = NoFace
      BY <1>1
    <2>2. \A i \in Faces(frames) : ~(p < i /\ i < l)
      <3>1. ASSUME NEW i \in Faces(frames), p < i, i < l PROVE FALSE
        <4>1. i \in (p + 1)..l /\ frames[i].c \in 0..Full
          BY <1>1, <3>1 DEF Faces
        <4>2. frames[i].c = NoFace
          BY <4>1
        <4>3. QED
          BY <4>1, <4>2, ConfigAssumption DEF NoFace
      <3>2. QED
        BY <3>1
    <2>3. Lost(frames, l)
      BY <1>5, <2>1, <2>2 DEF Lost
    <2>4. l \in (s + 1)..(e - 1)
      BY <1>1, <1>3, <1>5
    <2>5. BreakWithin(frames, s, e)
      BY <2>3, <2>4 DEF BreakWithin, Breaks
    <2>6. QED
      BY <2>5 DEF Spans
  <1>6. QED
    BY <1>1, <1>4, <1>5, ConfigAssumption

(* "The face was lost for more than max_face_gap_ms" (ARCHITECTURE.md:47)  *)
(* holds of what the detector can see: a closure survives only frames      *)
(* without a face that come soon enough after the last sighting.           *)
THEOREM GapsToleratedHolds == Spec => []GapsTolerated
  <1>1. Init => HistoryInv /\ InOrder
    BY HistoryInit DEF Init, InOrder
  <1>2. TypeOK /\ InOrder /\ HistoryInv => GapsTolerated
    <2> SUFFICES ASSUME TypeOK, InOrder, HistoryInv,
                        NEW n \in DOMAIN events, NEW p \in Faces(frames),
                        NEW l \in DOMAIN frames,
                        p < l, \A k \in (p + 1)..l : frames[k].c = NoFace,
                        events[n].start <= frames[p].t, frames[l].t < events[n].end
                 PROVE  frames[l].t - frames[p].t <= MaxFaceGap
      BY DEF GapsTolerated
    <2>1. events[n] \in ExpectedEvents(frames)
      BY DEF HistoryInv, MatchesReference
    <2>2. PICK s, e \in DOMAIN frames :
            Reports(frames, s, e) /\ events[n] = EventOf(frames, s, e)
      BY <2>1, ExpectedLemma
    <2>3. events[n].start = frames[s].t /\ events[n].end = frames[e].t
      BY <2>2 DEF EventOf
    <2>4. QED
      BY <2>2, <2>3, SpannedGap DEF Reports
  <1>3. DetectorInv => TypeOK
    BY DEF DetectorInv
  <1>4. QED
    BY <1>1, <1>2, <1>3, DetectorInvHolds, HistoryStep, InOrderStep, PTL DEF Spec

-----------------------------------------------------------------------------
(* The analysis of a video                                                 *)

VideoTypes ==
  /\ stage \in {"live", "decoding", "analysed", "failed"}
  /\ stage = "decoding" => fps \in 1..Second /\ cap \in Nat \ {0}
  /\ film \in Seq(FilmClosures) /\ sampled \in 0..Len(film)

(* The detector was last given the time of the frame last analysed.        *)
FrameTimes == stage = "decoding" => lastT = IF sampled = None THEN Never ELSE TimeOf(sampled)

VideoInv == DetectorInv /\ VideoTypes /\ FrameTimes

LEMMA DivisionLemma ==
  ASSUME NEW a \in Nat, NEW b \in Nat, NEW f \in Nat \ {0}, b >= a + f
  PROVE  a \div f \in Nat /\ b \div f >= (a \div f) + 1
  <1> DEFINE x == a \div f
             y == b \div f
  <1>1. x \in Nat /\ y \in Nat
    OBVIOUS
  <1>2. f * x <= a /\ b < f * (y + 1)
    OBVIOUS
  <1> HIDE DEF x, y
  <1>3. x < y
    <2>1. SUFFICES ASSUME y <= x PROVE FALSE
      BY <1>1
    <2>2. f * y <= f * x
      BY <1>1, <2>1
    <2>3. f * (y + 1) = f * y + f
      BY <1>1
    <2>4. QED
      BY <1>1, <1>2, <2>2, <2>3
  <1>4. QED
    BY <1>1, <1>3 DEF x, y

(* No two frames of a video fall into one millisecond.                     *)
LEMMA LaterFrame ==
  ASSUME fps \in 1..Second, NEW n \in Nat \ {0}, NEW k \in 0..(n - 1)
  PROVE  /\ TimeOf(n) \in Nat
         /\ k # 0 => TimeOf(n) >= TimeOf(k) + 1
  <1>1. (n - 1) * Second \in Nat /\ fps \in Nat \ {0} /\ fps <= Second
    BY VideoAssumption
  <1>2. TimeOf(n) \in Nat
    BY <1>1 DEF TimeOf
  <1>3. ASSUME k # 0 PROVE TimeOf(n) >= TimeOf(k) + 1
    <2>1. (k - 1) * Second \in Nat /\ (n - 1) * Second >= (k - 1) * Second + Second
      <3>1. PICK d \in Nat : n - 1 = k - 1 + 1 + d
        <4>1. n - 1 - k \in Nat
          OBVIOUS
        <4>2. QED
          BY <4>1
      <3>2. (n - 1) * Second = (k - 1) * Second + Second + d * Second
        BY <3>1, VideoAssumption
      <3>3. d * Second \in Nat /\ (k - 1) * Second \in Nat
        BY <1>3, VideoAssumption
      <3>4. QED
        BY <3>2, <3>3, VideoAssumption
    <2>2. (n - 1) * Second >= (k - 1) * Second + fps
      BY <1>1, <2>1, VideoAssumption
    <2>3. QED
      BY <1>1, <2>1, <2>2, DivisionLemma DEF TimeOf
  <1>4. QED
    BY <1>2, <1>3

(* The frame that is analysed is stamped with its own time.                *)
LEMMA StampLemma ==
  ASSUME VideoInv, NEW c \in FilmClosures, Analyze(c)
  PROVE  /\ film' \in Seq(FilmClosures) /\ sampled' \in 0..Len(film')
         /\ sampled' # None /\ Stamp(Len(film')) = TimeOf(sampled')
         /\ TimeOf(sampled') \in Nat
  <1>1. film' \in Seq(FilmClosures) /\ Len(film') = Len(film) + 1 /\ Len(film) \in Nat
    BY DEF VideoInv, VideoTypes, Analyze, Decodes
  <1>2. sampled' = Len(film') /\ sampled \in 0..(Len(film') - 1) /\ fps \in 1..Second
    BY <1>1 DEF VideoInv, VideoTypes, Analyze, Decodes
  <1>3. TimeOf(Len(film')) \in Nat
    BY <1>1, <1>2, LaterFrame
  <1>4. TimeOf(Len(film')) >= lastT + 1
    <2>1. CASE sampled = None
      BY <1>3, <2>1 DEF VideoInv, FrameTimes, Analyze, Decodes, Never
    <2>2. CASE sampled # None
      BY <1>1, <1>2, <2>2, LaterFrame DEF VideoInv, FrameTimes, Analyze, Decodes, None
    <2>3. QED
      BY <2>1, <2>2
  <1>5. QED
    BY <1>1, <1>2, <1>3, <1>4 DEF Stamp, Larger, None

LEMMA VideoStep == VideoInv /\ [VideoNext]_allVars => VideoInv'
  <1> SUFFICES ASSUME VideoInv, [VideoNext]_allVars PROVE VideoInv'
    OBVIOUS
  <1>1. ASSUME stage = "live", Next, UNCHANGED videoVars PROVE VideoInv'
    BY <1>1, DetectorStep DEF VideoInv, VideoTypes, FrameTimes, videoVars
  <1>2. ASSUME NEW c \in FilmClosures, Skip(c) PROVE VideoInv'
    <2>1. DetectorInv' /\ lastT' = lastT
      BY <1>2, DetectorStep DEF Skip, VideoInv, vars
    <2>2. film' \in Seq(FilmClosures) /\ Len(film') = Len(film) + 1 /\ Len(film) \in Nat
      BY <1>2 DEF VideoInv, VideoTypes, Skip, Decodes
    <2>3. QED
      BY <1>2, <2>1, <2>2 DEF VideoInv, VideoTypes, FrameTimes, Skip, Decodes, TimeOf
  <1>3. ASSUME NEW c \in FilmClosures, Analyze(c) PROVE VideoInv'
    <2> DEFINE t == Stamp(Len(film'))
    <2>1. t \in Nat /\ t = TimeOf(sampled') /\ sampled' # None
      BY <1>3, StampLemma
    <2>2. Update(t, c)
      BY <1>3 DEF Analyze
    <2>3. c = NoFace \/ c \in Nat
      BY VideoAssumption, ConfigAssumption
    <2> HIDE DEF t
    <2>4. DetectorInv'
      <3>1. CASE c = NoFace
        BY <2>1, <2>2, <3>1, UpdateLemma DEF Update, VideoInv
      <3>2. CASE c # NoFace
        BY <2>1, <2>2, <2>3, <3>2, UpdateLemma DEF Update, VideoInv
      <3>3. QED
        BY <3>1, <3>2
    <2>5. lastT' = t
      BY <2>2 DEF Update, FaceLost, StillOpen, StillClosed, Reopens, Seen, Advances
    <2>6. VideoTypes' /\ FrameTimes'
      BY <1>3, <2>1, <2>5, StampLemma
         DEF VideoInv, VideoTypes, FrameTimes, Analyze, Decodes, TimeOf
    <2>7. QED
      BY <2>4, <2>6 DEF VideoInv
  <1>4. ASSUME EndOfVideo PROVE VideoInv'
    <2>1. DetectorInv'
      BY <1>4, FinishLemma, DetectorStep DEF EndOfVideo, VideoInv
    <2>2. QED
      BY <1>4, <2>1 DEF EndOfVideo, VideoInv, VideoTypes, FrameTimes
  <1>5. ASSUME Abort PROVE VideoInv'
    BY <1>5, DetectorStep DEF Abort, VideoInv, VideoTypes, FrameTimes
  <1>6. ASSUME UNCHANGED allVars PROVE VideoInv'
    BY <1>6, DetectorStep DEF allVars, videoVars, vars, VideoInv, VideoTypes, FrameTimes, TimeOf
  <1>7. QED
    BY <1>1, <1>2, <1>3, <1>4, <1>5, <1>6 DEF VideoNext

LEMMA VideoInvHolds == VideoSpec => []VideoInv
  <1>1. VideoInit => VideoInv
    <2> SUFFICES ASSUME VideoInit PROVE VideoInv
      OBVIOUS
    <2>1. film \in Seq(FilmClosures) /\ Len(film) = 0 /\ sampled = 0
      BY DEF VideoInit, None
    <2>2. stage = "decoding" => fps \in 1..Second /\ cap \in Nat \ {0}
      BY VideoAssumption DEF VideoInit
    <2>3. VideoTypes
      BY <2>1, <2>2 DEF VideoInit, VideoTypes
    <2>4. FrameTimes
      BY DEF VideoInit, FrameTimes, Init
    <2>5. QED
      BY <2>3, <2>4, DetectorInit DEF VideoInit, VideoInv
  <1>2. QED
    BY <1>1, VideoStep, PTL DEF VideoSpec

(* The events of a video are in order, say what they are, and account for  *)
(* every closure, at any frame rate and with any cap on it.                *)
THEOREM VideoEventsHold == VideoSpec => [](Accounted /\ EventsOrdered /\ EventsSound)
  <1>1. VideoInv => Accounted /\ EventsOrdered /\ EventsSound
    BY DEF VideoInv, DetectorInv
  <1>2. QED
    BY <1>1, VideoInvHolds, PTL

(* A frame is stamped with its place in the film: the step to last_ts + 1, *)
(* which would shift the boundaries of blinks, is never needed at the frame*)
(* rates that probe() accepts (video.py:111, 154).                         *)
THEOREM FrameTimesHold == VideoSpec => []FrameTimes
  <1>1. VideoInv => FrameTimes
    BY DEF VideoInv
  <1>2. QED
    BY <1>1, VideoInvHolds, PTL

(* A step of the video analysis is a step of the detector, or leaves it    *)
(* alone.                                                                  *)
LEMMA VideoHistoryStep == VideoInv /\ HistoryInv /\ [VideoNext]_allVars => HistoryInv'
  <1> SUFFICES ASSUME VideoInv, HistoryInv, [VideoNext]_allVars PROVE HistoryInv'
    OBVIOUS
  <1>1. DetectorInv
    BY DEF VideoInv
  <1>2. CASE [Next]_vars
    BY <1>1, <1>2, HistoryStep
  <1>3. ASSUME NEW c \in FilmClosures, Analyze(c) PROVE HistoryInv'
    <2> DEFINE t == Stamp(Len(film'))
    <2>1. t \in Nat
      BY <1>3, StampLemma
    <2>2. Update(t, c)
      BY <1>3 DEF Analyze
    <2>3. c = NoFace \/ c \in Nat
      BY VideoAssumption, ConfigAssumption
    <2> HIDE DEF t
    <2>4. QED
      BY <1>1, <2>1, <2>2, <2>3, HistoryUpdate DEF Update
  <1>4. CASE EndOfVideo \/ Abort \/ \E c \in FilmClosures : Skip(c)
    BY <1>2, <1>4 DEF EndOfVideo, Abort, Skip, Next, vars
  <1>5. CASE UNCHANGED allVars
    BY <1>2, <1>5 DEF allVars
  <1>6. QED
    BY <1>2, <1>3, <1>4, <1>5 DEF VideoNext

LEMMA HistoryInvHolds == VideoSpec => []HistoryInv
  <1>1. VideoInit => HistoryInv
    BY HistoryInit DEF VideoInit
  <1>2. QED
    BY <1>1, VideoHistoryStep, VideoInvHolds, PTL DEF VideoSpec

(* The same for the frames of a video, at any frame rate and any cap on it:*)
(* what analyze_video reports is what the frames it analysed show.         *)
THEOREM VideoMatchesReference == VideoSpec => []MatchesReference
  <1>1. HistoryInv => MatchesReference
    BY DEF HistoryInv
  <1>2. QED
    BY <1>1, HistoryInvHolds, PTL

-----------------------------------------------------------------------------
(* The events against the film                                             *)

(* The frames before s that may have been skipped show open eyes.          *)
OpenBefore(s) == \A n \in DOMAIN film : s - Stride <= n /\ n < s => Wide(n)

(* x is the time of a frame no further after frame s than may be skipped.  *)
Near(x, s) == TimeOf(s) <= x /\ x <= TimeOf(s + Stride - 1)

(* As far as it was decoded, the film shows a closure from s to e that is  *)
(* long enough.                                                            *)
Shown(s, e) ==
  /\ s + Stride - 1 < e /\ TimeOf(e) - TimeOf(s + Stride - 1) >= MinDuration
  /\ OpenBefore(s) /\ \A n \in s..(e - 1) : Shut(n)
  /\ \A n \in DOMAIN film : e <= n /\ n < e + Stride => Wide(n)

Dense == Len(film) - sampled < Stride /\ (sampled = None => film = <<>>)

(* The detector is closed after a shut frame and open after a wide one.    *)
Follows ==
  IF sampled = None THEN ~Closed ELSE (Wide(sampled) => ~Closed) /\ (Shut(sampled) => Closed)

(* The closure the film is in since frame s is open since about then.      *)
InClosure ==
  \A s \in 1..sampled :
    (\A n \in s..Len(film) : Shut(n)) /\ OpenBefore(s) => Closed /\ Near(closedSince, s)

(* A closure the film has shown is open until a frame after it is analysed,*)
(* and an event from then on.                                              *)
AfterClosure ==
  \A s, e \in DOMAIN film : Shown(s, e) =>
    IF sampled < e THEN Closed /\ Near(closedSince, s)
    ELSE \E i \in DOMAIN events : Near(events[i].start, s) /\ Near(events[i].end, e)

FilmInv ==
  /\ stage = "live" => film = <<>>
  /\ stage = "decoding" => Dense /\ Follows /\ InClosure /\ AfterClosure
  /\ ClosureIsReported

(* The cap on the frame rate is a bound on how many frames are skipped.    *)
LEMMA StrideLemma ==
  ASSUME fps \in Nat \ {0}, cap \in Nat \ {0}
  PROVE  /\ Stride \in Nat \ {0}
         /\ \A k \in Nat : k * cap >= fps <=> k >= Stride
  <1> DEFINE a == fps + cap - 1
             q == a \div cap
  <1>1. a \in Nat /\ q \in Nat /\ cap * q <= a /\ a < cap * (q + 1)
    OBVIOUS
  <1>2. Stride = q
    BY DEF Stride
  <1> HIDE DEF q
  <1>3. cap * (q + 1) = cap * q + cap
    BY <1>1
  <1>4. fps <= cap * q /\ cap * q <= fps + cap - 1
    BY <1>1, <1>3
  <1>5. q # 0
    BY <1>1, <1>4
  <1>6. ASSUME NEW k \in Nat, k >= q PROVE k * cap >= fps
    <2>1. PICK d \in Nat : k = q + d
      <3>1. k - q \in Nat
        BY <1>1, <1>6
      <3>2. QED
        BY <1>1, <3>1
    <2>2. k * cap = cap * q + d * cap /\ d * cap \in Nat /\ cap * q \in Nat
      BY <1>1, <2>1
    <2>3. QED
      BY <1>4, <2>2
  <1>7. ASSUME NEW k \in Nat, k < q PROVE ~(k * cap >= fps)
    <2>1. PICK d \in Nat : q = k + 1 + d
      <3>1. q - k - 1 \in Nat
        BY <1>1, <1>7
      <3>2. QED
        BY <1>1, <3>1
    <2>2. cap * q = k * cap + cap + d * cap /\ d * cap \in Nat /\ k * cap \in Nat
      BY <1>1, <2>1
    <2>3. QED
      BY <1>4, <2>2
  <1>8. QED
    BY <1>1, <1>2, <1>5, <1>6, <1>7

(* Later frames have later times.                                          *)
LEMMA TimesGrow ==
  ASSUME fps \in 1..Second, NEW n \in Nat \ {0}, NEW k \in 1..n
  PROVE  TimeOf(k) \in Nat /\ TimeOf(n) \in Nat /\ TimeOf(k) <= TimeOf(n)
  <1>1. TimeOf(k) \in Nat /\ TimeOf(n) \in Nat
    BY LaterFrame
  <1>2. CASE k = n
    BY <1>1, <1>2
  <1>3. CASE k # n
    <2>1. k \in 0..(n - 1) /\ k # 0
      BY <1>3
    <2>2. TimeOf(n) >= TimeOf(k) + 1
      BY <2>1, LaterFrame
    <2>3. QED
      BY <1>1, <2>2
  <1>4. QED
    BY <1>2, <1>3

(* One more frame was decoded.                                             *)
LEMMA DecodeLemma ==
  ASSUME VideoTypes, NEW c \in FilmClosures, Decodes(c)
  PROVE  /\ Len(film) \in Nat /\ Len(film') = Len(film) + 1 /\ DOMAIN film = 1..Len(film)
         /\ DOMAIN film' = 1..(Len(film) + 1) /\ sampled \in 0..Len(film)
         /\ fps \in 1..Second /\ fps \in Nat \ {0} /\ cap \in Nat \ {0} /\ Stride \in Nat \ {0}
         /\ Stride' = Stride /\ \A n \in Nat : TimeOf(n)' = TimeOf(n)
         /\ \A n \in 1..Len(film) : (Shut(n)' <=> Shut(n)) /\ (Wide(n)' <=> Wide(n))
         /\ \A n \in Nat : n = Len(film) + 1 => /\ Shut(n)' <=> c \in CloseThreshold..Full
                                                /\ Wide(n)' <=> c \in 0..OpenThreshold
  <1>1. film \in Seq(FilmClosures) /\ film' = Append(film, c) /\ UNCHANGED <<stage, fps, cap>>
        /\ stage = "decoding"
    BY DEF VideoTypes, Decodes
  <1>2. /\ Len(film) \in Nat /\ Len(film') = Len(film) + 1 /\ DOMAIN film = 1..Len(film)
        /\ DOMAIN film' = 1..(Len(film) + 1) /\ film'[Len(film) + 1] = c
        /\ \A n \in 1..Len(film) : film'[n] = film[n]
    BY <1>1
  <1>3. fps \in 1..Second /\ cap \in Nat \ {0} /\ sampled \in 0..Len(film)
    BY <1>1 DEF VideoTypes
  <1>4. fps \in Nat \ {0} /\ Stride \in Nat \ {0}
    BY <1>3, StrideLemma, VideoAssumption
  <1>5. Stride' = Stride /\ \A n \in Nat : TimeOf(n)' = TimeOf(n)
    BY <1>1 DEF Stride, TimeOf
  <1>6. /\ \A n \in 1..Len(film) : (Shut(n)' <=> Shut(n)) /\ (Wide(n)' <=> Wide(n))
        /\ \A n \in Nat : n = Len(film) + 1 => /\ Shut(n)' <=> c \in CloseThreshold..Full
                                               /\ Wide(n)' <=> c \in 0..OpenThreshold
    BY <1>2 DEF Shut, Wide
  <1>7. QED
    BY <1>2, <1>3, <1>4, <1>5, <1>6

(* What a call of update() for a shut or a wide frame does.                *)
LEMMA SampleLemma ==
  ASSUME DetectorInv, NEW t \in Nat, NEW c \in 0..Full \cup {NoFace}, Update(t, c)
  PROVE  /\ \A i \in DOMAIN events : i \in DOMAIN events' /\ events'[i] = events[i]
         /\ c \in CloseThreshold..Full =>
              Closed' /\ closedSince' = IF Closed THEN closedSince ELSE t
         /\ c \in 0..OpenThreshold =>
              /\ ~Closed'
              /\ Closed /\ t - closedSince >= MinDuration =>
                   \E i \in DOMAIN events' : events'[i].start = closedSince /\ events'[i].end = t
  <1>1. TypeOK /\ events \in Seq(Event) /\ closedSince \in Int /\ lastT \in Int
    BY Numbers DEF DetectorInv, TypeOK
  <1>2. ASSUME NEW kind, NEW p, Returns(kind, t, p)
        PROVE  /\ \A i \in DOMAIN events : i \in DOMAIN events' /\ events'[i] = events[i]
               /\ \E i \in DOMAIN events' : events'[i].start = closedSince /\ events'[i].end = t
    <2> DEFINE e == [kind |-> kind, start |-> closedSince, end |-> t, peak |-> p]
    <2>1. events' = Append(events, e) /\ e.start = closedSince /\ e.end = t
      BY <1>2 DEF Returns
    <2> HIDE DEF e
    <2>2. /\ DOMAIN events' = 1..(Len(events) + 1) /\ DOMAIN events = 1..Len(events)
          /\ Len(events) \in Nat /\ events'[Len(events) + 1] = e
          /\ \A i \in 1..Len(events) : events'[i] = events[i]
      BY <1>1, <2>1
    <2>3. Len(events) + 1 \in DOMAIN events'
      BY <2>2
    <2>4. \A i \in DOMAIN events : i \in DOMAIN events' /\ events'[i] = events[i]
      BY <2>2
    <2>5. QED
      BY <2>1, <2>2, <2>3, <2>4
  <1>3. CASE c = NoFace
    <2>1. events' = events
      BY <1>3 DEF Update, FaceLost
    <2>2. QED
      BY <1>3, <2>1, ConfigAssumption DEF NoFace
  <1>4. CASE StillOpen(t, c)
    <2>1. events' = events /\ ~Closed /\ c \in 0..Full
          /\ IF c >= CloseThreshold THEN closedSince' = t ELSE closedSince' = closedSince
      BY <1>4 DEF StillOpen, Seen
    <2>2. t # Never
      BY DEF Never
    <2>3. QED
      BY <2>1, <2>2, ConfigAssumption DEF Closed
  <1>5. CASE StillClosed(t, c)
    <2>1. events' = events /\ closedSince' = closedSince /\ Closed /\ c > OpenThreshold
      BY <1>5 DEF StillClosed
    <2>2. c \notin 0..OpenThreshold
      BY <2>1, ConfigAssumption
    <2>3. QED
      BY <2>1, <2>2 DEF Closed
  <1>6. CASE Reopens(t, c)
    <2>1. closedSince' = Never /\ c <= OpenThreshold /\ Emit(t, Larger(peak, c))
      BY <1>6 DEF Reopens, Reset
    <2>2. ~Closed' /\ c \notin CloseThreshold..Full
      BY <2>1, ConfigAssumption DEF Closed, Never, NoFace
    <2>3. CASE t - closedSince < MinDuration /\ events' = events
      BY <1>1, <2>2, <2>3, ConfigAssumption
    <2>4. CASE \E kind : Returns(kind, t, Larger(peak, c))
      BY <1>2, <2>2, <2>4
    <2>5. QED
      BY <2>1, <2>3, <2>4 DEF Emit
  <1>7. QED
    BY <1>3, <1>4, <1>5, <1>6 DEF Update

(* A frame that is not due is near the last one that was analysed, and one *)
(* that is due is not much further.                                        *)
LEMMA DenseLemma ==
  ASSUME VideoInv, Dense, NEW c \in FilmClosures, Skip(c) \/ Analyze(c)
  PROVE  /\ Dense'
         /\ sampled = None \/ Len(film) + 1 <= sampled + Stride
         /\ sampled = None => Len(film) = 0
         /\ Skip(c) => sampled # None
  <1>1. Decodes(c) /\ VideoTypes
    BY DEF Skip, Analyze, VideoInv
  <1>2. /\ Len(film) \in Nat /\ Len(film') = Len(film) + 1 /\ sampled \in 0..Len(film)
        /\ Stride \in Nat \ {0} /\ Stride' = Stride
        /\ fps \in Nat \ {0} /\ cap \in Nat \ {0}
    BY <1>1, DecodeLemma
  <1>3. sampled = None => Len(film) = 0
    BY DEF Dense
  <1>4. sampled = None \/ Len(film) + 1 <= sampled + Stride
    BY <1>2 DEF Dense
  <1>5. CASE Skip(c)
    <2> DEFINE k == Len(film') - sampled
    <2>1. sampled' = sampled /\ sampled # None /\ ~(k * cap >= fps) /\ k \in Nat
      BY <1>2, <1>5 DEF Skip, Due
    <2> HIDE DEF k
    <2>2. ~(k >= Stride)
      BY <1>2, <2>1, StrideLemma
    <2>3. Len(film') - sampled < Stride
      BY <1>2, <2>1, <2>2 DEF k
    <2>4. QED
      BY <1>2, <1>3, <1>4, <2>1, <2>3 DEF Dense
  <1>6. CASE Analyze(c)
    <2>1. sampled' = Len(film') /\ Len(film') # None
      BY <1>2, <1>6 DEF Analyze, None
    <2>2. ~Skip(c)
      BY <1>6 DEF Analyze, Skip
    <2>3. QED
      BY <1>2, <1>3, <1>4, <2>1, <2>2 DEF Dense
  <1>7. QED
    BY <1>5, <1>6

(* A film that shows something one frame later showed it before.           *)
LEMMA PrefixLemma ==
  ASSUME VideoTypes, NEW c \in FilmClosures, Decodes(c), NEW s \in 1..(Len(film) + 1)
  PROVE  /\ OpenBefore(s)' => OpenBefore(s)
         /\ \A e \in 1..Len(film) : Shown(s, e)' => Shown(s, e)
         /\ (\A n \in s..Len(film') : Shut(n)') => \A n \in s..Len(film) : Shut(n)
  <1>1. /\ Len(film) \in Nat /\ Len(film') = Len(film) + 1 /\ DOMAIN film = 1..Len(film)
        /\ DOMAIN film' = 1..(Len(film) + 1)
        /\ Stride \in Nat \ {0} /\ Stride' = Stride
        /\ \A n \in Nat : TimeOf(n)' = TimeOf(n)
        /\ \A n \in 1..Len(film) : (Shut(n)' <=> Shut(n)) /\ (Wide(n)' <=> Wide(n))
    BY DecodeLemma
  <1>2. \A n \in DOMAIN film : n \in DOMAIN film' /\ n \in 1..Len(film)
    BY <1>1
  <1>3. OpenBefore(s)' => OpenBefore(s)
    BY <1>1, <1>2 DEF OpenBefore
  <1>4. ASSUME NEW e \in 1..Len(film), Shown(s, e)' PROVE Shown(s, e)
    <2>1. s + Stride - 1 \in Nat /\ e \in Nat
      BY <1>1
    <2>2. s + Stride - 1 < e /\ TimeOf(e) - TimeOf(s + Stride - 1) >= MinDuration
      <3>1. /\ s + Stride' - 1 < e
            /\ \A k \in Nat : k = s + Stride' - 1 => TimeOf(e)' - TimeOf(k)' >= MinDuration
        BY <1>4 DEF Shown
      <3>2. QED
        BY <1>1, <2>1, <3>1
    <2>3. \A n \in s..(e - 1) : n \in 1..Len(film)
      BY <1>1
    <2>4. \A n \in s..(e - 1) : Shut(n)
      BY <1>1, <1>4, <2>3 DEF Shown
    <2>5. \A n \in DOMAIN film : e <= n /\ n < e + Stride => Wide(n)
      BY <1>1, <1>2, <1>4 DEF Shown
    <2>6. OpenBefore(s)
      BY <1>3, <1>4 DEF Shown
    <2>7. QED
      BY <2>2, <2>4, <2>5, <2>6 DEF Shown
  <1>5. \A n \in s..Len(film) : n \in s..Len(film') /\ n \in 1..Len(film)
    BY <1>1
  <1>6. (\A n \in s..Len(film') : Shut(n)') => \A n \in s..Len(film) : Shut(n)
    BY <1>1, <1>5
  <1>7. QED
    BY <1>3, <1>4, <1>6

(* Times of frames do not depend on how much of the film was decoded.      *)
LEMMA NearLemma ==
  ASSUME fps' = fps, cap' = cap, NEW s
  PROVE  /\ Near(closedSince, s)' <=> Near(closedSince', s)
         /\ \A i : (Near(events[i].start, s)' <=> Near(events'[i].start, s))
                   /\ (Near(events[i].end, s)' <=> Near(events'[i].end, s))
  <1>1. Stride' = Stride
    BY DEF Stride
  <1>2. QED
    BY <1>1 DEF Near, TimeOf

(* The frame that is analysed: its number, its time, what update() does.   *)
LEMMA AnalyzedFrame ==
  ASSUME VideoInv, NEW c \in FilmClosures, Analyze(c), NEW n \in Nat, n = Len(film) + 1
  PROVE  /\ sampled' = n /\ TimeOf(n) \in Nat /\ fps' = fps /\ cap' = cap
         /\ \A i \in DOMAIN events : i \in DOMAIN events' /\ events'[i] = events[i]
         /\ Shut(n)' => Closed' /\ closedSince' = IF Closed THEN closedSince ELSE TimeOf(n)
         /\ Wide(n)' =>
              /\ ~Closed'
              /\ Closed /\ TimeOf(n) - closedSince >= MinDuration =>
                   \E i \in DOMAIN events' :
                     events'[i].start = closedSince /\ events'[i].end = TimeOf(n)
  <1>1. Decodes(c) /\ VideoTypes /\ DetectorInv
    BY DEF Analyze, VideoInv
  <1>2. sampled' = n /\ Len(film') = n /\ fps' = fps /\ cap' = cap
    BY <1>1, DecodeLemma DEF Analyze, Decodes
  <1>3. Stamp(Len(film')) = TimeOf(n) /\ TimeOf(n) \in Nat
    <2>1. TimeOf(sampled') = TimeOf(n)
      BY <1>2
    <2>2. QED
      BY <2>1, StampLemma
  <1>4. Update(TimeOf(n), c)
    BY <1>3 DEF Analyze
  <1>5. (Shut(n)' <=> c \in CloseThreshold..Full) /\ (Wide(n)' <=> c \in 0..OpenThreshold)
    <2>1. \A k \in Nat : k = Len(film) + 1 => /\ Shut(k)' <=> c \in CloseThreshold..Full
                                              /\ Wide(k)' <=> c \in 0..OpenThreshold
      BY <1>1, DecodeLemma
    <2>2. QED
      BY <2>1 DEF Shut, Wide
  <1>6. c \in 0..Full \cup {NoFace}
    BY VideoAssumption
  <1>7. QED
    BY <1>1, <1>2, <1>3, <1>4, <1>5, <1>6, SampleLemma

(* The three parts of FilmInv, each over one step of the analysis.         *)
LEMMA FollowsStep ==
  ASSUME VideoInv, Dense, Follows, NEW c \in FilmClosures, Skip(c) \/ Analyze(c)
  PROVE  Follows'
  <1>1. PICK n \in Nat : n = Len(film) + 1
    BY DEF VideoInv, VideoTypes
  <1>2. CASE Skip(c)
    <2>1. sampled' = sampled /\ sampled # None /\ Closed' = Closed
      BY <1>2, DenseLemma DEF Skip, vars, Closed
    <2>2. sampled \in 1..Len(film)
      BY <2>1 DEF VideoInv, VideoTypes, None
    <2>3. \A k \in 1..Len(film) : (Shut(k)' <=> Shut(k)) /\ (Wide(k)' <=> Wide(k))
      BY <1>2, DecodeLemma DEF Skip, VideoInv
    <2>4. PICK k \in 1..Len(film) : k = sampled
      BY <2>2
    <2>5. (Wide(k)' => ~Closed') /\ (Shut(k)' => Closed')
      BY <2>1, <2>3, <2>4 DEF Follows
    <2>6. QED
      BY <2>1, <2>4, <2>5 DEF Follows, Wide, Shut
  <1>3. CASE Analyze(c)
    <2>1. sampled' = n /\ (Wide(n)' => ~Closed') /\ (Shut(n)' => Closed')
      BY <1>1, <1>3, AnalyzedFrame
    <2>2. n # None
      BY <1>1 DEF VideoInv, VideoTypes, None
    <2>3. QED
      BY <2>1, <2>2 DEF Follows, Wide, Shut
  <1>4. QED
    BY <1>2, <1>3

LEMMA InClosureStep ==
  ASSUME VideoInv, Dense, Follows, InClosure, NEW c \in FilmClosures, Skip(c) \/ Analyze(c)
  PROVE  InClosure'
  <1>1. PICK n \in Nat : n = Len(film) + 1
    BY DEF VideoInv, VideoTypes
  <1>2. Decodes(c) /\ VideoTypes /\ fps' = fps /\ cap' = cap
    BY DEF Skip, Analyze, VideoInv, Decodes
  <1>3. /\ Len(film) \in Nat /\ Len(film') = n /\ sampled \in 0..Len(film)
        /\ fps \in 1..Second /\ Stride \in Nat \ {0}
    BY <1>1, <1>2, DecodeLemma
  <1> SUFFICES ASSUME NEW s \in 1..sampled', \A k \in s..Len(film') : Shut(k)', OpenBefore(s)'
               PROVE  Closed' /\ Near(closedSince', s)
    BY <1>2, NearLemma DEF InClosure
  <1>4. sampled' = n \/ sampled' = sampled
    BY <1>1, AnalyzedFrame DEF Skip
  <1>5. s \in 1..n
    BY <1>1, <1>3, <1>4
  <1>6. OpenBefore(s) /\ \A k \in s..Len(film) : Shut(k)
    BY <1>1, <1>2, <1>5, PrefixLemma
  <1>7. CASE s <= sampled
    <2>1. Closed /\ Near(closedSince, s)
      BY <1>3, <1>5, <1>6, <1>7 DEF InClosure
    <2>2. CASE Skip(c)
      BY <2>1, <2>2 DEF Skip, vars, Closed
    <2>3. CASE Analyze(c)
      <3>1. Shut(n)'
        BY <1>3, <1>5
      <3>2. QED
        BY <1>1, <2>1, <2>3, <3>1, AnalyzedFrame
    <2>4. QED
      BY <2>2, <2>3
  <1>8. CASE s > sampled
    <2>1. Analyze(c)
      BY <1>3, <1>5, <1>8 DEF Skip
    <2>2. Shut(n)'
      BY <1>3, <1>5
    <2>3. ~Closed /\ n <= s + Stride - 1
      <3>1. CASE sampled = None
        <4>1. n = 1 /\ s = 1
          BY <1>1, <1>5, <3>1, DenseLemma
        <4>2. QED
          BY <1>3, <3>1, <4>1 DEF Follows
      <3>2. CASE sampled # None
        <4>1. n <= sampled + Stride
          BY <1>1, <3>2, DenseLemma
        <4>2. sampled \in DOMAIN film /\ s - Stride <= sampled
          BY <1>1, <1>2, <1>3, <1>5, <1>8, <3>2, <4>1, DecodeLemma DEF None
        <4>3. Wide(sampled)
          BY <1>6, <1>8, <4>2 DEF OpenBefore
        <4>4. QED
          BY <1>1, <1>3, <1>5, <1>8, <3>2, <4>1, <4>3 DEF Follows
      <3>3. QED
        BY <3>1, <3>2
    <2>4. Closed' /\ closedSince' = TimeOf(n)
      BY <1>1, <2>1, <2>2, <2>3, AnalyzedFrame
    <2>5. TimeOf(s) <= TimeOf(n) /\ TimeOf(n) <= TimeOf(s + Stride - 1)
      <3>1. /\ n \in Nat \ {0} /\ s \in 1..n
            /\ s + Stride - 1 \in Nat \ {0} /\ n \in 1..(s + Stride - 1)
        BY <1>1, <1>3, <1>5, <2>3
      <3>2. QED
        BY <1>3, <3>1, TimesGrow
    <2>6. QED
      BY <2>4, <2>5 DEF Near
  <1>9. QED
    BY <1>3, <1>5, <1>7, <1>8

LEMMA AfterClosureStep ==
  ASSUME VideoInv, Dense, Follows, InClosure, AfterClosure,
         NEW c \in FilmClosures, Skip(c) \/ Analyze(c)
  PROVE  AfterClosure'
  <1>1. PICK n \in Nat : n = Len(film) + 1
    BY DEF VideoInv, VideoTypes
  <1>2. Decodes(c) /\ VideoTypes /\ fps' = fps /\ cap' = cap
    BY DEF Skip, Analyze, VideoInv, Decodes
  <1>3. /\ Len(film) \in Nat /\ Len(film') = n /\ sampled \in 0..Len(film)
        /\ DOMAIN film = 1..Len(film) /\ DOMAIN film' = 1..n
        /\ fps \in 1..Second /\ Stride \in Nat \ {0} /\ Stride' = Stride
        /\ \A k \in Nat : TimeOf(k)' = TimeOf(k)
    BY <1>1, <1>2, DecodeLemma
  <1> SUFFICES ASSUME NEW s \in 1..n, NEW e \in 1..n, Shown(s, e)'
               PROVE  IF sampled' < e THEN Closed' /\ Near(closedSince', s)
                      ELSE \E i \in DOMAIN events' :
                             Near(events'[i].start, s) /\ Near(events'[i].end, e)
    BY <1>2, <1>3, NearLemma DEF AfterClosure
  <1>4. s \in 1..(Len(film) + 1) /\ s < e /\ s + Stride - 1 < e
        /\ TimeOf(e) - TimeOf(s + Stride - 1) >= MinDuration
    <2>1. s + Stride - 1 \in Nat /\ e \in Nat
      BY <1>3
    <2>2. /\ s + Stride' - 1 < e
          /\ \A k \in Nat : k = s + Stride' - 1 => TimeOf(e)' - TimeOf(k)' >= MinDuration
      BY DEF Shown
    <2>3. QED
      BY <1>1, <1>3, <2>1, <2>2
  <1>5. \A k \in s..(e - 1) : Shut(k)'
    BY DEF Shown
  <1>6. OpenBefore(s)' /\ OpenBefore(s)
    BY <1>2, <1>4, PrefixLemma DEF Shown
  <1>7. ASSUME sampled < e PROVE Closed /\ Near(closedSince, s)
    <2>1. CASE e \in 1..Len(film)
      <3>1. Shown(s, e)
        BY <1>2, <1>4, <2>1, PrefixLemma
      <3>2. s \in DOMAIN film
        BY <1>3, <1>4, <2>1
      <3>3. QED
        BY <1>3, <1>7, <2>1, <3>1, <3>2 DEF AfterClosure
    <2>2. CASE e = n
      <3>1. \A k \in s..Len(film) : Shut(k)
        <4>1. \A k \in s..Len(film) : k \in s..(e - 1) /\ k \in 1..Len(film)
          BY <1>1, <1>3, <2>2
        <4>2. \A k \in 1..Len(film) : Shut(k)' <=> Shut(k)
          BY <1>2, DecodeLemma
        <4>3. QED
          BY <1>5, <4>1, <4>2
      <3>2. s \in 1..sampled
        <4>1. CASE sampled = None
          BY <1>1, <1>3, <1>4, <2>2, <4>1, DenseLemma
        <4>2. CASE sampled # None
          <5>1. n <= sampled + Stride
            BY <1>1, <4>2, DenseLemma
          <5>2. QED
            BY <1>1, <1>3, <1>4, <2>2, <5>1
        <4>3. QED
          BY <4>1, <4>2
      <3>3. QED
        BY <1>6, <3>1, <3>2 DEF InClosure
    <2>3. QED
      BY <1>1, <1>3, <2>1, <2>2
  <1>8. ASSUME sampled >= e
        PROVE  \E i \in DOMAIN events : Near(events[i].start, s) /\ Near(events[i].end, e)
    <2>1. e \in 1..Len(film) /\ s \in DOMAIN film /\ e \in DOMAIN film /\ ~(sampled < e)
      BY <1>3, <1>4, <1>8
    <2>2. Shown(s, e)
      BY <1>2, <1>4, <2>1, PrefixLemma
    <2>3. QED
      BY <2>1, <2>2 DEF AfterClosure
  <1>9. CASE Skip(c)
    <2>1. UNCHANGED <<sampled, closedSince, events>>
      BY <1>9 DEF Skip, vars
    <2>2. QED
      BY <1>3, <1>7, <1>8, <2>1 DEF Closed
  <1>10. CASE Analyze(c)
    <2>1. /\ sampled' = n /\ TimeOf(n) \in Nat
          /\ \A i \in DOMAIN events : i \in DOMAIN events' /\ events'[i] = events[i]
      BY <1>1, <1>10, AnalyzedFrame
    <2>2. ~(sampled' < e)
      BY <1>1, <2>1
    <2>3. CASE sampled >= e
      BY <1>8, <2>1, <2>2, <2>3
    <2>4. CASE sampled < e
      <3>1. Closed /\ Near(closedSince, s)
        BY <1>7, <2>4
      <3>2. n < e + Stride
        <4>1. CASE sampled = None
          BY <1>1, <1>3, <1>4, <4>1, DenseLemma
        <4>2. CASE sampled # None
          <5>1. n <= sampled + Stride
            BY <1>1, <4>2, DenseLemma
          <5>2. QED
            BY <1>1, <1>3, <2>4, <5>1
        <4>3. QED
          BY <4>1, <4>2
      <3>3. Wide(n)'
        <4>1. \A k \in 1..n : e <= k /\ k < e + Stride => Wide(k)'
          BY <1>3 DEF Shown
        <4>2. n \in 1..n /\ e <= n
          BY <1>1, <1>3
        <4>3. QED
          BY <3>2, <4>1, <4>2
      <3>4. TimeOf(e) <= TimeOf(n) /\ TimeOf(n) <= TimeOf(e + Stride - 1)
            /\ TimeOf(e) \in Nat /\ TimeOf(s + Stride - 1) \in Nat
        <4>1. n \in Nat \ {0} /\ e \in 1..n /\ e + Stride - 1 \in Nat \ {0}
              /\ n \in 1..(e + Stride - 1) /\ s + Stride - 1 \in 1..n
          BY <1>1, <1>3, <1>4, <3>2
        <4>2. QED
          BY <1>3, <4>1, TimesGrow
      <3>5. TimeOf(n) - closedSince >= MinDuration
        <4>1. closedSince \in Int /\ MinDuration \in Int /\ closedSince <= TimeOf(s + Stride - 1)
          BY <3>1, Numbers, ConfigAssumption DEF VideoInv, DetectorInv, Near
        <4>2. QED
          BY <1>4, <2>1, <3>4, <4>1
      <3>6. \E i \in DOMAIN events' :
              events'[i].start = closedSince /\ events'[i].end = TimeOf(n)
        BY <1>1, <1>10, <3>1, <3>3, <3>5, AnalyzedFrame
      <3>7. QED
        BY <2>2, <3>1, <3>4, <3>6 DEF Near
    <2>5. QED
      BY <1>3, <2>3, <2>4
  <1>11. QED
    BY <1>9, <1>10

(* The whole closure was decoded, and the open eyes after it: a frame after*)
(* it was analysed.                                                        *)
LEMMA ReportedLemma ==
  VideoTypes /\ stage = "decoding" /\ Dense /\ AfterClosure => ClosureIsReported
  <1> SUFFICES ASSUME VideoTypes, stage = "decoding", Dense, AfterClosure
               PROVE  ClosureIsReported
    OBVIOUS
  <1>1. /\ Len(film) \in Nat /\ DOMAIN film = 1..Len(film) /\ sampled \in 0..Len(film)
        /\ fps \in Nat \ {0} /\ cap \in Nat \ {0}
    BY VideoAssumption DEF VideoTypes
  <1>2. Stride \in Nat \ {0}
    BY <1>1, StrideLemma
  <1> SUFFICES ASSUME NEW s \in DOMAIN film, NEW e \in DOMAIN film, ShowsClosure(s, e),
                      s + Stride - 1 < e, TimeOf(e) - TimeOf(s + Stride - 1) >= MinDuration
               PROVE  \E i \in DOMAIN events :
                        /\ TimeOf(s) <= events[i].start /\ events[i].start <= TimeOf(s + Stride - 1)
                        /\ TimeOf(e) <= events[i].end /\ events[i].end <= TimeOf(e + Stride - 1)
    BY DEF ClosureIsReported
  <1>3. \A n \in DOMAIN film : e <= n /\ n < e + Stride => n \in e..(e + Stride - 1)
    BY <1>1, <1>2
  <1>4. Shown(s, e)
    BY <1>3 DEF Shown, ShowsClosure, OpenBefore
  <1>5. ~(sampled < e)
    <2>1. e + Stride - 1 <= Len(film)
      BY <1>1 DEF ShowsClosure
    <2>2. QED
      BY <1>1, <1>2, <2>1 DEF Dense
  <1>6. QED
    BY <1>4, <1>5 DEF AfterClosure, Near

(* FilmInv, with VideoInv, is inductive.                                   *)
LEMMA FilmStep == VideoInv /\ FilmInv /\ [VideoNext]_allVars => FilmInv'
  <1> SUFFICES ASSUME VideoInv, FilmInv, [VideoNext]_allVars PROVE FilmInv'
    OBVIOUS
  <1>1. VideoInv'
    BY VideoStep
  <1>2. ASSUME stage = "live", UNCHANGED videoVars PROVE FilmInv'
    <2>1. film' = <<>> /\ stage' = "live" /\ DOMAIN film' = {}
      BY <1>2 DEF FilmInv, videoVars
    <2>2. ClosureIsReported'
      BY <2>1 DEF ClosureIsReported
    <2>3. QED
      BY <2>1, <2>2 DEF FilmInv
  <1>3. ASSUME NEW c \in FilmClosures, Skip(c) \/ Analyze(c) PROVE FilmInv'
    <2>1. stage = "decoding" /\ stage' = "decoding"
      BY <1>3 DEF Skip, Analyze, Decodes
    <2>2. Dense /\ Follows /\ InClosure /\ AfterClosure
      BY <2>1 DEF FilmInv
    <2>3. Dense'
      BY <1>3, <2>2, DenseLemma
    <2>4. Follows'
      BY <1>3, <2>2, FollowsStep
    <2>5. InClosure'
      BY <1>3, <2>2, InClosureStep
    <2>6. AfterClosure'
      BY <1>3, <2>2, AfterClosureStep
    <2>7. ClosureIsReported'
      <3>1. VideoTypes' /\ (stage = "decoding")'
        BY <1>1, <2>1 DEF VideoInv
      <3>2. VideoTypes' /\ (stage = "decoding")' /\ Dense' /\ AfterClosure' => ClosureIsReported'
        BY ReportedLemma, PTL
      <3>3. QED
        BY <2>3, <2>6, <3>1, <3>2
    <2>8. QED
      BY <2>1, <2>3, <2>4, <2>5, <2>6, <2>7 DEF FilmInv
  <1>4. ASSUME EndOfVideo \/ Abort PROVE FilmInv'
    <2>1. stage' \in {"analysed", "failed"} /\ UNCHANGED <<fps, cap, film, events>>
      BY <1>4 DEF EndOfVideo, Abort, Finish, vars
    <2>2. ClosureIsReported'
      BY <2>1 DEF FilmInv, ClosureIsReported, ShowsClosure, Stride, TimeOf, Shut, Wide
    <2>3. QED
      BY <2>1, <2>2 DEF FilmInv
  <1>5. CASE UNCHANGED allVars
    BY <1>5 DEF allVars, vars, videoVars, FilmInv, ClosureIsReported, ShowsClosure, Stride,
                TimeOf, Shut, Wide, Dense, Follows, InClosure, AfterClosure, Shown, OpenBefore,
                Near, Closed
  <1>6. QED
    BY <1>2, <1>3, <1>4, <1>5 DEF VideoNext

(* No blink is lost with the frames that are skipped: a closure the film   *)
(* shows for long enough is reported, at any frame rate and any cap, with  *)
(* both ends as exact as the frames that were analysed allow.              *)
THEOREM ClosureIsReportedHolds == VideoSpec => []ClosureIsReported
  <1>1. VideoInit => FilmInv
    <2> SUFFICES ASSUME VideoInit PROVE FilmInv
      OBVIOUS
    <2>1. film = <<>> /\ Len(film) = 0 /\ DOMAIN film = {} /\ sampled = 0 /\ closedSince = Never
      BY DEF VideoInit, Init, None
    <2>2. stage = "decoding" => Stride \in Nat \ {0}
      <3>1. stage = "decoding" => fps \in Nat \ {0} /\ cap \in Nat \ {0}
        <4>1. stage = "decoding" => fps \in 1..Second /\ cap \in Nat \ {0}
          BY VideoAssumption DEF VideoInit
        <4>2. QED
          BY <4>1, VideoAssumption
      <3>2. QED
        BY <3>1, StrideLemma
    <2>3. stage = "decoding" => Dense /\ Follows
      BY <2>1, <2>2 DEF Dense, Follows, Closed, None
    <2>4. InClosure /\ AfterClosure /\ ClosureIsReported
      BY <2>1 DEF InClosure, AfterClosure, ClosureIsReported
    <2>5. QED
      BY <2>1, <2>3, <2>4 DEF FilmInv
  <1>2. FilmInv => ClosureIsReported
    BY DEF FilmInv
  <1>3. QED
    BY <1>1, <1>2, FilmStep, VideoInvHolds, PTL DEF VideoSpec
=============================================================================
