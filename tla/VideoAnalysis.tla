--------------------------- MODULE VideoAnalysis ---------------------------
(***************************************************************************)
(* The two users of the blink detector: a live session, which passes the   *)
(* frames it gets with the times it has, and analyze_video (video.py),     *)
(* which goes through the frames of a file, skips those above              *)
(* video_analysis_fps, and stamps the others with their place in the film. *)
(* What the analysis holds open, and the ways it fails, are in             *)
(* InferenceService.                                                       *)
(***************************************************************************)
EXTENDS BlinkDetector

CONSTANTS
  Second,         \* milliseconds in a second; an instance may take fewer
  FrameRates,     \* frame rates of videos, as probe() accepts them
  Caps,           \* values of video_analysis_fps
  FilmClosures,   \* what a frame of a video may show
  MaxVideoFrames  \* max_video_frames

ASSUME VideoAssumption ==
  /\ Second \in Nat \ {0} /\ FrameRates \subseteq 1..Second /\ Caps \subseteq Nat \ {0}
  /\ FilmClosures \subseteq 0..Full \cup {NoFace}
  /\ MaxVideoFrames \in Nat \ {0}

VARIABLES
  stage,     \* "live" for a session, else how far the analysis of the video is
  fps, cap,  \* VideoInfo.fps, settings.video_analysis_fps; None for a session
  film,      \* what the frames decoded so far show
  sampled    \* number of the frame last analysed, None before the first one

videoVars == <<stage, fps, cap, film, sampled>>
allVars == <<vars, videoVars>>

None == 0

VideoInit ==
  /\ Init
  /\ \/ stage = "live" /\ fps = None /\ cap = None
     \/ stage = "decoding" /\ fps \in FrameRates /\ cap \in Caps
  /\ film = <<>> /\ sampled = None

(* When frame n was recorded, in whole milliseconds.                       *)
TimeOf(n) == ((n - 1) * Second) \div fps

-----------------------------------------------------------------------------
Decodes(c) ==
  /\ stage = "decoding" /\ Len(film) < MaxVideoFrames
  /\ film' = Append(film, c)
  /\ UNCHANGED <<stage, fps, cap>>

(* Frame n is far enough from the frame last analysed.                     *)
Due(n) == sampled = None \/ (n - sampled) * cap >= fps

SkipAndRemember(c) ==  \* mutation: the last frame that was read is remembered
  /\ Decodes(c) /\ ~Due(Len(film')) /\ sampled' = Len(film')
  /\ UNCHANGED vars

Skip(c) ==
  /\ Decodes(c) /\ ~Due(Len(film'))
  /\ UNCHANGED <<vars, sampled>>

(* BlinkDetector.update                                                    *)
Update(t, c) ==
  IF c = NoFace THEN FaceLost(t) ELSE StillOpen(t, c) \/ StillClosed(t, c) \/ Reopens(t, c)

(* Stamps are strictly increasing whole milliseconds.                      *)
Stamp(n) == Larger(TimeOf(n), lastT + 1)

Analyze(c) ==
  /\ Decodes(c) /\ Due(Len(film')) /\ sampled' = Len(film')
  /\ Update(Stamp(Len(film')), c)

(* The last frame was read, and the detector is finished.                  *)
EndOfVideo ==
  /\ stage = "decoding"
  /\ stage' = IF film = <<>> THEN "failed" ELSE "analysed"
  /\ IF Closed THEN Finish ELSE UNCHANGED vars
  /\ UNCHANGED <<fps, cap, film, sampled>>

(* One frame too many, a time budget that is over, a frame too large, a    *)
(* failing analysis: no result.                                            *)
Abort ==
  /\ stage = "decoding" /\ stage' = "failed"
  /\ UNCHANGED <<vars, fps, cap, film, sampled>>

VideoNext ==
  \/ stage = "live" /\ Next /\ UNCHANGED videoVars
  \/ \E c \in FilmClosures : Skip(c) \/ Analyze(c)
  \/ EndOfVideo \/ Abort

VideoSpec == VideoInit /\ [][VideoNext]_allVars

-----------------------------------------------------------------------------
(* Properties                                                              *)

Shut(n) == film[n] \in CloseThreshold..Full
Wide(n) == film[n] \in 0..OpenThreshold

(* At most this many frames after one that is analysed, another one is.    *)
Stride == (fps + cap - 1) \div cap

(* The film shows closed eyes from frame s up to frame e, and open eyes    *)
(* before and after for as long as frames are skipped.                     *)
ShowsClosure(s, e) ==
  /\ s < e /\ e + Stride - 1 \in DOMAIN film
  /\ \A n \in s..(e - 1) : Shut(n)
  /\ \A n \in DOMAIN film : s - Stride <= n /\ n < s => Wide(n)
  /\ \A n \in e..(e + Stride - 1) : Wide(n)

(* "Frames above this rate are skipped" (video.py:151), and no blink with  *)
(* them: a closure that lasts min_duration_ms even without the frames that *)
(* may be skipped at its beginning is reported, with both ends no later    *)
(* than the skipped frames make them, and no earlier.                      *)
ClosureIsReported ==
  \A s, e \in DOMAIN film :
    LET first == s + Stride - 1
        last == e + Stride - 1
    IN ShowsClosure(s, e) /\ first < e /\ TimeOf(e) - TimeOf(first) >= MinDuration =>
         \E i \in DOMAIN events :
           /\ TimeOf(s) <= events[i].start /\ events[i].start <= TimeOf(first)
           /\ TimeOf(e) <= events[i].end /\ events[i].end <= TimeOf(last)
=============================================================================
