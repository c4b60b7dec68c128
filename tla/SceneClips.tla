----------------------------- MODULE SceneClips ------------------------------
(***************************************************************************)
(* Scenes and clips of one video (preprocessing stages 5 and 6 and the     *)
(* part of _persist_artifacts that stores clips): the frames that passed   *)
(* the quality filter are compared one with the next, a change of picture  *)
(* begins a scene, a scene gives one clip or several, and each clip goes   *)
(* to MinIO under a key made of the video and the scene.                   *)
(*                                                                         *)
(* Time is in one unit throughout, of which the code has milliseconds.     *)
(***************************************************************************)
EXTENDS Integers, Sequences, FiniteSets

CONSTANTS
    VideoLengths,   \* how long the videos are that come
    FrameInterval,  \* FRAME_EXTRACTION_INTERVAL_SECONDS
    MinClip, DefaultClip, MaxClip

ASSUME ClipAssumption ==
    /\ VideoLengths \subseteq Nat \ {0}
    /\ FrameInterval \in Nat \ {0}
    /\ MinClip \in Nat /\ DefaultClip \in Nat /\ MaxClip \in Nat \ {0}
    /\ MinClip <= MaxClip

VARIABLES
    stage,       \* where _run_stages or _persist_artifacts is
    length,      \* video_duration_ms, 0 when ffprobe cannot tell
    frames,      \* timestamps of the frames that are still to be compared
    boundaries,  \* timestamps where a scene begins
    scenes,      \* sequence of scenes
    windowed,    \* scenes that have all their clips
    clips,       \* clips cut so far, in order
    stored,      \* stored[n]: what the object of scene n in MinIO shows
    announced    \* the clips of the event

clipVars == <<stage, length, frames, boundaries, scenes, windowed, clips, stored,
              announced>>

NoObject == [start |-> 0, end |-> 0]
Longest == CHOOSE n \in VideoLengths : \A k \in VideoLengths : k <= n

ClipsInit ==
    /\ stage = "idle"
    /\ length = 0
    /\ frames = {}
    /\ boundaries = {}
    /\ scenes = << >>
    /\ windowed = 0
    /\ clips = << >>
    /\ stored = [n \in 0..Longest |-> NoObject]
    /\ announced = << >>

\* The frames that FFmpeg extracts from a video of length n, by timestamp.
FramesOf(n) == {t \in 0..(n - 1) : t % FrameInterval = 0}

FirstOf(S) == CHOOSE t \in S : \A u \in S : t <= u
LaterThan(S, t) == {u \in S : u > t}

\* A video comes with the frames that are good enough, at least one.  Its
\* duration counts as 0 when ffprobe fails, whatever frames there are.
NewVideo ==
    /\ stage = "idle"
    /\ stage' = "compare"
    /\ \E real \in VideoLengths :
          /\ length' \in {real, 0}
          /\ \E good \in SUBSET FramesOf(real) \ {{}} :
                frames' = good \ {FirstOf(good)}
    /\ boundaries' = {0}
    /\ scenes' = << >>
    /\ windowed' = 0
    /\ clips' = << >>
    /\ stored' = [n \in 0..Longest |-> NoObject]
    /\ announced' = << >>

-----------------------------------------------------------------------------
(* SceneSegmenter.segment                                                  *)

\* The next frame looks different from the one before it, or it does not, or
\* one of the two cannot be read.
CompareFrame ==
    /\ stage = "compare"
    /\ frames # {}
    /\ \/ boundaries' = boundaries \cup {FirstOf(frames)}
       \/ UNCHANGED boundaries
    /\ frames' = frames \ {FirstOf(frames)}
    /\ UNCHANGED <<stage, length, scenes, windowed, clips, stored, announced>>

\* sorted(set(boundaries)), paired each with the next.
Paired(S) ==
    LET starts == {t \in S : LaterThan(S, t) # {}}
        rank(t) == Cardinality({u \in starts : u <= t})
    IN  [i \in 1..Cardinality(starts) |->
            LET t == CHOOSE u \in starts : rank(u) = i
            IN  [id |-> i - 1, start |-> t, end |-> FirstOf(LaterThan(S, t))]]

\* One scene for all of the video when no other came out.
OrWhole(list) ==
    IF list = << >> THEN <<[id |-> 0, start |-> 0, end |-> length]>> ELSE list

\* Fault: the scene that is still open at the end is forgotten.
MakeClosedScenes ==
    /\ stage = "compare"
    /\ frames = {}
    /\ scenes' = OrWhole(Paired(boundaries))
    /\ stage' = "cut"
    /\ UNCHANGED <<length, frames, boundaries, windowed, clips, stored, announced>>

MakeScenes ==
    /\ stage = "compare"
    /\ frames = {}
    /\ scenes' = OrWhole(Paired(boundaries \cup {length}))
    /\ stage' = "cut"
    /\ UNCHANGED <<length, frames, boundaries, windowed, clips, stored, announced>>

\* scene_for_timestamp: the last scene for what none of them has.
SceneOf(t) ==
    LET of == {i \in DOMAIN scenes : scenes[i].start <= t /\ t < scenes[i].end}
    IN  scenes[IF of = {} THEN Len(scenes) ELSE FirstOf(of)].id

-----------------------------------------------------------------------------
(* ClipGenerator.generate                                                  *)

Scene == scenes[windowed + 1]
Cutting == stage = "cut" /\ windowed < Len(scenes)
AddClip(start, end) ==
    clips' = Append(clips, [scene |-> Scene.id, start |-> start, end |-> end])

LargerOf(m, n) == IF m < n THEN n ELSE m
SmallerOf(m, n) == IF m < n THEN m ELSE n

\* Fault: the end of the video is forgotten.
PaddedPastEnd(s) ==
    LET long == s.end - s.start
        wanted == LargerOf(MinClip, SmallerOf(DefaultClip, long))
        start == LargerOf(0, s.start - (wanted - long) \div 2)
    IN  [start |-> start, end |-> start + wanted]

\* A scene below the minimum is extended on both sides.
Padded(s) ==
    LET long == s.end - s.start
        wanted == LargerOf(MinClip, SmallerOf(DefaultClip, long))
        start == LargerOf(0, s.start - (wanted - long) \div 2)
    IN  [start |-> start, end |-> SmallerOf(length, start + wanted)]

CutShortScene ==
    /\ Cutting
    /\ Scene.end - Scene.start < MinClip
    /\ AddClip(Padded(Scene).start, Padded(Scene).end)
    /\ windowed' = windowed + 1
    /\ UNCHANGED <<stage, length, frames, boundaries, scenes, stored, announced>>

CutWholeScene ==
    /\ Cutting
    /\ Scene.end - Scene.start \in MinClip..MaxClip
    /\ AddClip(Scene.start, Scene.end)
    /\ windowed' = windowed + 1
    /\ UNCHANGED <<stage, length, frames, boundaries, scenes, stored, announced>>

\* The end of the last clip, if it is of the scene at hand.
ScenePosition ==
    IF clips # << >> /\ clips[Len(clips)].scene = Scene.id
    THEN clips[Len(clips)].end ELSE Scene.start

\* One window of a scene above the maximum.
CutLongScene ==
    LET end == SmallerOf(ScenePosition + MaxClip, Scene.end)
    IN  /\ Cutting
        /\ Scene.end - Scene.start > MaxClip
        /\ AddClip(ScenePosition, end)
        /\ windowed' = IF end = Scene.end THEN windowed + 1 ELSE windowed
        /\ UNCHANGED <<stage, length, frames, boundaries, scenes, stored, announced>>

ClipsCut ==
    /\ stage = "cut"
    /\ windowed = Len(scenes)
    /\ stage' = "store"
    /\ UNCHANGED <<length, frames, boundaries, scenes, windowed, clips, stored,
                   announced>>

-----------------------------------------------------------------------------
(* The clips in _persist_artifacts                                         *)

\* upload_clip: the key is {video_id}/scene_{scene_id}.mp4.
StoreClip ==
    LET clip == clips[Len(announced) + 1]
    IN  /\ stage = "store"
        /\ Len(announced) < Len(clips)
        /\ stored' = [stored EXCEPT
              ![clip.scene] = [start |-> clip.start, end |-> clip.end]]
        /\ announced' = Append(announced, clip)
        /\ UNCHANGED <<stage, length, frames, boundaries, scenes, windowed, clips>>

AnnounceClips ==
    /\ stage = "store"
    /\ Len(announced) = Len(clips)
    /\ stage' = "announced"
    /\ UNCHANGED <<length, frames, boundaries, scenes, windowed, clips, stored,
                   announced>>

\* FFmpeg or an upload fails, or the event is out: the next video.
NextVideo ==
    /\ stage \in {"cut", "store", "announced"}
    /\ stage' = "idle"
    /\ UNCHANGED <<length, frames, boundaries, scenes, windowed, clips, stored,
                   announced>>

ClipsNext ==
    \/ NewVideo \/ CompareFrame \/ MakeScenes
    \/ CutShortScene \/ CutWholeScene \/ CutLongScene \/ ClipsCut
    \/ StoreClip \/ AnnounceClips \/ NextVideo

ClipsSpec == ClipsInit /\ [][ClipsNext]_clipVars

-----------------------------------------------------------------------------
(* Properties                                                              *)

\* Whatever frames the filter dropped and wherever the picture changes, the
\* scenes follow each other from the start of the video to its end, and a
\* frame is told the scene it lies in, or the last one when it lies in none.
\* Only where ffprobe could not tell the duration is the end not that of the
\* video: the last change of the picture, or the start if there is none.
ScenesPartition ==
    scenes # << >> =>
        /\ scenes[1].start = 0
        /\ length # 0 => scenes[Len(scenes)].end = length
        /\ \A i \in 1..(Len(scenes) - 1) : scenes[i].end = scenes[i + 1].start
        /\ \A t \in UNION {FramesOf(n) : n \in VideoLengths} :
              \E i \in DOMAIN scenes :
                  /\ scenes[i].id = SceneOf(t)
                  /\ scenes[i].start <= t
                  /\ t < scenes[i].end \/ i = Len(scenes)

Shown(n) ==
    UNION {clips[k].start..(clips[k].end - 1) :
              k \in {j \in DOMAIN clips : clips[j].scene = n}}

\* The clips of a scene show every moment of it, nothing beyond the video, and
\* none is longer than the maximum (clip_generator.py, module text).  Where
\* ffprobe could not tell the duration, that is so for the scenes that need no
\* padding, and not for others: a padded clip then ends at 0, where it begins
\* or before, and FFmpeg is asked for no length or a negative one.
ClipsCoverScenes ==
    stage \in {"store", "announced"} =>
        /\ \A i \in DOMAIN scenes :
              length # 0 \/ scenes[i].end - scenes[i].start >= MinClip =>
                  scenes[i].start..(scenes[i].end - 1) \subseteq Shown(scenes[i].id)
        /\ \A k \in DOMAIN clips :
              /\ clips[k].end - clips[k].start <= MaxClip
              /\ length # 0 =>
                    /\ 0 <= clips[k].start
                    /\ clips[k].start < clips[k].end
                    /\ clips[k].end <= length

\* The event gives every clip the key of an object that shows this clip
\* (frame_extracted.py, GeneratedClip).
EachClipKept ==
    stage = "announced" =>
        \A k \in DOMAIN announced :
            stored[announced[k].scene] =
                [start |-> announced[k].start, end |-> announced[k].end]
=============================================================================
