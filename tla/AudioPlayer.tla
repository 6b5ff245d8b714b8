------------------------------ MODULE AudioPlayer ------------------------------
(***************************************************************************)
(* MbAudioPlayer (media/mb_audio_player.cc): a clip that is fetched and    *)
(* decoded as a whole, packet by packet, each in a task of its own, and a  *)
(* clock that runs from an anchor, while the element plays, pauses, seeks  *)
(* and changes the rate, and at any time shuts the player down.            *)
(*                                                                         *)
(* Time is counted in ticks of the playback timer, which may come late.    *)
(* Packets and frames are their timestamps.                                *)
(***************************************************************************)
EXTENDS Integers, SequencesExt

CONSTANTS
  Clips,      \* [duration, packets]; no packets without a video to decode
  Rates,      \* playback rates, in Nat
  NoFrame,
  MaxSeeks,   \* bound: seeks that are not finished
  MaxCalls    \* bound: calls of the element that anchor the clock again

VARIABLES
  network, ready,   \* network_state_, ready_state_
  has_media,        \* has_audio_ or has_video_
  duration,
  pending_packets, decode_idx,
  decoding,         \* the task or callback that the decoding waits for
  frames, current_frame,
  anchor_media,
  elapsed,          \* now - anchor_ticks_, the rate it has run at being rate
  rate, paused, ended, seeking,
  timer,            \* play_timer_ runs
  seeks,            \* completions of seeks that are posted
  alive,            \* weak pointers are good: Shutdown was not called
  position,         \* history: where the clip is, moved on with the time
  calls

playerVars == <<network, ready, has_media, duration, pending_packets, decode_idx, decoding,
                frames, current_frame, anchor_media, elapsed, rate, paused, ended, seeking,
                timer, seeks, alive, position, calls>>

stream == <<network, ready, has_media, duration, pending_packets, decode_idx, decoding, frames>>
clock  == <<anchor_media, elapsed, rate, paused, ended, seeking, timer, seeks, position, calls>>

Init ==
  /\ network = "empty" /\ ready = "nothing" /\ has_media = FALSE /\ duration = 0
  /\ pending_packets = <<>> /\ decode_idx = 0 /\ decoding = "no"
  /\ frames = <<>> /\ current_frame = NoFrame
  /\ anchor_media = 0 /\ elapsed = 0 /\ rate = 1
  /\ paused = TRUE /\ ended = FALSE /\ seeking = FALSE
  /\ timer = FALSE /\ seeks = 0 /\ alive = TRUE /\ position = 0 /\ calls = 0

------------------------------------------------------------------------------
(* The clock.                                                              *)
Least(a, b) == IF a < b THEN a ELSE b

CurrentTime == IF paused THEN anchor_media ELSE Least(anchor_media + elapsed * rate, duration)

(* The frame on screen at t: the last of those at the front that have      *)
(* come, or the first.                                                     *)
FrameAt(fs, t) ==
  LET come == {n \in DOMAIN fs : \A i \in 1 .. n : fs[i] <= t}
  IN  fs[Cardinality(come) + IF come = {} THEN 1 ELSE 0]

UpdateCurrentFrameForTime(t) ==
  current_frame' = IF frames = <<>> THEN current_frame ELSE FrameAt(frames, t)

Anchored(t) == anchor_media' = t /\ elapsed' = 0
Called == calls < MaxCalls /\ calls' = calls + 1

Play ==
  /\ alive /\ has_media /\ Called
  /\ Anchored(IF ended THEN 0 ELSE CurrentTime)
  /\ position' = IF ended THEN 0 ELSE position
  /\ ended' = FALSE /\ paused' = FALSE /\ timer' = TRUE
  /\ UNCHANGED <<stream, current_frame, rate, seeking, seeks, alive>>

Pause ==
  /\ alive /\ ~paused
  /\ Anchored(CurrentTime)
  /\ paused' = TRUE /\ timer' = FALSE
  /\ UNCHANGED <<stream, current_frame, rate, ended, seeking, seeks, alive, position, calls>>

(* The completion is posted: the element is still in its own seek().       *)
Seek(t) ==
  LET to == Least(t, duration)
  IN  /\ alive /\ seeks < MaxSeeks /\ Called
      /\ Anchored(to) /\ position' = to
      /\ ended' = FALSE /\ seeking' = TRUE /\ seeks' = seeks + 1
      /\ UpdateCurrentFrameForTime(to)
      /\ UNCHANGED <<stream, rate, paused, timer, alive>>

SeekCompletes ==
  /\ seeks > 0 /\ seeks' = seeks - 1
  /\ seeking' = (seeking /\ ~alive)
  /\ UNCHANGED <<stream, current_frame, anchor_media, elapsed, rate, paused, ended, timer, alive,
                 position, calls>>

(* Mutant: the new rate holds for the time that has passed as well.        *)
NotAnchored(t) == UNCHANGED <<anchor_media, elapsed>>

AnchoredForRate(t) == Anchored(t)

SetRate(r) ==
  /\ alive /\ Called
  /\ AnchoredForRate(CurrentTime) /\ rate' = r
  /\ UNCHANGED <<stream, current_frame, paused, ended, seeking, timer, seeks, alive, position>>

(* Time passes, and the timer with it or later.  (It is followed until     *)
(* shortly after the clip's end.)                                          *)
TimePasses ==
  /\ ~paused /\ elapsed <= duration
  /\ elapsed' = elapsed + 1
  /\ position' = Least(position + rate, duration)
  /\ UNCHANGED <<stream, current_frame, anchor_media, rate, paused, ended, seeking, timer, seeks,
                 alive, calls>>

OnPlaybackTick ==
  /\ timer
  /\ UpdateCurrentFrameForTime(CurrentTime)
  /\ IF CurrentTime >= duration
     THEN /\ anchor_media' = duration /\ paused' = TRUE /\ ended' = TRUE /\ timer' = FALSE
          /\ elapsed' = 0
     ELSE UNCHANGED <<anchor_media, paused, ended, timer, elapsed>>
  /\ UNCHANGED <<stream, rate, seeking, seeks, alive, position, calls>>

Paint ==
  /\ UpdateCurrentFrameForTime(CurrentTime)
  /\ UNCHANGED <<stream, clock, alive>>

------------------------------------------------------------------------------
(* Loading.  What is posted or called back after Shutdown does nothing.    *)
Load ==
  /\ alive /\ network = "empty"
  /\ network' = "loading" /\ decoding' = "report"
  /\ UNCHANGED <<ready, has_media, duration, pending_packets, decode_idx, frames, current_frame,
                 clock, alive>>

DecodeAndReport(clip) ==
  /\ alive /\ decoding = "report"
  /\ has_media' = TRUE /\ network' = "loaded"
  /\ duration' = clip.duration /\ pending_packets' = clip.packets
  /\ IF clip.packets = <<>> THEN ready' = "enough" /\ decoding' = "no"
     ELSE ready' = "metadata" /\ decoding' = "initialize"
  /\ UNCHANGED <<decode_idx, frames, current_frame, clock, alive>>

ReportsAnError ==
  /\ alive /\ decoding = "report"
  /\ network' = "error" /\ decoding' = "no"
  /\ UNCHANGED <<ready, has_media, duration, pending_packets, decode_idx, frames, current_frame,
                 clock, alive>>

Sorted(fs) == SetToSortSeq(ToSet(fs), <)

FinishVideoDecode ==
  /\ pending_packets' = <<>> /\ decoding' = "no" /\ ready' = "enough"
  /\ frames' = Sorted(frames)
  /\ current_frame' = IF frames = <<>> THEN current_frame ELSE Sorted(frames)[1]
  /\ UNCHANGED <<network, has_media, duration, decode_idx, clock, alive>>

(* The next packet, or the end of the stream.                              *)
Feed(idx) ==
  /\ IF idx < Len(pending_packets) THEN decode_idx' = idx + 1 /\ decoding' = "packet"
     ELSE decode_idx' = idx /\ decoding' = "flush"
  /\ UNCHANGED <<network, ready, has_media, duration, pending_packets, frames, current_frame,
                 clock, alive>>

OnSeqDecoderInitialized(ok) ==
  /\ alive /\ decoding = "initialize"
  /\ IF ok /\ pending_packets # <<>> THEN Feed(0) ELSE FinishVideoDecode

DecodeNextPacket == alive /\ decoding = "next" /\ Feed(decode_idx)

(* The decoder may hold frames back, for any number of packets.            *)
OnSeqFrameDecoded ==
  /\ alive /\ decoding \in {"packet", "flush"}
  /\ \E i \in 1 .. decode_idx :
       /\ pending_packets[i] \notin ToSet(frames)
       /\ frames' = Append(frames, pending_packets[i])
  /\ UNCHANGED <<network, ready, has_media, duration, pending_packets, decode_idx, decoding,
                 current_frame, clock, alive>>

OnPacketDecoded(ok) ==
  /\ alive /\ decoding = "packet"
  /\ IF ok THEN /\ decoding' = "next"
                /\ UNCHANGED <<network, ready, has_media, duration, pending_packets, decode_idx,
                               frames, current_frame, clock, alive>>
     ELSE FinishVideoDecode

OnFlushDecoded == alive /\ decoding = "flush" /\ FinishVideoDecode

Shutdown ==
  /\ alive /\ alive' = FALSE
  /\ timer' = FALSE
  /\ UNCHANGED <<stream, current_frame, anchor_media, elapsed, rate, paused, ended, seeking, seeks,
                 position, calls>>

Decodes ==
  \/ ReportsAnError \/ \E clip \in Clips : DecodeAndReport(clip)
  \/ \E ok \in BOOLEAN : OnSeqDecoderInitialized(ok) \/ OnPacketDecoded(ok)
  \/ DecodeNextPacket \/ OnFlushDecoded

Next ==
  \/ Play \/ Pause \/ SeekCompletes \/ TimePasses \/ OnPlaybackTick \/ Paint
  \/ \E t \in 0 .. duration + 1 : Seek(t)
  \/ \E r \in Rates : SetRate(r)
  \/ Load \/ Decodes \/ OnSeqFrameDecoded \/ Shutdown

------------------------------------------------------------------------------
(* Wherever the clock was anchored, it shows how far the clip has come; it *)
(* runs with its timer, and a clip that has ended is at its end.           *)
ClockIsTrue ==
  /\ CurrentTime = position
  /\ alive => (timer <=> ~paused)
  /\ ended => paused /\ position = duration
  /\ alive /\ seeking => seeks > 0

(* What is painted is the latest of the clip's frames that have come.      *)
PictureIsInTime ==
  ready = "enough" /\ frames # <<>> =>
    LET f == FrameAt(frames, CurrentTime)
    IN  /\ f <= CurrentTime \/ \A i \in DOMAIN frames : f <= frames[i]
        /\ \A i \in DOMAIN frames : frames[i] <= CurrentTime => frames[i] <= f

(* An element that has been told of a clip's metadata is not left there:   *)
(* something is outstanding that leads to its data.                        *)
DecodingGoesOn ==
  alive => /\ network = "loading" => decoding = "report"
           /\ ready = "metadata" <=> decoding \notin {"no", "report"}

PlayerIsSound == ClockIsTrue /\ PictureIsInTime /\ DecodingGoesOn

(* A clip that is loaded can be played in the end, or is in error.         *)
Prepared == alive => network \in {"empty", "error"} \/ ready = "enough"
=============================================================================
