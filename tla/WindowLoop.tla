----------------------------- MODULE WindowLoop -----------------------------
(***************************************************************************)
(* The windowing of one AR result, as the program runs it: chunk_starts of *)
(* cantor-abi.cpp (acoustic_windows of minimax-chunking.cpp and            *)
(* chunk_starts of pipeline.cpp are the same loop), then the song the      *)
(* DECODE stage assembles from the decoded windows: one crop and one       *)
(* append per window.                                                      *)
(*                                                                         *)
(* Lengths are in latents; a latent is 512 samples.                        *)
(***************************************************************************)
EXTENDS AcousticWindows

CONSTANT FrameCounts  \* numbers of AR frames to window

ASSUME FrameCountsAssumption == FrameCounts \subseteq Nat \ {0}

\* Latents the song gains with every window but the last.
Stride == LatentFrames(WindowFrames) - 2 * OverlapLatents

\* They are the latents of one hop, rounded up: 345 for 344.53.
ASSUME StrideAssumption == 441 * HopFrames \in 128 * (Stride - 1) .. 128 * Stride

VARIABLES
  frames,     \* AR frames of the result being windowed
  start,      \* the loop variable of chunk_starts
  starts,     \* the starts pushed so far
  kept,       \* <<from, to>> of each window assembled so far
  pc

vars == <<frames, start, starts, kept, pc>>

Init ==
  /\ frames \in FrameCounts
  /\ start = 0
  /\ starts = <<>>
  /\ kept = <<>>
  /\ pc = "window"

\* frames <= 200: the single window at 0.
OneWindow ==
  /\ pc = "window"
  /\ frames <= WindowFrames
  /\ starts' = <<0>>
  /\ pc' = "assemble"
  /\ UNCHANGED <<frames, start, kept>>

\* Mutants: the bound is inclusive; the loop stops a whole window early.
StartLeftInclusive == start <= frames - HopFrames
StartLeftOfFullWindow == start < frames - WindowFrames

StartLeft == start < frames - HopFrames

\* One iteration of the loop over window starts.
PushStart ==
  /\ pc = "window"
  /\ frames > WindowFrames
  /\ StartLeft
  /\ starts' = Append(starts, start)
  /\ start' = start + HopFrames
  /\ UNCHANGED <<frames, kept, pc>>

EndLoop ==
  /\ pc = "window"
  /\ frames > WindowFrames
  /\ ~StartLeft
  /\ pc' = "assemble"
  /\ UNCHANGED <<frames, start, starts, kept>>

LoopFrames(i) == Least(WindowFrames, frames - starts[i])

\* DECODE crops the next decoded window and appends it to the song.
AppendWindow ==
  LET i == Len(kept) + 1
      n == LatentFrames(LoopFrames(i))
  IN  /\ pc = "assemble"
      /\ i <= Len(starts)
      /\ kept' = Append(kept, <<KeptFrom(i, n), KeptTo(i, Len(starts), n)>>)
      /\ UNCHANGED <<frames, start, starts, pc>>

Finish ==
  /\ pc = "assemble"
  /\ Len(kept) = Len(starts)
  /\ pc' = "done"
  /\ UNCHANGED <<frames, start, starts, kept>>

Next == OneWindow \/ PushStart \/ EndLoop \/ AppendWindow \/ Finish

Spec == Init /\ [][Next]_vars

-----------------------------------------------------------------------------
TypeOK ==
  /\ frames \in FrameCounts
  /\ start \in Nat
  /\ starts \in Seq(Nat)
  /\ kept \in Seq(Nat \X (Nat \ {0}))
  /\ pc \in {"window", "assemble", "done"}

(***************************************************************************)
(* The loop ends with exactly the windows of the closed forms, which is    *)
(* what lets the stage models use the closed forms.                        *)
(***************************************************************************)
LoopMatchesClosedForm ==
  pc # "window" =>
    starts = [i \in 1 .. WindowCount(frames) |-> WindowStart(i)]

(***************************************************************************)
(* No AR frame is lost and none is projected more than twice: each window  *)
(* but the last is full, the next one starts inside it and the one after   *)
(* that does not, and the last ends at the last frame.                     *)
(***************************************************************************)
WindowsTile ==
  pc # "window" =>
    /\ \A i \in 1 .. Len(starts) - 1 :
         /\ LoopFrames(i) = WindowFrames
         /\ starts[i + 1] < starts[i] + WindowFrames
         /\ i + 2 <= Len(starts) => starts[i + 2] >= starts[i] + WindowFrames
    /\ starts[Len(starts)] + LoopFrames(Len(starts)) = frames

(***************************************************************************)
(* Every window that has a successor carries exactly OverlapLatents        *)
(* latents into it, and the successor is long enough to take them all:     *)
(* denoise_chunk_resumable clamps the overlap to both, and no request ever *)
(* reaches the clamp.                                                      *)
(***************************************************************************)
CarryIsFull ==
  pc # "window" =>
    \A i \in 1 .. Len(starts) - 1 :
      LET n == LatentFrames(LoopFrames(i))
      IN  /\ CarryTo(n) - CarryFrom(n) = OverlapLatents
          /\ LatentFrames(LoopFrames(i + 1)) >= OverlapLatents

(***************************************************************************)
(* The seams of the song: latent CarryFrom(n) + k of window i is latent k  *)
(* of window i + 1, so the last latent kept of one window is followed by   *)
(* the next latent of the other: nothing is repeated and nothing skipped,  *)
(* and the seam lies inside the carried latents.                           *)
(***************************************************************************)
SeamsMeet ==
  \A i \in 1 .. Len(kept) - 1 :
    LET n == LatentFrames(LoopFrames(i))
    IN  /\ kept[i][2] - CarryFrom(n) = kept[i + 1][1]
        /\ kept[i][2] \in CarryFrom(n) .. CarryTo(n)
        /\ kept[i][1] < kept[i][2]

(***************************************************************************)
(* The song is never shorter than its AR frames and outgrows them by less  *)
(* than one latent (12 ms) a window: the stride of 345 latents stands for  *)
(* 100 frames, which are 344.53.                                           *)
(***************************************************************************)
SongLatents ==
  LET total[i \in 0 .. Len(kept)] ==
        IF i = 0 THEN 0 ELSE total[i - 1] + (kept[i][2] - kept[i][1])
  IN  total[Len(kept)]

DriftBounded ==
  pc = "done" =>
    SongLatents - LatentFrames(frames) \in 0 .. Len(starts) - 1
=============================================================================
