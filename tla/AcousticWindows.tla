-------------------------- MODULE AcousticWindows --------------------------
(***************************************************************************)
(* The fixed acoustic geometry of MiniMax Music 3: how an AR result of     *)
(* `frames` frames (25 a second) is cut into overlapping windows, how many *)
(* latents a window becomes, which of them prompt the next window, and     *)
(* which samples of a decoded window reach the song.                       *)
(*                                                                         *)
(* The code repeats this geometry in three places (cantor-abi.cpp,         *)
(* minimax-chunking.cpp and pipeline.cpp) as loops over literals.  Here it *)
(* is a set of closed forms over constants, so that the stages can be      *)
(* checked with small windows and the geometry itself with the real ones;  *)
(* WindowLoop runs the loop of the code against them.                      *)
(***************************************************************************)
EXTENDS Integers, Sequences

CONSTANTS
  WindowFrames,     \* AR frames of a full window            (200)
  HopFrames,        \* AR frames between window starts       (100)
  OverlapLatents,   \* latents carried into the next window  (172)
  CropLeft,         \* latents cut from a window's front     (86)
  CropRight         \* latents cut from a window's back      (344 - 86)

\* Windows overlap by half, as 200 frames every 100 do.
ASSUME WindowAssumption ==
  /\ HopFrames \in Nat \ {0}
  /\ WindowFrames = 2 * HopFrames

Least(a, b) == IF a <= b THEN a ELSE b
Greatest(a, b) == IF a >= b THEN a ELSE b

(***************************************************************************)
(* A result that fits one window is one window; a longer one starts a      *)
(* window at 0, HopFrames, 2 * HopFrames, ... below frames - HopFrames.    *)
(***************************************************************************)
WindowCount(frames) ==
  IF frames <= WindowFrames THEN 1 ELSE (frames - 1) \div HopFrames

WindowStart(i) == (i - 1) * HopFrames

FramesOf(frames, i) == Least(WindowFrames, frames - WindowStart(i))

(***************************************************************************)
(* Condition frames, that is latents, of a window of n AR frames.  The     *)
(* code evaluates n * 44100 / 24000 * 960 / 512 in double precision and    *)
(* truncates; for every n up to 9000 that is this integer quotient.        *)
(***************************************************************************)
LatentFrames(n) == (n * 441) \div 128

(***************************************************************************)
(* The latents [CarryFrom, CarryTo) of a finished window of n latents      *)
(* prompt the next one.                                                    *)
(***************************************************************************)
\* Mutant: the carry starts where it should end.
CarryFromTail(n) == Greatest(0, n - OverlapLatents)

CarryFrom(n) == Greatest(0, n - 2 * OverlapLatents)
CarryTo(n) == Greatest(CarryFrom(n), n - OverlapLatents)

(***************************************************************************)
(* The latents [KeptFrom, KeptTo) of window i out of `count`, n latents    *)
(* long, are the ones whose samples are kept.  The code counts samples,    *)
(* 512 to a latent.                                                        *)
(***************************************************************************)
\* Mutant: the first window is cropped in front too.
KeptFromCropsFirst(i, n) == Least(CropLeft, n)

KeptFrom(i, n) == IF i = 1 THEN 0 ELSE Least(CropLeft, n)
\* Mutants: the last window is cropped too; the back is cropped like the front.
KeptToCropsLast(i, count, n) == Greatest(KeptFrom(i, n), n - CropRight)
KeptToCropsLeft(i, count, n) ==
  Greatest(KeptFrom(i, n), IF i = count THEN n ELSE n - CropLeft)

KeptTo(i, count, n) ==
  Greatest(KeptFrom(i, n), IF i = count THEN n ELSE n - CropRight)

-----------------------------------------------------------------------------
(***************************************************************************)
(* What the geometry asks of its numbers: a full window is longer than two *)
(* overlaps, the shortest window that follows another takes a whole one,   *)
(* and the two crops meet inside it.                                       *)
(***************************************************************************)
ASSUME LatentAssumption ==
  /\ OverlapLatents \in Nat \ {0}
  /\ CropLeft \in 0 .. OverlapLatents
  /\ CropRight = 2 * OverlapLatents - CropLeft
  /\ LatentFrames(WindowFrames) > 2 * OverlapLatents
  /\ LatentFrames(HopFrames + 1) >= OverlapLatents
=============================================================================
