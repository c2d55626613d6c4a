-------------------------- MODULE WindowLoopProofs --------------------------
(***************************************************************************)
(* The loop of chunk_starts computes the closed forms, and the song that   *)
(* DECODE assembles from its windows has no gap and no repetition, for     *)
(* every number of frames and every geometry that meets the assumptions.   *)
(*                                                                         *)
(* LoopInv says where the loop is; it gives LoopMatchesClosedForm, and     *)
(* with the lemmas on the closed forms the other properties.  The length   *)
(* of the song is a sum over its windows: SongSum is proved by induction,  *)
(* as the absence of a least number of windows it fails for, and           *)
(* StrideAssumption (a hop is a stride of latents, rounded up) compares    *)
(* the sum with the frames.                                                *)
(***************************************************************************)
EXTENDS WindowLoop, BoundariesProofs

LoopInv ==
  /\ frames \in FrameCounts /\ frames \in Nat \ {0}
  /\ starts \in Seq(Nat)
  /\ pc \in {"window", "assemble", "done"} /\ start \in Nat
  /\ pc = "window" =>
       /\ start = Len(starts) * HopFrames
       /\ start < frames
       /\ Len(starts) > 0 => frames > WindowFrames
       /\ \A i \in 1 .. Len(starts) : starts[i] = WindowStart(i)
       /\ kept = <<>>
  /\ pc # "window" =>
       /\ Len(starts) = WindowCount(frames)
       /\ \A i \in 1 .. Len(starts) : starts[i] = WindowStart(i)
  /\ kept \in Seq(Int \X Int)
  /\ pc # "window" => Len(kept) <= Len(starts)
  /\ pc = "done" => Len(kept) = Len(starts)
  /\ \A i \in 1 .. Len(kept) :
       kept[i] = <<KeptFrom(i, LatentFrames(FramesOf(frames, i))),
                   KeptTo(i, Len(starts), LatentFrames(FramesOf(frames, i)))>>

LEMMA LoopInvInductive == Spec => []LoopInv
<1> USE WindowAssumption, FrameCountsAssumption
<1>1. Init => LoopInv
  <2> SUFFICES ASSUME Init PROVE LoopInv
    OBVIOUS
  <2>1. starts = <<>> /\ kept = <<>> /\ Len(starts) = 0 /\ Len(kept) = 0
    BY DEF Init
  <2>2. starts \in Seq(Nat) /\ kept \in Seq(Int \X Int)
    BY <2>1
  <2>3. start = Len(starts) * HopFrames /\ start < frames
    BY <2>1 DEF Init
  <2> QED BY <2>1, <2>2, <2>3 DEF Init, LoopInv
<1>2. LoopInv /\ [Next]_vars => LoopInv'
  <2> SUFFICES ASSUME LoopInv, [Next]_vars PROVE LoopInv'
    OBVIOUS
  <2>1. CASE OneWindow
    <3>1. WindowCount(frames) = 1 /\ WindowStart(1) = 0
      BY <2>1 DEF OneWindow, WindowCount, WindowStart
    <3>2. starts' = <<0>> /\ Len(starts') = 1 /\ starts'[1] = 0
      BY <2>1 DEF OneWindow
    <3>3. /\ kept' = <<>> /\ Len(kept') = 0 /\ frames' = frames
          /\ pc' = "assemble" /\ start' \in Nat
      BY <2>1 DEF OneWindow, LoopInv
    <3>4. kept' \in Seq(Int \X Int) /\ starts' \in Seq(Nat)
      BY <3>2, <3>3
    <3> QED BY <3>1, <3>2, <3>3, <3>4 DEF LoopInv
  <2>2. CASE PushStart
    <3>1. start \in Nat /\ start = Len(starts) * HopFrames
      BY <2>2 DEF PushStart, LoopInv
    <3>2. /\ starts' = Append(starts, start)
          /\ starts' \in Seq(Nat)
          /\ Len(starts') = Len(starts) + 1
          /\ \A i \in 1 .. Len(starts) : starts'[i] = starts[i]
          /\ starts'[Len(starts) + 1] = start
      BY <2>2, <3>1 DEF PushStart, LoopInv
    <3>3. start = WindowStart(Len(starts) + 1)
      BY <3>1 DEF WindowStart, LoopInv
    <3>4. start' = Len(starts') * HopFrames
      BY <2>2, <3>1, <3>2 DEF PushStart, LoopInv
    <3>5. start' < frames' /\ frames' > WindowFrames
      BY <2>2, <3>1 DEF PushStart, StartLeft, LoopInv
    <3>6. \A i \in 1 .. Len(starts') : starts'[i] = WindowStart(i)
      BY <2>2, <3>2, <3>3 DEF PushStart, LoopInv
    <3>7. kept' = <<>> /\ Len(kept') = 0 /\ pc' = "window" /\ frames' = frames
      BY <2>2 DEF PushStart, LoopInv
    <3>8. kept' \in Seq(Int \X Int)
      BY <3>7
    <3>9. \A i \in 1 .. Len(kept') : FALSE
      BY <3>7
    <3>10. frames' \in FrameCounts /\ frames' \in Nat \ {0} /\ start' \in Nat
      BY <2>2, <3>1, <3>7 DEF PushStart, LoopInv
    <3> QED BY ONLY <3>2, <3>4, <3>5, <3>6, <3>7, <3>8, <3>9, <3>10 DEF LoopInv
  <2>3. CASE EndLoop
    <3> DEFINE q == Len(starts)
    <3>1. /\ q \in Nat
          /\ start = q * HopFrames
          /\ q * HopFrames <= frames - 1
          /\ frames - 1 < q * HopFrames + HopFrames
      BY <2>3 DEF EndLoop, StartLeft, LoopInv
    <3>2. WindowCount(frames) = q
      <4> HIDE DEF q
      <4>0. frames - 1 \in Nat
        BY DEF LoopInv
      <4>1. (frames - 1) \div HopFrames = q
        BY <3>1, <4>0, QuotientUnique
      <4>2. ~(frames <= WindowFrames)
        BY <2>3 DEF EndLoop, LoopInv
      <4> QED BY <4>1, <4>2 DEF WindowCount
    <3>3. kept' = <<>> /\ Len(kept') = 0 /\ kept' \in Seq(Int \X Int)
      BY <2>3 DEF EndLoop, LoopInv
    <3> HIDE DEF q
    <3>4. Len(starts') = WindowCount(frames') /\ pc' # "window"
      BY <2>3, <3>2 DEF EndLoop, q
    <3> QED BY <2>3, <3>1, <3>3, <3>4 DEF EndLoop, LoopInv, q
  <2>4. CASE AppendWindow
    <3> DEFINE i == Len(kept) + 1
               n == LatentFrames(LoopFrames(i))
    <3>1. i \in 1 .. Len(starts) /\ starts[i] = WindowStart(i)
      BY <2>4 DEF AppendWindow, LoopInv
    <3>2. n = LatentFrames(FramesOf(frames, i))
      BY <3>1 DEF LoopFrames, FramesOf
    <3>3. FramesOf(frames, i) \in Nat
      BY <2>4, <3>1, WindowsInside DEF AppendWindow, LoopInv
    <3>4. n \in Nat
      BY <3>2, <3>3, LatentFramesMonotone
    <3>5. KeptFrom(i, n) \in Nat /\ KeptTo(i, Len(starts), n) \in Nat
      BY <3>1, <3>4, CropTyped DEF LoopInv
    <3>6. kept' = Append(kept, <<KeptFrom(i, n), KeptTo(i, Len(starts), n)>>)
      BY <2>4 DEF AppendWindow
    <3> HIDE DEF n
    <3>7. /\ kept' \in Seq(Int \X Int)
          /\ Len(kept') = i
          /\ \A j \in 1 .. Len(kept) : kept'[j] = kept[j]
          /\ kept'[i] = <<KeptFrom(i, n), KeptTo(i, Len(starts), n)>>
      BY <3>5, <3>6 DEF LoopInv
    <3>8. \A j \in 1 .. Len(kept') :
            kept'[j] = <<KeptFrom(j, LatentFrames(FramesOf(frames, j))),
                         KeptTo(j, Len(starts), LatentFrames(FramesOf(frames, j)))>>
      <4> TAKE j \in 1 .. Len(kept')
      <4>1. CASE j = i
        BY <3>2, <3>7, <4>1
      <4>2. CASE j # i
        <5>1. j \in 1 .. Len(kept)
          BY <3>7, <4>2 DEF LoopInv
        <5> QED BY <3>7, <5>1 DEF LoopInv
      <4> QED BY <4>1, <4>2
    <3> QED BY <2>4, <3>1, <3>7, <3>8 DEF AppendWindow, LoopInv
  <2>5. CASE Finish
    BY <2>5 DEF Finish, LoopInv
  <2>6. CASE UNCHANGED vars
    BY <2>6 DEF vars, LoopInv
  <2> QED BY <2>1, <2>2, <2>3, <2>4, <2>5, <2>6 DEF Next
<1> QED BY <1>1, <1>2, PTL DEF Spec

-----------------------------------------------------------------------------
(***************************************************************************)
(* When the loop is over, window i has the frames of the closed form.      *)
(***************************************************************************)
LEMMA FramesOfLoop ==
  ASSUME LoopInv, pc # "window"
  PROVE  \A i \in 1 .. Len(starts) : LoopFrames(i) = FramesOf(frames, i)
  BY DEF LoopInv, LoopFrames, FramesOf

(***************************************************************************)
(* chunk_starts pushes exactly the starts of the closed form.              *)
(***************************************************************************)
THEOREM ClosedForm == Spec => []LoopMatchesClosedForm
<1>1. LoopInv => LoopMatchesClosedForm
  BY DEF LoopInv, LoopMatchesClosedForm
<1> QED BY <1>1, LoopInvInductive, PTL

(***************************************************************************)
(* The windows tile the AR result: no frame is lost, and none is in more   *)
(* than two windows.                                                       *)
(***************************************************************************)
THEOREM Tiling == Spec => []WindowsTile
<1> USE WindowAssumption
<1>1. ASSUME LoopInv, pc # "window"
      PROVE  WindowsTile
  <2> DEFINE n == WindowCount(frames)
  <2>1. Len(starts) = n /\ n \in Nat \ {0}
    BY <1>1, WindowsInside DEF LoopInv
  <2>2. \A i \in 1 .. n : /\ starts[i] = WindowStart(i)
                          /\ LoopFrames(i) = FramesOf(frames, i)
                          /\ WindowStart(i) \in Nat
    BY <1>1, <2>1, FramesOfLoop, WindowsInside DEF LoopInv
  <2>3. /\ WindowStart(n) + FramesOf(frames, n) = frames
        /\ \A i \in 1 .. n - 1 :
             /\ FramesOf(frames, i) = WindowFrames
             /\ WindowStart(i + 1) = WindowStart(i) + HopFrames
    BY <1>1, WindowsCover DEF LoopInv
  <2> HIDE DEF n
  <2>4. starts[n] + LoopFrames(n) = frames
    BY <2>1, <2>2, <2>3
  <2>5. ASSUME NEW i \in 1 .. n - 1
        PROVE  /\ LoopFrames(i) = WindowFrames
               /\ starts[i + 1] < starts[i] + WindowFrames
               /\ i + 2 <= n => starts[i + 2] >= starts[i] + WindowFrames
    <3>1. i \in 1 .. n /\ i + 1 \in 1 .. n
      BY <2>1
    <3>2. starts[i + 1] = starts[i] + HopFrames /\ starts[i] \in Nat
      BY <2>2, <2>3, <3>1
    <3>3. i + 2 <= n => starts[i + 2] = starts[i] + HopFrames + HopFrames
      <4> SUFFICES ASSUME i + 2 <= n
                   PROVE  starts[i + 2] = starts[i] + HopFrames + HopFrames
        OBVIOUS
      <4>1. i + 1 \in 1 .. n - 1 /\ i + 2 \in 1 .. n /\ (i + 1) + 1 = i + 2
        BY <2>1
      <4>2. WindowStart(i + 2) = WindowStart(i + 1) + HopFrames
        BY <2>3, <4>1
      <4> QED BY <2>2, <3>1, <3>2, <4>1, <4>2
    <3> QED BY <2>2, <2>3, <3>1, <3>2, <3>3
  <2> QED BY <2>1, <2>4, <2>5 DEF WindowsTile
<1>2. LoopInv => WindowsTile
  BY <1>1 DEF WindowsTile
<1> QED BY <1>2, LoopInvInductive, PTL

(***************************************************************************)
(* Each window hands a whole overlap to the next, which can take it: the   *)
(* clamps of denoise_chunk_resumable never bite.                           *)
(***************************************************************************)
THEOREM FullCarry == Spec => []CarryIsFull
<1>1. ASSUME LoopInv, pc # "window", NEW i \in 1 .. Len(starts) - 1
      PROVE  LET n == LatentFrames(LoopFrames(i))
             IN  /\ CarryTo(n) - CarryFrom(n) = OverlapLatents
                 /\ LatentFrames(LoopFrames(i + 1)) >= OverlapLatents
  <2> DEFINE count == WindowCount(frames)
  <2>1. Len(starts) = count /\ count \in Nat \ {0}
    BY <1>1, WindowsInside DEF LoopInv
  <2>2. /\ i \in 1 .. count /\ i + 1 \in 1 .. count
        /\ i \in 1 .. count - 1
    BY <2>1
  <2>3. LoopFrames(i) = WindowFrames
    BY <1>1, <2>1, <2>2, FramesOfLoop, WindowsCover DEF LoopInv
  <2>4. LoopFrames(i + 1) \in Nat /\ LoopFrames(i + 1) > HopFrames
    BY <1>1, <2>1, <2>2, FramesOfLoop, FollowersLong DEF LoopInv
  <2> QED BY <2>3, <2>4, CarryFull
<1>2. LoopInv => CarryIsFull
  BY <1>1 DEF CarryIsFull
<1> QED BY <1>2, LoopInvInductive, PTL

\* Where the loop is decides where the windows meet.
LEMMA SeamsOfLoop == LoopInv => SeamsMeet
<1>1. ASSUME LoopInv, NEW i \in 1 .. Len(kept) - 1
      PROVE  LET n == LatentFrames(LoopFrames(i))
             IN  /\ kept[i][2] - CarryFrom(n) = kept[i + 1][1]
                 /\ kept[i][2] \in CarryFrom(n) .. CarryTo(n)
                 /\ kept[i][1] < kept[i][2]
  <2>1. pc # "window"
    BY <1>1 DEF LoopInv
  <2> DEFINE count == Len(starts)
             m == LatentFrames(FramesOf(frames, i + 1))
  <2>2. /\ Len(kept) \in Nat /\ count \in Nat /\ Len(kept) <= count
        /\ i \in 1 .. Len(kept) /\ i + 1 \in 1 .. Len(kept)
        /\ i \in 1 .. count - 1 /\ i \in 1 .. count /\ i + 1 \in 1 .. count
    <3>1. Len(kept) \in Nat /\ count \in Nat /\ Len(kept) <= count
      BY <1>1, <2>1 DEF LoopInv
    <3> HIDE DEF count
    <3> QED BY <1>1, <3>1
  <2>3. LoopFrames(i) = FramesOf(frames, i) /\ LoopFrames(i + 1) = FramesOf(frames, i + 1)
    BY <1>1, <2>1, <2>2, FramesOfLoop
  <2>4. FramesOf(frames, i) = WindowFrames
    BY <1>1, <2>1, <2>2, WindowsCover DEF LoopInv
  <2>5. m \in Nat /\ m >= OverlapLatents
    <3>1. FramesOf(frames, i + 1) \in Nat /\ FramesOf(frames, i + 1) > HopFrames
      BY <1>1, <2>1, <2>2, FollowersLong DEF LoopInv
    <3> QED BY <3>1, CarryFull, LatentFramesMonotone
  <2>6. /\ kept[i] = <<KeptFrom(i, LatentFrames(WindowFrames)),
                       KeptTo(i, count, LatentFrames(WindowFrames))>>
        /\ kept[i + 1] = <<KeptFrom(i + 1, m), KeptTo(i + 1, count, m)>>
    BY <1>1, <2>2, <2>4 DEF LoopInv
  <2>7. /\ kept[i][1] = KeptFrom(i, LatentFrames(WindowFrames))
        /\ kept[i][2] = KeptTo(i, count, LatentFrames(WindowFrames))
        /\ kept[i + 1][1] = KeptFrom(i + 1, m)
    BY <2>6
  <2> HIDE DEF m, count
  <2>8. LET n == LatentFrames(WindowFrames)
        IN  /\ KeptTo(i, count, n) - CarryFrom(n) = KeptFrom(i + 1, m)
            /\ KeptTo(i, count, n) \in CarryFrom(n) .. CarryTo(n)
            /\ KeptFrom(i, n) < KeptTo(i, count, n)
    BY <2>2, <2>5, SeamMeets
  <2> QED BY <2>3, <2>4, <2>7, <2>8
<1> QED BY <1>1 DEF SeamsMeet

(***************************************************************************)
(* The song has no gap and no repetition at any seam between two windows.  *)
(***************************************************************************)
THEOREM Seams == Spec => []SeamsMeet
  BY SeamsOfLoop, LoopInvInductive, PTL

(***************************************************************************)
(* Types hold; no window is assembled that keeps no latent.                *)
(***************************************************************************)
THEOREM LoopTyping == Spec => []TypeOK
<1>1. ASSUME LoopInv, NEW i \in 1 .. Len(kept)
      PROVE  kept[i] \in Nat \X (Nat \ {0})
  <2> DEFINE count == Len(starts)
             n == LatentFrames(FramesOf(frames, i))
  <2>1. /\ count = WindowCount(frames) /\ Len(kept) <= count
        /\ count \in Nat /\ Len(kept) \in Nat
    BY <1>1 DEF LoopInv
  <2>2. i \in 1 .. count /\ i \in Nat \ {0}
    BY <2>1
  <2>3. FramesOf(frames, i) \in 1 .. WindowFrames
    BY <1>1, <2>1, <2>2, WindowsInside DEF LoopInv
  <2>4. n \in Nat /\ n >= 1
    BY <2>3, WindowAssumption DEF LatentFrames
  <2>5. kept[i] = <<KeptFrom(i, n), KeptTo(i, count, n)>>
    BY <1>1 DEF LoopInv
  <2> HIDE DEF n, count
  <2>6. KeptFrom(i, n) \in Nat /\ KeptTo(i, count, n) \in Nat
    BY <2>1, <2>2, <2>4, CropTyped
  <2>7. KeptTo(i, count, n) # 0
    <3>1. CASE i = count
      BY <2>4, <2>6, <3>1 DEF KeptTo, Greatest
    <3>2. CASE i # count
      <4>1. i \in 1 .. count - 1 /\ i + 1 \in Nat
        BY <2>1, <2>2, <3>2
      <4>2. n = LatentFrames(WindowFrames)
        BY <1>1, <2>1, <4>1, WindowsCover DEF LoopInv, n
      <4>3. i < count /\ OverlapLatents \in Nat
        BY <2>1, <4>1, LatentAssumption
      <4>4. LET full == LatentFrames(WindowFrames)
            IN  /\ KeptTo(i, count, full) - CarryFrom(full) = KeptFrom(i + 1, OverlapLatents)
                /\ KeptFrom(i, full) < KeptTo(i, count, full)
        BY ONLY <2>1, <2>2, <4>3, SeamMeets
      <4> QED BY <2>6, <4>2, <4>4
    <3> QED BY <3>1, <3>2
  <2> QED BY <2>5, <2>6, <2>7
<1>2. ASSUME LoopInv PROVE kept \in Seq(Nat \X (Nat \ {0}))
  <2>1. /\ Len(kept) \in Nat /\ kept = [i \in 1 .. Len(kept) |-> kept[i]]
    BY <1>2 DEF LoopInv
  <2> QED BY <1>1, <1>2, <2>1
<1>3. LoopInv => TypeOK
  BY <1>2 DEF LoopInv, TypeOK
<1> QED BY <1>3, LoopInvInductive, PTL

-----------------------------------------------------------------------------
(***************************************************************************)
(* The length of the song.  A sum over its windows is the only function    *)
(* that starts and grows as the sum does.                                  *)
(***************************************************************************)
LEMMA RunningSum ==
  ASSUME NEW n \in Nat, NEW d, NEW t, \A i \in 0 .. n : t[i] \in Int, t[0] = 0,
         \A i \in 1 .. n : t[i] = t[i - 1] + d[i],
         NEW g, g[0] = 0, \A i \in 1 .. n : g[i] = g[i - 1] + d[i]
  PROVE  \A i \in 0 .. n : g[i] = t[i]
<1> DEFINE Wrong == {i \in 0 .. n : g[i] # t[i]}
<1> SUFFICES ASSUME Wrong # {} PROVE FALSE
  OBVIOUS
<1>1. PICK x \in Wrong : \A y \in Wrong : x <= y
  <2>1. Wrong \subseteq Nat
   OBVIOUS
  <2> HIDE DEF Wrong
  <2> QED BY <2>1, LeastNumber
<1>2. x \in 0 .. n /\ x # 0
  BY <1>1
<1>3. x - 1 \in 0 .. n /\ x - 1 \notin Wrong
  BY <1>1, <1>2
<1> QED BY <1>1, <1>2, <1>3

\* The windows kept so far are summed by any such function.
LEMMA SongSum ==
  ASSUME NEW t, kept \in Seq(Int \X Int), t \in [0 .. Len(kept) -> Int], t[0] = 0,
         \A i \in 1 .. Len(kept) : t[i] = t[i - 1] + (kept[i][2] - kept[i][1])
  PROVE  SongLatents = t[Len(kept)]
<1> DEFINE n == Len(kept)
           F(g) == [i \in 0 .. n |-> IF i = 0 THEN 0 ELSE g[i - 1] + (kept[i][2] - kept[i][1])]
           total[i \in 0 .. n] == IF i = 0 THEN 0 ELSE total[i - 1] + (kept[i][2] - kept[i][1])
<1>1. n \in Nat
  OBVIOUS
<1>2. t = F(t)
  <2>1. \A i \in 0 .. n : t[i] = F(t)[i]
    BY <1>1
  <2>2. t = [i \in 0 .. n |-> t[i]]
    OBVIOUS
  <2> HIDE DEF n
  <2> QED BY <2>1, <2>2
<1>3. total = CHOOSE g : g = F(g)
  BY Zenon DEF total
<1> HIDE DEF total, F
<1>4. total = F(total)
  BY <1>2, <1>3, Zenon
<1> DEFINE d == [i \in 1 .. n |-> kept[i][2] - kept[i][1]]
<1>5. \A i \in 1 .. n : d[i] = kept[i][2] - kept[i][1]
  OBVIOUS
<1>6. /\ \A i \in 0 .. n : t[i] \in Int
      /\ t[0] = 0 /\ \A i \in 1 .. n : t[i] = t[i - 1] + d[i]
  BY <1>5
<1> HIDE DEF d, n
<1>7. /\ total[0] = 0
      /\ \A i \in 1 .. n : total[i] = total[i - 1] + d[i]
  <2>1. \A i \in 0 .. n :
          total[i] = IF i = 0 THEN 0 ELSE total[i - 1] + (kept[i][2] - kept[i][1])
    BY <1>4 DEF F
  <2>2. 0 \in 0 .. n /\ \A i \in 1 .. n : i \in 0 .. n /\ i # 0
    BY <1>1
  <2> QED BY <1>5, <2>1, <2>2
<1>8. \A i \in 0 .. n : total[i] = t[i]
  BY ONLY <1>1, <1>6, <1>7, RunningSum
<1>9. SongLatents = total[n]
  BY Zenon DEF SongLatents, total, n
<1> QED BY <1>1, <1>8, <1>9 DEF n

(***************************************************************************)
(* Since the next window is kept from where the last was left, the song    *)
(* has the latents of the last window and one stride for each before it.   *)
(***************************************************************************)
LEMMA StrideTyped == Stride \in Nat /\ CarryFrom(LatentFrames(WindowFrames)) = Stride
  BY CarryFull, LatentAssumption, WindowAssumption, LatentFramesMonotone DEF Stride

LEMMA SongLength ==
  ASSUME LoopInv, Len(kept) > 0
  PROVE  SongLatents = kept[Len(kept)][2] + (Len(kept) - 1) * Stride
<1> DEFINE n == Len(kept)
           t == [i \in 0 .. n |-> IF i = 0 THEN 0 ELSE kept[i][2] + (i - 1) * Stride]
<1>1. kept \in Seq(Int \X Int) /\ n \in Nat /\ n > 0 /\ Stride \in Nat
  BY StrideTyped DEF LoopInv
<1>2. \A i \in 1 .. n : kept[i][1] \in Int /\ kept[i][2] \in Int
  BY <1>1
<1>3. kept[1][1] = 0
  <2>1. kept[1] = <<KeptFrom(1, LatentFrames(FramesOf(frames, 1))),
                    KeptTo(1, Len(starts), LatentFrames(FramesOf(frames, 1)))>>
    BY <1>1 DEF LoopInv
  <2> QED BY <2>1 DEF KeptFrom
<1>4. ASSUME NEW i \in 1 .. n - 1
      PROVE  kept[i][2] - Stride = kept[i + 1][1]
  <2>1. kept[i][2] - CarryFrom(LatentFrames(LoopFrames(i))) = kept[i + 1][1]
    BY SeamsOfLoop DEF SeamsMeet
  <2>2. LoopFrames(i) = WindowFrames
    <3>1. /\ pc # "window" /\ Len(starts) = WindowCount(frames)
          /\ n <= Len(starts) /\ Len(starts) \in Nat
      BY <1>1 DEF LoopInv
    <3>2. i \in 1 .. Len(starts) /\ i \in 1 .. WindowCount(frames) - 1
      BY <1>1, <3>1
    <3> QED BY <3>1, <3>2, FramesOfLoop, WindowsCover DEF LoopInv
  <2> QED BY <2>1, <2>2, StrideTyped
<1>5. t \in [0 .. n -> Int]
  BY <1>1, <1>2
<1>6. /\ t[0] = 0
      /\ \A i \in 1 .. n : t[i] = kept[i][2] + (i - 1) * Stride
  BY <1>1
<1> HIDE DEF t, n
<1>7. ASSUME NEW i \in 1 .. n
      PROVE  t[i] = t[i - 1] + (kept[i][2] - kept[i][1])
  <2>1. CASE i = 1
    BY <1>1, <1>2, <1>3, <1>6, <2>1
  <2>2. CASE i # 1
    <3>1. i - 1 \in 1 .. n - 1 /\ i - 1 \in 1 .. n /\ (i - 1) + 1 = i
      BY <1>1, <2>2
    <3>2. kept[i - 1][2] - Stride = kept[i][1]
      BY <1>4, <3>1
    <3>3. t[i - 1] = kept[i - 1][2] + ((i - 1) - 1) * Stride
      BY <1>6, <3>1
    <3>4. (i - 1) * Stride = ((i - 1) - 1) * Stride + Stride
      BY <1>1, <3>1
    <3>5. /\ kept[i][1] \in Int /\ kept[i][2] \in Int /\ kept[i - 1][2] \in Int
          /\ (i - 1) * Stride \in Int /\ ((i - 1) - 1) * Stride \in Int
      BY <1>1, <1>2, <3>1
    <3>6. t[i] = kept[i][2] + (i - 1) * Stride
      BY <1>6
    <3> DEFINE before == ((i - 1) - 1) * Stride
               after == (i - 1) * Stride
    <3>7. /\ t[i] = kept[i][2] + after /\ t[i - 1] = kept[i - 1][2] + before
          /\ after = before + Stride /\ after \in Int /\ before \in Int
      BY <3>3, <3>4, <3>5, <3>6
    <3> HIDE DEF before, after
    <3>8. Stride \in Int
      BY <1>1
    <3> QED BY ONLY <3>2, <3>5, <3>7, <3>8
  <2> QED BY <2>1, <2>2
<1>8. SongLatents = t[n]
  BY <1>1, <1>5, <1>6, <1>7, SongSum DEF n
<1>9. t[n] = kept[n][2] + (n - 1) * Stride
  BY <1>1, <1>6
<1> QED BY <1>8, <1>9 DEF n

\* The arithmetic of the drift: k strides against the latents of k hops.
LEMMA StridesAgainstHops ==
  ASSUME NEW f \in Nat, NEW k \in Nat
  PROVE  (LatentFrames(f) + k * Stride) - LatentFrames(k * HopFrames + f) \in 0 .. k
<1> DEFINE a == 441 * f
           h == 441 * HopFrames
           b == (k * HopFrames + f) * 441
           n == LatentFrames(f)
           m == LatentFrames(k * HopFrames + f)
<1>1. HopFrames \in Nat /\ Stride \in Nat
  BY StrideTyped, WindowAssumption
<1>2. k * HopFrames \in Nat /\ k * HopFrames + f \in Nat
  BY <1>1
<1>3. n \in Nat /\ 128 * n <= a /\ a < 128 * n + 128
  BY DEF LatentFrames
<1>4. m \in Nat /\ 128 * m <= b /\ b < 128 * m + 128
  <2> DEFINE x == k * HopFrames + f
  <2>1. x \in Nat
    BY <1>2
  <2> HIDE DEF x
  <2>2. LatentFrames(x) \in Nat /\ 128 * LatentFrames(x) <= x * 441
        /\ x * 441 < 128 * LatentFrames(x) + 128
    BY <2>1 DEF LatentFrames
  <2> QED BY <2>2 DEF x
<1>5. k * h \in Int /\ b = a + k * h /\ a \in Int /\ b \in Int
  BY <1>1
<1>6. k * (128 * (Stride - 1)) <= k * h /\ k * h <= k * (128 * Stride)
  <2>1. /\ h \in Int /\ 128 * (Stride - 1) \in Int /\ 128 * Stride \in Int
        /\ 128 * (Stride - 1) <= h /\ h <= 128 * Stride
    BY <1>1, StrideAssumption
  <2> HIDE DEF h
  <2>2. (128 * (Stride - 1)) * k <= h * k /\ h * k <= (128 * Stride) * k
    BY <2>1, ProductOrder
  <2> QED BY <1>1, <2>1, <2>2
<1>7. /\ k * Stride \in Int
      /\ k * (128 * Stride) = 128 * (k * Stride)
      /\ k * (128 * (Stride - 1)) = 128 * (k * Stride) - 128 * k
  BY <1>1
<1> DEFINE p == k * Stride
           q == k * h
<1>8. /\ 128 * p - 128 * k <= q /\ q <= 128 * p /\ p \in Int /\ q \in Int
      /\ b = a + q
  BY <1>5, <1>6, <1>7
<1> HIDE DEF a, h, b, n, m, p, q
<1>9. 0 <= (n + p) - m /\ (n + p) - m <= k /\ (n + p) - m \in Int
  BY <1>3, <1>4, <1>5, <1>8
<1> QED BY <1>9 DEF n, m, p

(***************************************************************************)
(* The song is as long as its AR frames, or longer by less than one latent *)
(* for every window after the first.                                       *)
(***************************************************************************)
THEOREM Drift == Spec => []DriftBounded
<1>1. ASSUME LoopInv, pc = "done"
      PROVE  SongLatents - LatentFrames(frames) \in 0 .. Len(starts) - 1
  <2> DEFINE count == WindowCount(frames)
             f == FramesOf(frames, count)
  <2>1. /\ frames \in Nat \ {0} /\ Len(starts) = count /\ Len(kept) = count
        /\ count \in Nat \ {0}
    BY <1>1, WindowsInside DEF LoopInv
  <2>2. count \in 1 .. count
    BY <2>1
  <2>3. f \in Nat /\ frames = (count - 1) * HopFrames + f
    <3>1. f \in 1 .. WindowFrames
      BY <2>1, <2>2, WindowsInside
    <3>2. WindowStart(count) + f = frames /\ WindowStart(count) \in Nat
      BY <2>1, <2>2, WindowsCover, WindowsInside
    <3>3. f \in Nat
      BY <3>1, WindowAssumption
    <3> QED BY <3>2, <3>3 DEF WindowStart
  <2>4. kept[count][2] = LatentFrames(f)
    <3>1. kept[count] = <<KeptFrom(count, LatentFrames(f)),
                          KeptTo(count, count, LatentFrames(f))>>
      BY <1>1, <2>1, <2>2 DEF LoopInv
    <3>2. LatentFrames(f) \in Nat
      BY <2>3, LatentFramesMonotone
    <3> HIDE DEF count, f
    <3> QED BY <3>1, <3>2, LatentAssumption DEF KeptFrom, KeptTo, Greatest, Least
  <2>5. SongLatents = LatentFrames(f) + (count - 1) * Stride
    BY <1>1, <2>1, <2>4, SongLength
  <2> HIDE DEF count, f
  <2>6. count - 1 \in Nat
    BY <2>1
  <2>7. (LatentFrames(f) + (count - 1) * Stride) - LatentFrames((count - 1) * HopFrames + f)
          \in 0 .. count - 1
    BY <2>3, <2>6, StridesAgainstHops
  <2>8. LatentFrames(frames) = LatentFrames((count - 1) * HopFrames + f)
    BY <2>3
  <2>9. Len(starts) - 1 = count - 1
    BY <2>1
  <2> QED BY <2>5, <2>7, <2>8, <2>9
<1>2. LoopInv => DriftBounded
  BY <1>1 DEF DriftBounded
<1> QED BY <1>2, LoopInvInductive, PTL
=============================================================================
