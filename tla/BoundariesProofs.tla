-------------------------- MODULE BoundariesProofs --------------------------
(***************************************************************************)
(* Lemmas the later proofs share: what the geometry of the windows         *)
(* guarantees for every window length, hop and number of frames; the types *)
(* of what the stages compute; and how the uninterrupted result grows by   *)
(* one frame, update, window or piece.                                     *)
(***************************************************************************)
EXTENDS Boundaries, WellFoundedInduction, TLAPS

(***************************************************************************)
(* A set of numbers has a least one.  This is induction: what holds of a   *)
(* number if it holds of all smaller ones fails for none, for there would  *)
(* be a least one it fails for.                                            *)
(***************************************************************************)
LEMMA LeastNumber ==
  ASSUME NEW S \in SUBSET Nat, S # {}
  PROVE  \E m \in S : \A n \in S : m <= n
<1> DEFINE R == OpToRel(<, Nat)
<1>1. IsWellFoundedOn(R, Nat)
  BY NatLessThanWellFounded
<1> HIDE DEF R
<1>2. PICK m \in S : \A n \in S : ~ (<<n, m>> \in R)
  BY <1>1, WFMin
<1>3. \A n \in S : ~ (n < m)
  BY <1>2 DEF R, OpToRel
<1> QED BY <1>3

(***************************************************************************)
(* Integer division by a positive number, as two inequalities.             *)
(***************************************************************************)
LEMMA QuotientBounds ==
  ASSUME NEW a \in Nat, NEW h \in Nat \ {0}
  PROVE  /\ a \div h \in Nat
         /\ (a \div h) * h <= a
         /\ a < (a \div h) * h + h
  OBVIOUS

(***************************************************************************)
(* Multiplication by a number that is not negative keeps order.            *)
(***************************************************************************)
LEMMA ProductOrder ==
  ASSUME NEW a \in Int, NEW b \in Int, NEW h \in Nat, a <= b
  PROVE  a * h <= b * h
  OBVIOUS

(***************************************************************************)
(* The quotient is the only number between the two inequalities.           *)
(***************************************************************************)
LEMMA QuotientUnique ==
  ASSUME NEW a \in Nat, NEW h \in Nat \ {0}, NEW q \in Nat,
         q * h <= a, a < q * h + h
  PROVE  a \div h = q
  OBVIOUS

-----------------------------------------------------------------------------
(***************************************************************************)
(* Every window of a result that is not empty starts inside it, has at     *)
(* least one frame and ends inside it.                                     *)
(***************************************************************************)
LEMMA WindowsInside ==
  ASSUME NEW frames \in Nat \ {0}
  PROVE  /\ WindowCount(frames) \in Nat \ {0}
         /\ \A i \in 1 .. WindowCount(frames) :
              /\ WindowStart(i) \in Nat
              /\ FramesOf(frames, i) \in 1 .. WindowFrames
              /\ WindowStart(i) + FramesOf(frames, i) <= frames
<1> USE WindowAssumption
<1>1. CASE frames <= WindowFrames
  BY <1>1 DEF WindowCount, WindowStart, FramesOf, Least
<1>2. CASE frames > WindowFrames
  <2> DEFINE q == (frames - 1) \div HopFrames
  <2>1. /\ q \in Nat
        /\ q * HopFrames <= frames - 1
        /\ frames - 1 < q * HopFrames + HopFrames
    BY QuotientBounds
  <2>2. WindowCount(frames) = q
    BY <1>2 DEF WindowCount
  <2>3. q # 0
    <3>1. frames - 1 >= HopFrames
      BY <1>2
    <3>2. q = 0 => q * HopFrames = 0
      OBVIOUS
    <3> QED BY <2>1, <3>1, <3>2
  <2>4. ASSUME NEW i \in 1 .. q
        PROVE  /\ WindowStart(i) \in Nat
               /\ FramesOf(frames, i) \in 1 .. WindowFrames
               /\ WindowStart(i) + FramesOf(frames, i) <= frames
    <3>1. (i - 1) * HopFrames \in Nat /\ (i - 1) * HopFrames <= (q - 1) * HopFrames
      BY ProductOrder, <2>1
    <3>2. (q - 1) * HopFrames = q * HopFrames - HopFrames
      BY <2>1
    <3>3. (i - 1) * HopFrames < frames
      BY <2>1, <3>1, <3>2
    <3> HIDE DEF q
    <3> QED BY <3>1, <3>3 DEF WindowStart, FramesOf, Least
  <2> QED BY <2>1, <2>2, <2>3, <2>4
<1> QED BY <1>1, <1>2

(***************************************************************************)
(* Windows tile the frames: all but the last are full, a window starts     *)
(* inside the one before it and after the one before that, and the last,   *)
(* longer than a hop if it is not the first, ends at the last frame.       *)
(***************************************************************************)
LEMMA WindowsCover ==
  ASSUME NEW frames \in Nat \ {0}
  PROVE  LET n == WindowCount(frames)
         IN  /\ WindowStart(n) + FramesOf(frames, n) = frames
             /\ n > 1 => FramesOf(frames, n) > HopFrames
             /\ \A i \in 1 .. n - 1 :
                  /\ FramesOf(frames, i) = WindowFrames
                  /\ WindowStart(i + 1) = WindowStart(i) + HopFrames
<1> USE WindowAssumption
<1>1. CASE frames <= WindowFrames
  BY <1>1 DEF WindowCount, WindowStart, FramesOf, Least
<1>2. CASE frames > WindowFrames
  <2> DEFINE q == (frames - 1) \div HopFrames
  <2>1. /\ q \in Nat
        /\ q * HopFrames <= frames - 1
        /\ frames - 1 < q * HopFrames + HopFrames
    BY QuotientBounds
  <2>2. WindowCount(frames) = q
    BY <1>2 DEF WindowCount
  <2>3. /\ WindowStart(q) = q * HopFrames - HopFrames
        /\ FramesOf(frames, q) = frames - WindowStart(q)
        /\ FramesOf(frames, q) > HopFrames
    <3> HIDE DEF q
    <3>1. (q - 1) * HopFrames = q * HopFrames - HopFrames
      BY <2>1
    <3> QED BY <2>1, <3>1 DEF WindowStart, FramesOf, Least
  <2>4. ASSUME NEW i \in 1 .. q - 1
        PROVE  /\ FramesOf(frames, i) = WindowFrames
               /\ WindowStart(i + 1) = WindowStart(i) + HopFrames
    <3> HIDE DEF q
    <3>1. (i + 1) * HopFrames <= q * HopFrames
      BY <2>1, ProductOrder
    <3>2. /\ (i + 1) * HopFrames = (i - 1) * HopFrames + 2 * HopFrames
          /\ i * HopFrames = (i - 1) * HopFrames + HopFrames
          /\ (i - 1) * HopFrames \in Nat
      OBVIOUS
    <3>3. ((i + 1) - 1) * HopFrames = i * HopFrames
      OBVIOUS
    <3> QED BY <2>1, <3>1, <3>2, <3>3 DEF WindowStart, FramesOf, Least
  <2> QED
    <3> HIDE DEF q
    <3> QED BY <2>1, <2>2, <2>3, <2>4
<1> QED BY <1>1, <1>2

(***************************************************************************)
(* A window that follows another is longer than a hop.                     *)
(***************************************************************************)
LEMMA FollowersLong ==
  ASSUME NEW frames \in Nat \ {0}, NEW i \in 1 .. WindowCount(frames) - 1
  PROVE  FramesOf(frames, i + 1) \in Nat /\ FramesOf(frames, i + 1) > HopFrames
<1> USE WindowAssumption
<1> DEFINE n == WindowCount(frames)
<1>1. n \in Nat \ {0} /\ i + 1 \in 1 .. n /\ n > 1
  BY WindowsInside
<1>2. FramesOf(frames, i + 1) \in Nat
  BY <1>1, WindowsInside
<1>3. CASE i + 1 = n
  BY <1>1, <1>2, <1>3, WindowsCover
<1>4. CASE i + 1 # n
  <2>1. i + 1 \in 1 .. n - 1
    BY <1>1, <1>4
  <2> QED BY <1>2, <2>1, WindowsCover
<1> QED BY <1>3, <1>4, <1>2

-----------------------------------------------------------------------------
(***************************************************************************)
(* The number of latents is a number, and more frames have as many or more.*)
(***************************************************************************)
LEMMA LatentFramesMonotone ==
  ASSUME NEW a \in Nat, NEW b \in Nat, a <= b
  PROVE  /\ LatentFrames(a) \in Nat
         /\ LatentFrames(b) \in Nat
         /\ LatentFrames(a) <= LatentFrames(b)
  BY DEF LatentFrames

(***************************************************************************)
(* The crop of a window is a pair of numbers.                              *)
(***************************************************************************)
LEMMA CropTyped ==
  ASSUME NEW i \in Nat, NEW count \in Nat, NEW n \in Nat
  PROVE  KeptFrom(i, n) \in Nat /\ KeptTo(i, count, n) \in Nat
  BY LatentAssumption DEF KeptFrom, KeptTo, Greatest, Least

(***************************************************************************)
(* A full window carries a whole overlap into its successor, which is long *)
(* enough to take it.                                                      *)
(***************************************************************************)
LEMMA CarryFull ==
  LET n == LatentFrames(WindowFrames)
  IN  /\ CarryTo(n) - CarryFrom(n) = OverlapLatents
      /\ CarryFrom(n) = n - 2 * OverlapLatents
      /\ \A m \in Nat : m > HopFrames => LatentFrames(m) >= OverlapLatents
<1> USE WindowAssumption, LatentAssumption
<1>1. LatentFrames(WindowFrames) \in Nat
  BY LatentFramesMonotone
<1>2. \A m \in Nat : m > HopFrames => LatentFrames(m) >= OverlapLatents
  <2> SUFFICES ASSUME NEW m \in Nat, m > HopFrames
               PROVE  LatentFrames(m) >= OverlapLatents
    OBVIOUS
  <2>1. LatentFrames(HopFrames + 1) <= LatentFrames(m)
    BY LatentFramesMonotone
  <2>2. LatentFrames(HopFrames + 1) \in Nat /\ LatentFrames(m) \in Nat
    BY LatentFramesMonotone
  <2> QED BY <2>1, <2>2
<1> QED BY <1>1, <1>2 DEF CarryTo, CarryFrom, Greatest

(***************************************************************************)
(* The seam between a full window of n latents and its successor of m: the *)
(* last latent kept of the one is followed by the first kept of the other, *)
(* CarryFrom(n) latents being where the successor starts.                  *)
(***************************************************************************)
LEMMA SeamMeets ==
  ASSUME NEW i \in Nat \ {0}, NEW count \in Nat, i < count,
         NEW m \in Nat, m >= OverlapLatents
  PROVE  LET n == LatentFrames(WindowFrames)
         IN  /\ KeptTo(i, count, n) - CarryFrom(n) = KeptFrom(i + 1, m)
             /\ KeptTo(i, count, n) \in CarryFrom(n) .. CarryTo(n)
             /\ KeptFrom(i, n) < KeptTo(i, count, n)
<1> USE WindowAssumption, LatentAssumption
<1> DEFINE n == LatentFrames(WindowFrames)
<1>1. n \in Nat
  BY LatentFramesMonotone
<1>2. n > 2 * OverlapLatents
  OBVIOUS
<1> HIDE DEF n
<1> SUFFICES /\ KeptTo(i, count, n) - CarryFrom(n) = KeptFrom(i + 1, m)
             /\ KeptTo(i, count, n) \in CarryFrom(n) .. CarryTo(n)
             /\ KeptFrom(i, n) < KeptTo(i, count, n)
  BY DEF n
<1>3. KeptTo(i, count, n) = n - CropRight /\ KeptFrom(i, n) < n - CropRight
  BY <1>1, <1>2 DEF KeptTo, KeptFrom, Greatest, Least
<1>4. KeptFrom(i + 1, m) = CropLeft
  BY DEF KeptFrom, Least
<1>5. CarryFrom(n) = n - 2 * OverlapLatents /\ CarryTo(n) = n - OverlapLatents
  BY <1>1, <1>2 DEF CarryFrom, CarryTo, Greatest
<1> QED BY <1>1, <1>2, <1>3, <1>4, <1>5

-----------------------------------------------------------------------------
(***************************************************************************)
(* Each constructor of Boundaries yields a value of its type.              *)
(***************************************************************************)
LEMMA SampledFrameTyped ==
  ASSUME NEW c \in Components, NEW r \in Requests, NEW draw \in Nat, NEW cached \in Nat
  PROVE  SampledFrame(c, r, draw, cached) \in CodeFrame
  BY DEF SampledFrame, CodeFrame

LEMMA HiddenTyped ==
  ASSUME NEW c \in Components, NEW cached \in Nat, NEW frame \in CodeFrame
  PROVE  HiddenOf(c, cached, frame) \in Hidden
  BY DEF HiddenOf, Hidden

(***************************************************************************)
(* A window of the hidden states lies inside them, so its slice is a       *)
(* sequence of hidden states.                                              *)
(***************************************************************************)
LEMMA ProjectedTyped ==
  ASSUME NEW c \in Components, NEW hiddens \in Seq(Hidden), Len(hiddens) # 0,
         NEW i \in 1 .. WindowCount(Len(hiddens))
  PROVE  Projected(c, hiddens, WindowStart(i), FramesOf(Len(hiddens), i))
           \in Condition
<1> DEFINE from == WindowStart(i) + 1
           to == WindowStart(i) + FramesOf(Len(hiddens), i)
<1>1. Len(hiddens) \in Nat \ {0}
  OBVIOUS
<1>2. /\ WindowStart(i) \in Nat
      /\ FramesOf(Len(hiddens), i) \in 1 .. WindowFrames
      /\ to <= Len(hiddens)
  BY <1>1, WindowsInside
<1>3. FramesOf(Len(hiddens), i) \in Nat
  BY <1>2, WindowAssumption
<1>4. from \in 1 .. Len(hiddens) /\ to \in 1 .. Len(hiddens)
  BY <1>1, <1>2, <1>3
<1>5. SubSeq(hiddens, from, to) \in Seq(Hidden)
  BY <1>4
<1> QED BY <1>3, <1>5 DEF Projected, Condition

LEMMA NoiseTyped ==
  ASSUME NEW inputs \in FlowInputs
  PROVE  InitialNoise(inputs) \in Latent
<1>1. <<>> \in Seq(Nat)
  OBVIOUS
<1> QED BY <1>1 DEF InitialNoise, Latent

LEMMA EulerTyped ==
  ASSUME NEW latent \in Latent, NEW inputs \in FlowInputs, NEW step \in Nat
  PROVE  EulerUpdate(latent, inputs, step) \in Latent
<1>1. Append(latent.applied, step) \in Seq(Nat)
  BY DEF Latent
<1>2. (latent.mixed \/ latent.inputs # inputs) \in BOOLEAN
  OBVIOUS
<1> QED BY <1>1, <1>2 DEF EulerUpdate, Latent

LEMMA PastedTyped ==
  ASSUME NEW latent \in Latent, NEW carry \in Nat
  PROVE  [latent EXCEPT !.head = IF carry # 0 THEN carry ELSE @] \in Latent
  BY DEF Latent

LEMMA CarryTyped ==
  ASSUME NEW window \in Nat, NEW frames \in Nat
  PROVE  CarryOf(window, frames) \in Nat
  BY DEF CarryOf

-----------------------------------------------------------------------------
(***************************************************************************)
(* The uninterrupted result, part by part: the hidden states of n frames,  *)
(* the number of windows, what window w hands to the next, p pieces.       *)
(***************************************************************************)
MadeOf(c, r, n) ==
  [f \in 1 .. Greatest(0, n - 1) |-> HiddenOf(c, f, RefFrame(c, r, f))]

WindowsIn(c, r) == WindowCount(RefGenerated(c, r))

CarryAfter(c, r, w) ==
  IF w = 0 THEN 0 ELSE CarryOf(w, FramesOf(RefGenerated(c, r), w))

PiecesOf(c, r, p) == [i \in 1 .. p |-> RefPiece(c, r, i)]

\* One more frame, window, update or piece of the reference.
LEMMA OneMoreCode ==
  ASSUME NEW c, NEW r, NEW n \in Nat
  PROVE  /\ Len(RefCodes(c, r, n)) = n
         /\ Append(RefCodes(c, r, n), RefFrame(c, r, n)) = RefCodes(c, r, n + 1)
<1>1. Len(RefCodes(c, r, n)) = n
  BY DEF RefCodes
<1>2. Append(RefCodes(c, r, n), RefFrame(c, r, n)) = RefCodes(c, r, n + 1)
  BY DEF RefCodes
<1> QED BY <1>1, <1>2

\* The first frame leaves no hidden state.
LEMMA OneMoreHidden ==
  ASSUME NEW c, NEW r, NEW n \in Nat
  PROVE  /\ Len(MadeOf(c, r, n)) = Greatest(0, n - 1)
         /\ MadeOf(c, r, n + 1) =
              IF n > 0 THEN Append(MadeOf(c, r, n), HiddenOf(c, n, RefFrame(c, r, n)))
                       ELSE MadeOf(c, r, n)
<1>1. Greatest(0, n - 1) \in Nat
  BY DEF Greatest
<1>2. Len(MadeOf(c, r, n)) = Greatest(0, n - 1)
  BY <1>1 DEF MadeOf
<1>3. CASE n = 0
  BY <1>2, <1>3 DEF MadeOf, Greatest
<1>4. CASE n > 0
  <2>1. Greatest(0, n - 1) = n - 1 /\ Greatest(0, n + 1 - 1) = n
    BY <1>4 DEF Greatest
  <2> QED BY <1>2, <1>4, <2>1 DEF MadeOf
<1> QED BY <1>2, <1>3, <1>4

\* Windows are finished one by one,
LEMMA OneMoreLatent ==
  ASSUME NEW c, NEW r, NEW w \in Nat
  PROVE  /\ Len(RefLatents(c, r, w)) = w
         /\ Append(RefLatents(c, r, w), RefLatent(c, r, w + 1)) = RefLatents(c, r, w + 1)
  BY DEF RefLatents

\* and decoded one by one.
LEMMA OneMorePiece ==
  ASSUME NEW c, NEW r, NEW p \in Nat
  PROVE  /\ Len(PiecesOf(c, r, p)) = p
         /\ Append(PiecesOf(c, r, p), RefPiece(c, r, p + 1)) = PiecesOf(c, r, p + 1)
  BY DEF PiecesOf

\* A latent is its fields: the noise of some inputs after these updates.
UpdatedOf(inputs, steps) ==
  [inputs : {inputs}, applied : {steps}, mixed : {FALSE}, head : {0}]

\* Its fields determine it.
LEMMA UpdatedSame ==
  ASSUME NEW inputs, NEW steps, NEW x \in UpdatedOf(inputs, steps),
         NEW y \in UpdatedOf(inputs, steps)
  PROVE  x = y
<1>1. x = [inputs |-> inputs, applied |-> steps, mixed |-> FALSE, head |-> 0]
  BY DEF UpdatedOf
<1>2. y = [inputs |-> inputs, applied |-> steps, mixed |-> FALSE, head |-> 0]
  BY DEF UpdatedOf
<1> QED BY <1>1, <1>2

\* The noise is the reference before any update, and an update adds one.
LEMMA OneMoreUpdate ==
  ASSUME NEW c, NEW r, NEW w, NEW k \in Nat
  PROVE  /\ InitialNoise(RefInputs(c, r, w)) = RefEuler(c, r, w, 0)
         /\ Len(RefEuler(c, r, w, k).applied) = k
         /\ EulerUpdate(RefEuler(c, r, w, k), RefInputs(c, r, w), k)
              = RefEuler(c, r, w, k + 1)
<1> DEFINE steps == [j \in 1 .. k |-> j - 1]
<1>1. [j \in 1 .. 0 |-> j - 1] = <<>>
  OBVIOUS
<1>2. Len(steps) = k /\ Append(steps, k) = [j \in 1 .. k + 1 |-> j - 1]
  OBVIOUS
<1>3. InitialNoise(RefInputs(c, r, w)) = RefEuler(c, r, w, 0)
  BY <1>1 DEF InitialNoise, RefEuler
<1>4. RefEuler(c, r, w, k) \in UpdatedOf(RefInputs(c, r, w), steps)
  BY DEF RefEuler, UpdatedOf
<1>5. EulerUpdate(RefEuler(c, r, w, k), RefInputs(c, r, w), k)
        \in UpdatedOf(RefInputs(c, r, w), Append(steps, k))
  <2> HIDE DEF steps
  <2> QED BY <1>4 DEF UpdatedOf, EulerUpdate
<1>6. RefEuler(c, r, w, k + 1) \in UpdatedOf(RefInputs(c, r, w), Append(steps, k))
  BY <1>2 DEF RefEuler, UpdatedOf
<1>7. Len(RefEuler(c, r, w, k).applied) = k
  BY <1>2 DEF RefEuler
<1> HIDE DEF steps
<1> QED BY <1>3, <1>5, <1>6, <1>7, UpdatedSame

\* The condition of a window is the projection the reference has there.
LEMMA ConditionAt ==
  ASSUME NEW c, NEW r, RefGenerated(c, r) \in Nat \ {0},
         NEW w \in 1 .. WindowsIn(c, r)
  PROVE  /\ RefConditions(c, r)[w]
              = Projected(c, RefHiddens(c, r), WindowStart(w),
                          FramesOf(RefGenerated(c, r), w))
         /\ RefConditions(c, r)[w].frames = FramesOf(RefGenerated(c, r), w)
<1>1. RefConditions(c, r)[w]
        = Projected(c, RefHiddens(c, r), WindowStart(w),
                    FramesOf(RefGenerated(c, r), w))
  BY DEF RefConditions, WindowsIn
<1>2. \A h, from, n : Projected(c, h, from, n).frames = n
  BY DEF Projected
<1> QED BY <1>1, <1>2

\* And so are its inputs, the prompt among them.
LEMMA InputsAt ==
  ASSUME NEW c, NEW r, RefGenerated(c, r) \in Nat \ {0}, NEW w \in Nat,
         w < WindowsIn(c, r)
  PROVE  RefInputs(c, r, w + 1) =
           [comps |-> c,
            cond |-> Projected(c, RefHiddens(c, r), WindowStart(w + 1),
                               FramesOf(RefGenerated(c, r), w + 1)),
            seed |-> w, prompt |-> CarryAfter(c, r, w)]
<1>1. WindowsIn(c, r) \in Nat
  BY WindowsInside DEF WindowsIn
<1>2. w + 1 \in 1 .. WindowsIn(c, r) /\ w + 1 - 1 = w
  BY <1>1
<1>3. RefConditions(c, r)[w + 1]
        = Projected(c, RefHiddens(c, r), WindowStart(w + 1),
                    FramesOf(RefGenerated(c, r), w + 1))
  BY <1>2, ConditionAt
<1>4. (IF w + 1 = 1 THEN 0 ELSE CarryOf(w, RefConditions(c, r)[w].frames))
        = CarryAfter(c, r, w)
  <2>1. CASE w = 0
    BY <2>1 DEF CarryAfter
  <2>2. CASE w # 0
    <3>1. w \in 1 .. WindowsIn(c, r)
      BY <2>2, <1>1
    <3> QED BY <2>2, <3>1, ConditionAt DEF CarryAfter
  <2> QED BY <2>1, <2>2
<1> QED BY <1>2, <1>3, <1>4 DEF RefInputs

\* The reference's counts are numbers, and its frames end in its hidden states.
LEMMA AllFrames ==
  ASSUME NEW c \in Components, NEW r \in Requests
  PROVE  /\ RefLength(c, r) \in Nat
         /\ RefGenerated(c, r) \in Nat
         /\ MadeOf(c, r, RefLength(c, r)) = RefHiddens(c, r)
         /\ Len(RefHiddens(c, r)) = RefGenerated(c, r)
         /\ Target[r] \in Nat
         /\ EulerSteps[r] \in Nat \ {0}
         /\ EosFrame[c][r] \in Nat
<1>1. Target[r] \in Nat /\ EulerSteps[r] \in Nat \ {0} /\ EosFrame[c][r] \in Nat
  BY ModelAssumption
<1>2. RefLength(c, r) \in Nat
  BY <1>1 DEF RefLength, Least
<1>3. RefGenerated(c, r) \in Nat
  BY <1>2 DEF RefGenerated, Greatest
<1>4. MadeOf(c, r, RefLength(c, r)) = RefHiddens(c, r)
  BY DEF MadeOf, RefHiddens, RefGenerated
<1>5. Len(RefHiddens(c, r)) = RefGenerated(c, r)
  BY <1>3 DEF RefHiddens
<1> QED BY <1>1, <1>2, <1>3, <1>4, <1>5

\* A latent keeps the inputs it was started from.
LEMMA LatentAt ==
  ASSUME NEW c, NEW r, NEW w
  PROVE  /\ RefLatent(c, r, w).inputs = RefInputs(c, r, w)
         /\ RefInputs(c, r, w).cond = RefConditions(c, r)[w]
         /\ \A k : RefEuler(c, r, w, k).inputs = RefInputs(c, r, w)
  BY DEF RefLatent, RefInputs, RefEuler
=============================================================================
