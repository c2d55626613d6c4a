----------------------------- MODULE Boundaries -----------------------------
(***************************************************************************)
(* The data of the staged engine: what a model computation yields, and the *)
(* durable boundaries that carry it between calls of run_stage.            *)
(*                                                                         *)
(* Numbers are abstracted to their provenance.  Every sampler of the model *)
(* is a deterministic function of what it is given (the AR sampler is      *)
(* position addressed, the flow noise is derived from a seed), so a value  *)
(* is represented by what it was computed from: two computations yield the *)
(* same bytes exactly when they were given the same inputs.                *)
(***************************************************************************)
EXTENDS AcousticWindows

CONSTANTS
  Components,  \* the component mixes (five GGUF files) that may be on disk
  Requests,    \* parsed and validated generation requests
  Target,      \* Target[r]: min(max_audio_frames, duration * 25)
  EosFrame,    \* EosFrame[c][r]: AR frame at which the LM samples audio end
  EulerSteps,  \* EulerSteps[r]: steps of the flow schedule
  None         \* the absent value

ASSUME ModelAssumption ==
  /\ Target \in [Requests -> Nat]
  /\ EosFrame \in [Components -> [Requests -> Nat]]
  /\ EulerSteps \in [Requests -> Nat \ {0}]
  /\ None \notin Components

Codebooks == 8

-----------------------------------------------------------------------------
(***************************************************************************)
(* AR frames.  A frame's eight codes depend on the weights, the request,   *)
(* the position of its first random draw and what the KV cache holds, here *)
(* the number of frames fed back to it.  Its hidden state depends on the   *)
(* cache and the codes.                                                    *)
(***************************************************************************)
CodeFrame == [comps : Components, req : Requests, draw : Nat, cached : Nat]

SampledFrame(c, r, draw, cached) ==
  [comps |-> c, req |-> r, draw |-> draw, cached |-> cached]

Hidden == [comps : Components, cached : Nat, codes : CodeFrame]

HiddenOf(c, cached, frame) ==
  [comps |-> c, cached |-> cached, codes |-> frame]

(***************************************************************************)
(* A projected condition window: the projection of a slice of hiddens.     *)
(***************************************************************************)
Condition == [comps : Components, frames : Nat, slice : Seq(Hidden)]

Projected(c, hiddens, start, frames) ==
  [comps |-> c, frames |-> frames,
   slice |-> SubSeq(hiddens, start + 1, start + frames)]

(***************************************************************************)
(* Flow latents.  `inputs` is what denoise_chunk sets up before it starts  *)
(* (weights, condition, chunk seed, and the window whose tail prompts it,  *)
(* 0 for none); `applied` the schedule positions of the Euler updates made *)
(* so far; `mixed` whether an update used other inputs than these; `head`  *)
(* the window whose carried latents were pasted over the front.            *)
(***************************************************************************)
FlowInputs == [comps : Components, cond : Condition, seed : Nat, prompt : Nat]

Latent == [inputs : FlowInputs, applied : Seq(Nat), mixed : BOOLEAN, head : Nat]

InitialNoise(inputs) ==
  [inputs |-> inputs, applied |-> <<>>, mixed |-> FALSE, head |-> 0]

EulerUpdate(latent, inputs, step) ==
  [latent EXCEPT !.applied = Append(@, step),
                 !.mixed = @ \/ latent.inputs # inputs]

\* The latents a finished window hands to the next: none if it is too short.
CarryOf(window, frames) ==
  LET n == LatentFrames(frames)
  IN  IF CarryTo(n) > CarryFrom(n) THEN window ELSE 0

Piece == [comps : Components, latent : Latent, from : Nat, to : Nat]

-----------------------------------------------------------------------------
(***************************************************************************)
(* The durable boundaries, by magic.  `comps` stands for the five SHA-256  *)
(* digests of the metadata section, `first` and `second` for its cursor.   *)
(***************************************************************************)
PausedCodes ==
  [kind : {"COD"}, comps : Components, first : Nat, second : Nat,
   req : Requests, codes : Seq(CodeFrame)]

CompletedCodes ==
  [kind : {"CON"}, comps : Components, first : Nat, second : Nat,
   req : Requests, conditions : Seq(Condition)]

PausedFlow ==
  [kind : {"FLW"}, comps : Components, first : Nat, second : Nat,
   source : CompletedCodes, completed : Seq(Latent), active : Latent,
   carry : Nat]

CompletedFlow ==
  [kind : {"LAT"}, comps : Components, first : Nat, second : Nat,
   source : CompletedCodes, completed : Seq(Latent)]

Kinds == {"COD", "CON", "FLW", "LAT"}

Boundary == PausedCodes \cup CompletedCodes \cup PausedFlow \cup CompletedFlow

(***************************************************************************)
(* What the engine checks of a boundary before it uses it, once the        *)
(* envelope itself has been found intact.                                  *)
(***************************************************************************)
CodesCursorAccepted(b) ==
  /\ b.first = Target[b.req]
  /\ b.second = Len(b.codes)
  /\ b.second <= b.first + 1

ConditionWindowsAccepted(b) ==
  /\ b.first # 0
  /\ b.second = Len(b.conditions)
  /\ Len(b.conditions) = WindowCount(b.first)
  /\ \A i \in 1 .. Len(b.conditions) :
       b.conditions[i].frames = FramesOf(b.first, i)

FlowCursorAccepted(b) ==
  /\ b.first < Len(b.source.conditions)
  /\ Len(b.completed) = b.first
  /\ b.second <= EulerSteps[b.source.req]

LatentsAccepted(b) ==
  /\ Len(b.completed) > 0
  /\ b.first = Len(b.completed)
  /\ b.second = 0
  /\ Len(b.source.conditions) = Len(b.completed)
  /\ \A i \in 1 .. Len(b.completed) :
       LatentFrames(b.completed[i].inputs.cond.frames)
         = LatentFrames(b.source.conditions[i].frames)

-----------------------------------------------------------------------------
(***************************************************************************)
(* The uninterrupted result, against which every boundary is compared.     *)
(***************************************************************************)
RefFrame(c, r, f) == SampledFrame(c, r, Codebooks * f, f)

RefCodes(c, r, n) == [i \in 1 .. n |-> RefFrame(c, r, i - 1)]

\* Code frames of the whole song: the frame that samples audio end is not one.
RefLength(c, r) == Least(EosFrame[c][r], Target[r] + 1)

\* Frame 0 primes the loop and yields no hidden state.
RefGenerated(c, r) == Greatest(0, RefLength(c, r) - 1)

RefHiddens(c, r) ==
  [f \in 1 .. RefGenerated(c, r) |-> HiddenOf(c, f, RefFrame(c, r, f))]

RefConditions(c, r) ==
  LET frames == RefGenerated(c, r)
  IN  [i \in 1 .. WindowCount(frames) |->
        Projected(c, RefHiddens(c, r), WindowStart(i), FramesOf(frames, i))]

RefInputs(c, r, w) ==
  [comps |-> c, cond |-> RefConditions(c, r)[w], seed |-> w - 1,
   prompt |-> IF w = 1 THEN 0
              ELSE CarryOf(w - 1, RefConditions(c, r)[w - 1].frames)]

RefEuler(c, r, w, steps) ==
  [inputs |-> RefInputs(c, r, w), applied |-> [k \in 1 .. steps |-> k - 1],
   mixed |-> FALSE, head |-> 0]

RefLatent(c, r, w) ==
  [RefEuler(c, r, w, EulerSteps[r]) EXCEPT !.head = RefInputs(c, r, w).prompt]

RefLatents(c, r, n) == [w \in 1 .. n |-> RefLatent(c, r, w)]

RefPiece(c, r, w) ==
  LET count == WindowCount(RefGenerated(c, r))
      n == LatentFrames(RefConditions(c, r)[w].frames)
  IN  [comps |-> c, latent |-> RefLatent(c, r, w),
       from |-> KeptFrom(w, n), to |-> KeptTo(w, count, n)]

RefSong(c, r) ==
  [w \in 1 .. WindowCount(RefGenerated(c, r)) |-> RefPiece(c, r, w)]
=============================================================================
