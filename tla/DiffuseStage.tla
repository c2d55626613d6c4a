---------------------------- MODULE DiffuseStage ----------------------------
(***************************************************************************)
(* The DIFFUSE stage: run_flow over denoise_chunk_resumable and the Euler  *)
(* loop of the flow sampler.                                               *)
(*                                                                         *)
(* Windows are denoised in order; each is prompted with latents carried    *)
(* from the one before.  A paused boundary stores the finished windows,    *)
(* the Euler latent of the window in progress, the carry and the cursor.   *)
(***************************************************************************)
EXTENDS EngineState

VARIABLE flow   \* the locals of the DIFFUSE call in progress, None otherwise

FlowState ==
  [input : CompletedCodes \cup PausedFlow,  \* the boundary the host passed in
   source : CompletedCodes,                 \* state.codes_boundary
   completed : Seq(Latent),
   latent : Latent,                         \* the sampler's latent
   step : Nat,                              \* Euler updates it has behind it
   carry : Nat]                             \* window the carries come from

\* The window in progress, from 1, and what denoise_chunk prepares for it.
Window(f) == Len(f.completed) + 1

\* Mutant: every window is seeded like the first.
InputsForOneSeed(c, source, completed, carry) ==
  [comps |-> c, cond |-> source.conditions[Len(completed) + 1],
   seed |-> 0, prompt |-> carry]

InputsFor(c, source, completed, carry) ==
  [comps |-> c, cond |-> source.conditions[Len(completed) + 1],
   seed |-> Len(completed), prompt |-> carry]

-----------------------------------------------------------------------------
FreshFlow(b) ==
  [input |-> b, source |-> b, completed |-> <<>>, active |-> None,
   step |-> 0, carry |-> 0]

\* Mutant: the window in progress is started again.
ResumedFlowRestarts(b) ==
  [input |-> b, source |-> b.source, completed |-> b.completed,
   active |-> None, step |-> 0, carry |-> b.carry]

ResumedFlow(b) ==
  [input |-> b, source |-> b.source, completed |-> b.completed,
   active |-> b.active, step |-> b.second, carry |-> b.carry]

\* Mutant: the stored latent is resumed at the first schedule position.
FlowStartForgetsStep(s, c) ==
  [input |-> s.input, source |-> s.source, completed |-> s.completed,
   latent |-> IF s.active # None THEN s.active
              ELSE InitialNoise(InputsFor(c, s.source, s.completed, s.carry)),
   step |-> 0, carry |-> s.carry]

\* The sampler starts from the stored latent if there is one, else from noise.
FlowStart(s, c) ==
  [input |-> s.input, source |-> s.source, completed |-> s.completed,
   latent |-> IF s.active # None THEN s.active
              ELSE InitialNoise(InputsFor(c, s.source, s.completed, s.carry)),
   step |-> s.step, carry |-> s.carry]

\* Mutant: the digests are not compared.
AnyMix(b, s, c) == TRUE

\* The digests of the boundary and of the CODES boundary inside it.
SameMix(b, s, c) == b.comps = c.identities /\ s.source.comps = c.identities

\* A call of DIFFUSE with boundary b, decoded into s.
CallDiffuse(b, s, accepted) ==
  LET entered == Entered(ctx)
      ready == Ensured(entered, "ready")
      sameMix == SameMix(b, s, ready)
      usable == /\ sameMix
                /\ ConditionWindowsAccepted(s.source)
                /\ accepted
  IN  /\ pc = "idle"
      /\ ctx # None
      /\ \/ EnsureFails("DIFFUSE", entered) /\ UNCHANGED flow
         \/ ctx' = ready /\ ~usable /\ RefuseBoundary("DIFFUSE", sameMix)
            /\ UNCHANGED flow
         \/ /\ usable
            /\ EnterLease(ready, "flow", "flow")
            /\ flow' = FlowStart(s, runtime'["flow"])
         \/ usable /\ LeaseFails(ready, "DIFFUSE", "flow")
            /\ UNCHANGED flow

StartDiffuse ==
  /\ store["CON"] # None
  /\ CallDiffuse(store["CON"], FreshFlow(store["CON"]), TRUE)

ResumeDiffuse ==
  /\ store["FLW"] # None
  /\ CallDiffuse(store["FLW"], ResumedFlow(store["FLW"]),
                 FlowCursorAccepted(store["FLW"]))

-----------------------------------------------------------------------------
FlowReq == flow.source.req

FlowInputsNow ==
  InputsFor(runtime["flow"], flow.source, flow.completed, flow.carry)

\* Mutant: one update more than the schedule has.
DenoisingInclusive ==
  /\ pc = "flow"
  /\ flow.step <= EulerSteps[FlowReq]

Denoising ==
  /\ pc = "flow"
  /\ flow.step < EulerSteps[FlowReq]

EulerStep ==
  /\ Denoising
  /\ flow' = [flow EXCEPT
                !.latent = EulerUpdate(@, FlowInputsNow, flow.step),
                !.step = @ + 1]
  /\ UNCHANGED <<ctx, runtime, graphs, pc, ret, store>>

\* Mutant: the paused boundary is written with the magic of a finished one.
PausedFlowBoundaryAsLatents ==
  [kind |-> "LAT", comps |-> ctx.identities, first |-> Len(flow.completed),
   second |-> flow.step, source |-> flow.source,
   completed |-> flow.completed, active |-> flow.latent, carry |-> flow.carry]

PausedFlowBoundary ==
  [kind |-> "FLW", comps |-> ctx.identities, first |-> Len(flow.completed),
   second |-> flow.step, source |-> flow.source,
   completed |-> flow.completed, active |-> flow.latent, carry |-> flow.carry]

\* The poll before an update, also before the first one of a call.
PauseFlow ==
  /\ Denoising
  /\ FinishLease("flow")
  /\ Emit("DIFFUSE", "PAUSED", "CANCEL", PausedFlowBoundary)
  /\ flow' = None
  /\ UNCHANGED ctx

FlowFault ==
  /\ Denoising
  /\ LeasedFault("DIFFUSE", "flow")
  /\ flow' = None
  /\ UNCHANGED ctx

CompletedFlowBoundary(completed) ==
  [kind |-> "LAT", comps |-> ctx.identities, first |-> Len(completed),
   second |-> 0, source |-> flow.source, completed |-> completed]

\* Mutant: the carried latents are not pasted over the front.
FinishedWindowsUnpasted == Append(flow.completed, flow.latent)

(***************************************************************************)
(* After the last update there is no poll: the carried latents are pasted  *)
(* over the front, the window is finished, and either the next one begins  *)
(* from its own noise or the stage completes.                              *)
(***************************************************************************)
FinishedWindows ==
  Append(flow.completed,
         [flow.latent EXCEPT !.head = IF flow.carry # 0 THEN flow.carry ELSE @])

NextCarry ==
  CarryOf(Window(flow), flow.source.conditions[Window(flow)].frames)

FinishWindow ==
  /\ pc = "flow"
  /\ flow.step = EulerSteps[FlowReq]
  /\ Window(flow) < Len(flow.source.conditions)
  /\ flow' = [flow EXCEPT
       !.completed = FinishedWindows,
       !.carry = NextCarry,
       !.latent = InitialNoise(InputsFor(runtime["flow"], flow.source,
                                         FinishedWindows, NextCarry)),
       !.step = 0]
  /\ UNCHANGED <<ctx, runtime, graphs, pc, ret, store>>

CompleteFlow ==
  /\ pc = "flow"
  /\ flow.step = EulerSteps[FlowReq]
  /\ Window(flow) = Len(flow.source.conditions)
  /\ FinishLease("flow")
  /\ Emit("DIFFUSE", "DONE", "OK", CompletedFlowBoundary(FinishedWindows))
  /\ flow' = None
  /\ UNCHANGED ctx

-----------------------------------------------------------------------------
DiffuseStep == EulerStep \/ FinishWindow \/ CompleteFlow

DiffuseInterrupted == PauseFlow \/ FlowFault
=============================================================================
