----------------------------- MODULE CodesStage -----------------------------
(***************************************************************************)
(* The CODES stage: run_codes and the resumable AR loop it drives.         *)
(*                                                                         *)
(* A paused CODES boundary stores only discrete codes.  Resuming it walks  *)
(* the stored frames again (forced codes, so that the KV cache and the     *)
(* hidden states are rebuilt), then samples on.  When the loop is done its *)
(* hidden states are projected window by window; a cancellation there      *)
(* keeps the codes and throws the windows away.                            *)
(***************************************************************************)
EXTENDS EngineState

VARIABLE ar   \* the locals of the CODES call in progress, None otherwise

ArState ==
  [req : Requests,
   replay : Seq(CodeFrame),     \* codes of the boundary being resumed
   codes : Seq(CodeFrame),      \* result.codes
   hiddens : Seq(Hidden),       \* result.frame_hiddens
   draw : Nat,                  \* sample_call_index
   cached : Nat,                \* frames fed back to the LM's KV cache
   conditions : Seq(Condition)]

ArStart(r, replay) ==
  [req |-> r, replay |-> replay, codes |-> <<>>, hiddens |-> <<>>,
   draw |-> 0, cached |-> 0, conditions |-> <<>>]

-----------------------------------------------------------------------------
BeginAr(c, r, replay) ==
  \/ EnterLease(c, "ar", "ar") /\ ar' = ArStart(r, replay)
  \/ LeaseFails(c, "CODES", "ar") /\ UNCHANGED ar

\* A call with a JSON request.
StartCodes(r) ==
  LET entered == [Entered(ctx) EXCEPT !.duration = r]
  IN  /\ pc = "idle"
      /\ ctx # None
      /\ \/ EnsureFails("CODES", entered) /\ UNCHANGED ar
         \/ BeginAr(Ensured(entered, "ready"), r, <<>>)

\* A call with the saved paused boundary.
ResumeCodes ==
  LET b == store["COD"]
      entered == [Entered(ctx) EXCEPT !.duration = b.req]
      ready == Ensured(entered, "ready")
      sameMix == b.comps = ready.identities
  IN  /\ pc = "idle"
      /\ ctx # None
      /\ b # None
      /\ \/ EnsureFails("CODES", entered) /\ UNCHANGED ar
         \/ /\ ctx' = ready
            /\ ~(sameMix /\ CodesCursorAccepted(b))
            /\ RefuseBoundary("CODES", sameMix)
            /\ UNCHANGED ar
         \/ /\ sameMix /\ CodesCursorAccepted(b)
            /\ BeginAr(ready, b.req, b.codes)

-----------------------------------------------------------------------------
\* The frame the loop is at, and whether the boundary already holds it.
ArFrame == Len(ar.codes)
Replaying == ArFrame < Len(ar.replay)
AtEos == ArFrame = EosFrame[runtime["ar"]][ar.req]

\* Mutant: the loop runs one frame past its target.
PastLastFrame == ArFrame > Target[ar.req]

AtLastFrame == ArFrame = Target[ar.req]

\* Mutant: forced codes draw nothing.
DrawsIfSampled == IF Replaying THEN 0 ELSE Codebooks

DrawsPerFrame == Codebooks

(***************************************************************************)
(* What both kinds of frame do once the codes are known: the depth decoder *)
(* draws for the remaining codebooks (also when it is forced), the hidden  *)
(* state of every frame but the first is kept, and unless this was the     *)
(* last frame the codes are fed back to the LM.                            *)
(***************************************************************************)
KeepFrame(frame) ==
  /\ ar' = [ar EXCEPT
       !.codes = Append(@, frame),
       !.hiddens = IF ArFrame > 0
                   THEN Append(@, HiddenOf(runtime["ar"], ar.cached, frame))
                   ELSE @,
       !.draw = @ + DrawsPerFrame,
       !.cached = IF AtLastFrame THEN @ ELSE @ + 1]
  /\ pc' = IF AtLastFrame THEN "arDone" ELSE "ar"
  /\ UNCHANGED <<ctx, runtime, graphs, ret, store>>

ReplayFrame ==
  /\ pc = "ar"
  /\ Replaying
  /\ KeepFrame(ar.replay[ArFrame + 1])

SampleFrame ==
  /\ pc = "ar"
  /\ ~Replaying
  /\ ~AtEos
  /\ KeepFrame(SampledFrame(runtime["ar"], ar.req, ar.draw, ar.cached))

\* The LM samples audio end: the frame is not stored.
SampleEos ==
  /\ pc = "ar"
  /\ ~Replaying
  /\ AtEos
  /\ pc' = "arDone"
  /\ UNCHANGED <<ctx, runtime, graphs, ret, store, ar>>

PausedCodesBoundary ==
  [kind |-> "COD", comps |-> ctx.identities, first |-> Target[ar.req],
   second |-> Len(ar.codes), req |-> ar.req, codes |-> ar.codes]

\* The poll at the head of the loop, also reached while replaying.
PauseAr ==
  /\ pc = "ar"
  /\ FinishLease("ar")
  /\ Emit("CODES", "PAUSED", "CANCEL", PausedCodesBoundary)
  /\ ar' = None
  /\ UNCHANGED ctx

ArFault ==
  /\ pc = "ar"
  /\ LeasedFault("CODES", "ar")
  /\ ar' = None
  /\ UNCHANGED ctx

-----------------------------------------------------------------------------
\* Mutant: the AR lease is left to the end of the call.
FinishArLate ==
  /\ pc = "arDone"
  /\ IF Len(ar.hiddens) = 0
     THEN Fail("CODES", "OTHER") /\ ar' = None
     ELSE pc' = "project" /\ UNCHANGED <<ret, store, ar>>
  /\ UNCHANGED <<ctx, runtime, graphs>>

(***************************************************************************)
(* The loop is over.  ar_lease.finish() comes first, so an empty result is *)
(* refused with the AR weights still retained, and the condition encoder   *)
(* is loaded only after they are gone when they are not.                   *)
(***************************************************************************)
FinishAr ==
  /\ pc = "arDone"
  /\ FinishLease("ar")
  /\ IF Len(ar.hiddens) = 0
     THEN Fail("CODES", "OTHER") /\ ar' = None
     ELSE pc' = "project" /\ UNCHANGED <<ret, store, ar>>
  /\ UNCHANGED ctx

BeginProjection ==
  /\ pc = "project"
  /\ "condition" \notin graphs
  /\ \/ /\ Lease(ctx, "condition")
        /\ UNCHANGED <<pc, ret, store, ar>>
     \/ LeaseFails(ctx, "CODES", "condition") /\ ar' = None

Generated == Len(ar.hiddens)

Projecting ==
  /\ pc = "project"
  /\ "condition" \in graphs

ProjectWindow ==
  LET i == Len(ar.conditions) + 1
  IN  /\ Projecting
      /\ i <= WindowCount(Generated)
      /\ ar' = [ar EXCEPT !.conditions =
                  Append(@, Projected(runtime["condition"], ar.hiddens,
                                      WindowStart(i), FramesOf(Generated, i)))]
      /\ UNCHANGED <<ctx, runtime, graphs, pc, ret, store>>

\* The poll before each window.
PauseProjection ==
  /\ Projecting
  /\ Len(ar.conditions) < WindowCount(Generated)
  /\ FinishLease("condition")
  /\ Emit("CODES", "PAUSED", "CANCEL", PausedCodesBoundary)
  /\ ar' = None
  /\ UNCHANGED ctx

ProjectionFault ==
  /\ Projecting
  /\ Len(ar.conditions) < WindowCount(Generated)
  /\ LeasedFault("CODES", "condition")
  /\ ar' = None
  /\ UNCHANGED ctx

\* Mutant: the cursor holds the requested frames, not the generated ones.
CompletedCodesBoundaryOfTarget ==
  [kind |-> "CON", comps |-> ctx.identities, first |-> Target[ar.req],
   second |-> Len(ar.conditions), req |-> ar.req, conditions |-> ar.conditions]

CompletedCodesBoundary ==
  [kind |-> "CON", comps |-> ctx.identities, first |-> Generated,
   second |-> Len(ar.conditions), req |-> ar.req, conditions |-> ar.conditions]

CompleteCodes ==
  /\ Projecting
  /\ Len(ar.conditions) = WindowCount(Generated)
  /\ FinishLease("condition")
  /\ Emit("CODES", "DONE", "OK", CompletedCodesBoundary)
  /\ ar' = None
  /\ UNCHANGED ctx

-----------------------------------------------------------------------------
CodesStep ==
  \/ ReplayFrame \/ SampleFrame \/ SampleEos \/ FinishAr
  \/ BeginProjection \/ ProjectWindow \/ CompleteCodes

CodesInterrupted == PauseAr \/ ArFault \/ PauseProjection \/ ProjectionFault
=============================================================================
