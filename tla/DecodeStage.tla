----------------------------- MODULE DecodeStage -----------------------------
(***************************************************************************)
(* The DECODE stage: run_decode.  Windows are decoded and cropped one by   *)
(* one; a cancellation throws them away and returns no boundary, because   *)
(* the completed DIFFUSE boundary can simply be decoded again.             *)
(***************************************************************************)
EXTENDS EngineState

VARIABLE decode   \* the locals of the DECODE call in progress, None otherwise

DecodeState == [input : CompletedFlow, pieces : Seq(Piece)]

StartDecode ==
  LET b == store["LAT"]
      entered == Entered(ctx)
      ready == Ensured(entered, "ready")
      sameMix == b.comps = ready.identities /\ b.source.comps = ready.identities
      usable == sameMix /\ ConditionWindowsAccepted(b.source) /\ LatentsAccepted(b)
  IN  /\ pc = "idle"
      /\ ctx # None
      /\ b # None
      /\ \/ EnsureFails("DECODE", entered) /\ UNCHANGED decode
         \/ ctx' = ready /\ ~usable /\ RefuseBoundary("DECODE", sameMix)
            /\ UNCHANGED decode
         \/ /\ usable
            /\ EnterLease(ready, "vocoder", "decode")
            /\ decode' = [input |-> b, pieces |-> <<>>]
         \/ usable /\ LeaseFails(ready, "DECODE", "vocoder")
            /\ UNCHANGED decode

Windows == Len(decode.input.completed)

Decoding ==
  /\ pc = "decode"
  /\ Len(decode.pieces) < Windows

\* Mutant: no window is cropped at its front.
UncroppedPiece(i, latent, n) ==
  [comps |-> runtime["vocoder"], latent |-> latent,
   from |-> 0, to |-> KeptTo(i, Windows, n)]

\* Window i decoded, and the part of its samples that is kept.
CroppedPiece(i, latent, n) ==
  [comps |-> runtime["vocoder"], latent |-> latent,
   from |-> KeptFrom(i, n), to |-> KeptTo(i, Windows, n)]

DecodeWindow ==
  LET i == Len(decode.pieces) + 1
      latent == decode.input.completed[i]
      n == LatentFrames(latent.inputs.cond.frames)
  IN  /\ Decoding
      /\ decode' = [decode EXCEPT !.pieces =
                      Append(@, CroppedPiece(i, latent, n))]
      /\ UNCHANGED <<ctx, runtime, graphs, pc, ret, store>>

\* The poll before each window.
PauseDecode ==
  /\ Decoding
  /\ FinishLease("vocoder")
  /\ Return("DECODE", "PAUSED", "CANCEL", None)
  /\ decode' = None
  /\ UNCHANGED ctx

DecodeFault ==
  /\ Decoding
  /\ LeasedFault("DECODE", "vocoder")
  /\ decode' = None
  /\ UNCHANGED ctx

(***************************************************************************)
(* The song is clamped, resampled and stored only when every window is in. *)
(* A fault leaves no samples: the vector was cleared and a resize that     *)
(* throws leaves it so (the count and the rate, already set, are left out: *)
(* cantor_engine_audio hands out no pointer for an empty vector).          *)
(***************************************************************************)
CompleteDecode ==
  /\ pc = "decode"
  /\ Len(decode.pieces) = Windows
  /\ FinishLease("vocoder")
  /\ \/ /\ Return("DECODE", "DONE", "OK", None)
        /\ ctx' = [ctx EXCEPT !.audio =
                     [req |-> decode.input.source.req, pieces |-> decode.pieces]]
     \/ /\ \E e \in ComputeErrors : Fail("DECODE", e)
        /\ UNCHANGED ctx
  /\ decode' = None

-----------------------------------------------------------------------------
DecodeStep == DecodeWindow \/ CompleteDecode

DecodeInterrupted == PauseDecode \/ DecodeFault
=============================================================================
