--------------------------- MODULE CantorLiveness ---------------------------
(***************************************************************************)
(* That a song is eventually delivered.  The engine computes without being *)
(* scheduled by anybody, so its steps are weakly fair.  Of the host it is  *)
(* assumed that it goes on: it loads an engine when it has none, and       *)
(* submits the most advanced boundary it has saved.                        *)
(*                                                                         *)
(* Nothing can be delivered while somebody keeps cancelling, or while the  *)
(* process keeps dying: a cancellation can come at the first poll of each  *)
(* call, before any work is done.  So the property is about behaviours in  *)
(* which that ends, after any number of interruptions in any state.        *)
(***************************************************************************)
EXTENDS CantorEngine

MostAdvancedCall ==
  \/ /\ store["LAT"] # None
     /\ StartDecode
     /\ UNCHANGED <<ar, flow>>
  \/ /\ store["LAT"] = None
     /\ store["CON"] # None \/ store["FLW"] # None
     /\ IF store["FLW"] # None THEN ResumeDiffuse ELSE StartDiffuse
     /\ UNCHANGED <<ar, decode>>
  \/ /\ store["LAT"] = None /\ store["CON"] = None /\ store["FLW"] = None
     /\ IF store["COD"] # None THEN ResumeCodes
                               ELSE \E r \in Requests : StartCodes(r)
     /\ UNCHANGED <<flow, decode>>

\* A call that gets as far as leasing its first runtime.
HostProceeds ==
  \/ Load
  \/ MostAdvancedCall /\ pc' # "idle" /\ UNCHANGED disk

EngineProceeds ==
  /\ \/ CodesStep /\ UNCHANGED <<flow, decode>>
     \/ DiffuseStep /\ UNCHANGED <<ar, decode>>
     \/ DecodeStep /\ UNCHANGED <<ar, flow>>
  /\ pc' = "idle" => ret'.status = "DONE"
  /\ UNCHANGED disk

Fairness == WF_vars(HostProceeds) /\ WF_vars(EngineProceeds)

FairSpec == Spec /\ Fairness

SongReady == ctx # None /\ ctx.audio # None

(***************************************************************************)
(* Once cancellations, faults, crashes and detours stop, the song is       *)
(* delivered, from whatever boundaries they left behind: the engine never  *)
(* hangs between two stages, never refuses what it saved itself, and no    *)
(* resumed loop runs past its end or short of it for ever.                 *)
(***************************************************************************)
SongDelivered ==
  <>[][HostProceeds \/ EngineProceeds]_vars => []<>SongReady

(***************************************************************************)
(* A call that is under way returns, whether or not anybody cancels it and *)
(* whatever the host does next: no loop of a stage waits for a condition   *)
(* that its own steps have passed.                                         *)
(***************************************************************************)
CallReturns == pc # "idle" ~> pc = "idle"
=============================================================================
