---------------------------- MODULE CantorEngine ----------------------------
(***************************************************************************)
(* One host driving the Cantor engine: the three stages composed with the  *)
(* life of the context (load, free, the death of the process) and with the *)
(* component files on disk.                                                *)
(*                                                                         *)
(* The host keeps the newest boundary of each kind and may submit any of   *)
(* them, in any order, to any context it loads; should_cancel may answer   *)
(* true at any poll; any computation may fail.                             *)
(***************************************************************************)
EXTENDS CodesStage, DiffuseStage, DecodeStage, SequencesExt

locals == <<ar, flow, decode>>

vars == <<disk, ctx, runtime, graphs, pc, ret, store, ar, flow, decode>>

NoBoundaries == [k \in Kinds |-> None]

Init ==
  /\ disk \in Components
  /\ ctx = None
  /\ runtime = Absent
  /\ graphs = {}
  /\ pc = "idle"
  /\ ret = None
  /\ store = NoBoundaries
  /\ ar = None
  /\ flow = None
  /\ decode = None

-----------------------------------------------------------------------------
(***************************************************************************)
(* The stages.  A stage leaves the files and the other stages' locals be.  *)
(***************************************************************************)
CodesCall == (\E r \in Requests : StartCodes(r)) \/ ResumeCodes

DiffuseCall == StartDiffuse \/ ResumeDiffuse

StageCodes ==
  /\ CodesCall \/ CodesStep \/ CodesInterrupted
  /\ UNCHANGED <<disk, flow, decode>>

StageDiffuse ==
  /\ DiffuseCall \/ DiffuseStep \/ DiffuseInterrupted
  /\ UNCHANGED <<disk, ar, decode>>

StageDecode ==
  /\ StartDecode \/ DecodeStep \/ DecodeInterrupted
  /\ UNCHANGED <<disk, ar, flow>>

(***************************************************************************)
(* run_stage refuses null arguments before it touches the context: the     *)
(* host gets its error code, and the song of the last call that was        *)
(* dispatched is still there.  Input that no stage can parse, and a stage  *)
(* that does not exist, are refused after the song was dropped.            *)
(***************************************************************************)
InvalidArguments ==
  /\ pc = "idle"
  /\ ctx # None
  /\ UNCHANGED vars

RejectedInput ==
  /\ pc = "idle"
  /\ ctx # None
  /\ \E s \in Stages, e \in ComputeErrors : Fail(s, e)
  /\ ctx' = Entered(ctx)
  /\ UNCHANGED <<disk, runtime, graphs, locals>>

-----------------------------------------------------------------------------
\* cantor_engine_load only records the paths and the options.
Load ==
  /\ pc = "idle"
  /\ ctx = None
  /\ \E keep \in KeepOptions : ctx' = FreshContext(keep)
  /\ UNCHANGED <<disk, runtime, graphs, pc, ret, store, locals>>

\* Mutant: the runtimes outlive their context.
FreeKeepsRuntimes ==
  /\ pc = "idle"
  /\ ctx # None
  /\ ctx' = None
  /\ UNCHANGED <<disk, runtime, graphs, pc, ret, store, locals>>

Free ==
  /\ pc = "idle"
  /\ ctx # None
  /\ ctx' = None
  /\ runtime' = Absent
  /\ UNCHANGED <<disk, graphs, pc, ret, store, locals>>

\* The process dies, in a call or between calls; the saved boundaries survive.
Crash ==
  /\ ctx # None
  /\ ctx' = None
  /\ runtime' = Absent
  /\ graphs' = {}
  /\ pc' = "idle"
  /\ ret' = None
  /\ ar' = None
  /\ flow' = None
  /\ decode' = None
  /\ UNCHANGED <<disk, store>>

\* Another quantization mix is put at the component paths.
ReplaceFiles ==
  /\ ctx = None \/ FilesMayChange
  /\ disk' \in Components \ {disk}
  /\ UNCHANGED <<ctx, runtime, graphs, pc, ret, store, locals>>

-----------------------------------------------------------------------------
Next ==
  \/ StageCodes \/ StageDiffuse \/ StageDecode
  \/ InvalidArguments \/ RejectedInput
  \/ Load \/ Free \/ Crash \/ ReplaceFiles

Spec == Init /\ [][Next]_vars

-----------------------------------------------------------------------------
TypeOK ==
  /\ disk \in Components
  /\ ctx \in Context \cup {None}
  /\ runtime \in [Modules -> Components \cup {None}]
  /\ graphs \subseteq Modules
  /\ pc \in {"idle", "ar", "arDone", "project", "flow", "decode"}
  /\ ret \in Outcome \cup {None}
  /\ store \in [Kinds -> Boundary \cup {None}]
  /\ \A k \in Kinds : store[k] # None => store[k].kind = k
  /\ ar \in ArState \cup {None}
  /\ flow \in FlowState \cup {None}
  /\ decode \in DecodeState \cup {None}

(***************************************************************************)
(* docs/cantor.md: "a state cannot silently resume against a different     *)
(* quantization mix".  As long as nobody rewrites the files under a live   *)
(* context, whatever weights any runtime slot holds are the ones whose     *)
(* digests the context stamps into the boundaries it writes, although      *)
(* digests and weights are read from the path at different times.          *)
(***************************************************************************)
WeightsMatchDigests ==
  \A m \in Modules :
    runtime[m] # None => ctx # None /\ ctx.identities = runtime[m]

(***************************************************************************)
(* A saved CODES boundary holds what an uninterrupted run would hold at    *)
(* the same point, whatever sequence of cancellations (also in the middle  *)
(* of a replay, and during projection), faults, restarts and mixes led to  *)
(* it: the smoke tool compares one resumed run byte for byte.              *)
(***************************************************************************)
SavedCodesExact ==
  /\ store["COD"] # None =>
       LET b == store["COD"]
       IN  /\ Len(b.codes) <= RefLength(b.comps, b.req)
           /\ b.codes = RefCodes(b.comps, b.req, Len(b.codes))
  /\ store["CON"] # None =>
       LET b == store["CON"]
       IN  b.conditions = RefConditions(b.comps, b.req)

(***************************************************************************)
(* The same for DIFFUSE: finished windows, the Euler latent in progress    *)
(* and the carry of a paused boundary, and the latents of a completed one, *)
(* are those of an uninterrupted run.  In particular a resumed window gets *)
(* the same seed and the same prompt as before, no Euler position is       *)
(* applied twice or skipped, and the source boundary is passed on intact.  *)
(***************************************************************************)
SavedFlowExact ==
  /\ store["FLW"] # None =>
       LET b == store["FLW"]
           c == b.comps
           r == b.source.req
       IN  /\ b.source.conditions = RefConditions(c, r)
           /\ b.completed = RefLatents(c, r, b.first)
           /\ b.active = RefEuler(c, r, b.first + 1, b.second)
           /\ b.carry = RefInputs(c, r, b.first + 1).prompt
  /\ store["LAT"] # None =>
       LET b == store["LAT"]
           c == b.comps
           r == b.source.req
       IN  /\ b.source.conditions = RefConditions(c, r)
           /\ b.completed = RefLatents(c, r, Len(b.source.conditions))

\* The song a context hands out is the uninterrupted one of its own mix.
SongExact ==
  ctx # None /\ ctx.audio # None =>
    ctx.audio.pieces = RefSong(ctx.identities, ctx.audio.req)

(***************************************************************************)
(* The engine never refuses a boundary it wrote, when the same mix reads   *)
(* it: every cursor and shape check of the next stage holds of every saved *)
(* boundary, the ones saved between two windows or before the first frame  *)
(* included.                                                               *)
(***************************************************************************)
SavedBoundariesAccepted ==
  /\ store["COD"] # None => CodesCursorAccepted(store["COD"])
  /\ store["CON"] # None => ConditionWindowsAccepted(store["CON"])
  /\ store["FLW"] # None =>
       /\ store["FLW"].source.comps = store["FLW"].comps
       /\ ConditionWindowsAccepted(store["FLW"].source)
       /\ FlowCursorAccepted(store["FLW"])
  /\ store["LAT"] # None =>
       /\ store["LAT"].source.comps = store["LAT"].comps
       /\ ConditionWindowsAccepted(store["LAT"].source)
       /\ LatentsAccepted(store["LAT"])

(***************************************************************************)
(* docs/cantor.md: "Finished windows are not recomputed".  Whatever the    *)
(* DIFFUSE stage saves, when it was resumed from a paused boundary the     *)
(* windows finished there are still finished, and if the same window is in *)
(* progress it has at least as many Euler updates behind it.  (CODES gives *)
(* no such guarantee: a cancellation during the replay saves the shorter   *)
(* prefix that had been replayed.)                                         *)
(***************************************************************************)
FlowProgress(from, to) ==
  /\ IsPrefix(from.completed, to.completed)
  /\ to.kind = "FLW" /\ to.first = from.first => to.second >= from.second

FlowProgressKept ==
  [][\A k \in {"FLW", "LAT"} :
       store'[k] # store[k] /\ flow # None /\ flow.input.kind = "FLW"
         => FlowProgress(flow.input, store'[k])]_vars

(***************************************************************************)
(* docs/cantor.md: "Request graphs and KV state are released at stage      *)
(* boundaries, including pauses"; without keep_loaded "each stage releases *)
(* its runtime and weights when finished".  Every way out of a stage is    *)
(* meant: success, the three kinds of pause, a fault at any point, and a   *)
(* failure after the last module was released.                             *)
(***************************************************************************)
ReleasedBetweenCalls ==
  pc = "idle" =>
    /\ graphs = {}
    /\ ctx # None /\ ~ctx.keep => runtime = Absent

(***************************************************************************)
(* Peak memory: request state of two modules never exists at once, and a   *)
(* context that does not keep weights never holds those of two modules,    *)
(* although CODES uses two runtimes in one call.                           *)
(***************************************************************************)
OneModelAtATime ==
  \A m, n \in Modules :
    /\ m \in graphs /\ n \in graphs => m = n
    /\ ctx # None /\ ~ctx.keep /\ runtime[m] # None /\ runtime[n] # None
         => m = n

(***************************************************************************)
(* A context holds a song only between calls, and only while the last call *)
(* it dispatched is the DECODE that completed the song.  A song outlives   *)
(* neither the beginning of the next call nor that call's refusal, failure *)
(* or pause, a DECODE that is cancelled or fails half way included; a call *)
(* refused for its null arguments is dispatched to no stage, and after it  *)
(* the song is there as before.                                            *)
(***************************************************************************)
SongOnlyAfterDecode ==
  ctx # None /\ ctx.audio # None =>
    /\ pc = "idle"
    /\ ret # None
    /\ ret.stage = "DECODE" /\ ret.status = "DONE"
=============================================================================
