------------------------- MODULE CantorExactProofs -------------------------
(***************************************************************************)
(* What the engine saves and sings is what an uninterrupted run would      *)
(* have, when nobody replaces files under a live context.                  *)
(*                                                                         *)
(* First the weights: digests and weights are read at different times, so  *)
(* MixInv says that whatever the context has hashed or loaded is what is   *)
(* on disk.  Then the values.  That a boundary is exact is not inductive   *)
(* by itself: a call that resumes it works on locals, so ExactInv says the *)
(* same of the locals of the call in progress (the frame the AR loop is    *)
(* at, the draw and the cache that go with it, the windows projected,      *)
(* finished and decoded, the updates of the one in progress, its carry),   *)
(* and adds of the cursors what the next stage checks.                     *)
(*                                                                         *)
(* Last, the engine implements SongService.  HeldInv says that the host    *)
(* still holds the boundary a call was given, so that what the call saves  *)
(* is made of a result the service has.                                    *)
(***************************************************************************)
EXTENDS CantorRefinement, CantorEngineProofs

FilesStay == FilesMayChange = FALSE

\* What a context may know of the files: nothing mapped, no digest but disk's.
Knows(c) ==
  /\ c \in Context
  /\ \A m \in Modules : c.opened[m] = None
  /\ c.identities \in {None, disk}

MixInv ==
  /\ ctx # None => Knows(ctx)
  /\ \A m \in Modules :
       runtime[m] # None => ctx # None /\ ctx.identities = disk /\ runtime[m] = disk

(***************************************************************************)
(* What a step of a call does to digests and weights: a slot is emptied,   *)
(* kept, or filled from the disk by a context that has hashed it.          *)
(***************************************************************************)
CallStep ==
  /\ ctx # None
  /\ UNCHANGED disk
  /\ Knows(ctx')
  /\ ctx.identities # None => ctx'.identities = ctx.identities
  /\ \A m \in Modules :
       \/ runtime'[m] \in {None, runtime[m]}
       \/ runtime'[m] = disk /\ ctx'.identities = disk

LEMMA CallStepInv ==
  ASSUME MixInv, CallStep, ModelAssumption, disk \in Components
  PROVE  MixInv'
<1>1. ctx' # None
  BY NoneAssumption DEF CallStep, Knows
<1>2. Knows(ctx)'
  BY DEF CallStep, Knows
<1>3. ASSUME NEW m \in Modules, runtime'[m] # None
      PROVE  ctx'.identities = disk' /\ runtime'[m] = disk'
  <2>1. CASE runtime'[m] = runtime[m]
    BY <1>3, <2>1 DEF CallStep, MixInv, ModelAssumption
  <2>2. CASE runtime'[m] = disk /\ ctx'.identities = disk
    BY <2>2 DEF CallStep
  <2> QED BY <1>3, <2>1, <2>2 DEF CallStep
<1> QED BY <1>1, <1>2, <1>3 DEF MixInv

-----------------------------------------------------------------------------
(***************************************************************************)
(* The pieces calls are made of.                                           *)
(***************************************************************************)
LEMMA EnsuredKnows ==
  ASSUME FilesStay, disk \in Components, NEW c, Knows(c),
         NEW reached \in {"hash", "assets", "backend", "ready"}
  PROVE  /\ Knows(Ensured(c, reached))
         /\ c.identities # None => Ensured(c, reached).identities = c.identities
         /\ reached # "hash" => Ensured(c, reached).identities = disk
<1>1. c \in Context /\ Ensured(c, reached) \in Context
  BY EnsuredTyped DEF Knows
<1>2. \A m \in Modules : Opened[m] = None
  BY DEF Opened, Recorded, FilesStay
<1>3. /\ Ensured(c, reached).identities =
           IF c.identities = None /\ reached # "hash" THEN disk ELSE c.identities
      /\ Ensured(c, reached).opened \in {Opened, c.opened}
  BY <1>1 DEF Ensured, Context
<1> QED BY <1>1, <1>2, <1>3 DEF Knows

LEMMA OpenedKnows ==
  ASSUME NEW c, Knows(c), NEW m \in Modules
  PROVE  /\ Knows([c EXCEPT !.opened[m] = None])
         /\ [c EXCEPT !.opened[m] = None].identities = c.identities
<1>1. c \in Context /\ [c EXCEPT !.opened[m] = None] \in Context
  BY OpenedTyped DEF Knows
<1>2. /\ [c EXCEPT !.opened[m] = None].opened = [c.opened EXCEPT ![m] = None]
      /\ [c EXCEPT !.opened[m] = None].identities = c.identities
      /\ c.opened \in [Modules -> Components \cup {None}]
  BY <1>1 DEF Context
<1> QED BY <1>1, <1>2 DEF Knows

\* A runtime is built by a context that has its digests.
LEMMA LeaseStep ==
  ASSUME RuntimeOK, ctx # None, disk' = disk, NEW c, Knows(c),
         c.identities = disk, ctx.identities # None => ctx.identities = disk,
         NEW m \in Modules, Lease(c, m)
  PROVE  CallStep
<1>1. BytesOf(c, m) = disk
  BY DEF BytesOf, Knows
<1>2. CASE /\ runtime[m] = None
           /\ runtime' = [runtime EXCEPT ![m] = BytesOf(c, m)]
           /\ ctx' = [c EXCEPT !.opened[m] = None]
  BY <1>1, <1>2, OpenedKnows DEF CallStep, RuntimeOK
<1>3. CASE runtime[m] # None /\ ctx' = c /\ UNCHANGED runtime
  BY <1>3 DEF CallStep
<1> QED BY <1>2, <1>3 DEF Lease

LEMMA LeaseFailsStep ==
  ASSUME FilesStay, ctx # None, disk' = disk, NEW c, Knows(c),
         c.identities = disk, ctx.identities # None => ctx.identities = disk,
         NEW stage, NEW m \in Modules, LeaseFails(c, stage, m)
  PROVE  CallStep
<1>1. ctx' = [c EXCEPT !.opened[m] = None] /\ UNCHANGED runtime
  BY DEF LeaseFails, Recorded, FilesStay
<1> QED BY <1>1, OpenedKnows DEF CallStep

\* A lease is given up, or nothing is done to any.
LEMMA ReleaseStep ==
  ASSUME RuntimeOK, ctx # None, disk' = disk, Knows(ctx), ctx' = ctx,
         \/ UNCHANGED runtime
         \/ \E m \in Modules : FinishLease(m) \/ UnwindLease(m)
  PROVE  CallStep
  BY DEF CallStep, FinishLease, UnwindLease, RuntimeOK

\* Entering a call changes neither what is mapped nor the digests.
LEMMA EnteredKnows ==
  ASSUME NEW c, Knows(c)
  PROVE  /\ Knows(Entered(c)) /\ Entered(c).identities = c.identities
         /\ \A r \in Requests :
              /\ Knows([Entered(c) EXCEPT !.duration = r])
              /\ [Entered(c) EXCEPT !.duration = r].identities = c.identities
<1>1. /\ Entered(c) \in Context
      /\ Entered(c).opened = c.opened /\ Entered(c).identities = c.identities
  BY DEF Knows, Entered, Context
<1>2. ASSUME NEW r \in Requests
      PROVE  /\ [Entered(c) EXCEPT !.duration = r] \in Context
             /\ [Entered(c) EXCEPT !.duration = r].opened = c.opened
             /\ [Entered(c) EXCEPT !.duration = r].identities = c.identities
  <2> DEFINE e == Entered(c)
  <2>1. e \in Context /\ e.opened = c.opened /\ e.identities = c.identities
    BY <1>1
  <2> HIDE DEF e
  <2>2. /\ [e EXCEPT !.duration = r] \in Context
        /\ [e EXCEPT !.duration = r].opened = c.opened
        /\ [e EXCEPT !.duration = r].identities = c.identities
    BY <2>1 DEF Context
  <2> QED BY <2>2 DEF e
<1> QED BY <1>1, <1>2 DEF Knows

\* A call of any stage: refused before its lease, failed in it, or entered.
LEMMA CallMix ==
  ASSUME FilesStay, EngineInv, MixInv, ctx # None, disk' = disk,
         NEW entered, Knows(entered), entered.identities = ctx.identities,
         NEW stage, NEW m \in Modules, NEW next,
         \/ EnsureFails(stage, entered)
         \/ ctx' = Ensured(entered, "ready") /\ UNCHANGED runtime
         \/ EnterLease(Ensured(entered, "ready"), m, next)
         \/ LeaseFails(Ensured(entered, "ready"), stage, m)
  PROVE  CallStep
<1> DEFINE ready == Ensured(entered, "ready")
<1>1. disk \in Components /\ RuntimeOK /\ ctx.identities \in {None, disk}
  BY EngineFacts DEF MixInv, Knows
<1>2. Knows(ready) /\ ready.identities = disk
  BY <1>1, EnsuredKnows
<1>3. CASE EnsureFails(stage, entered)
  <2>1. PICK at \in {"hash", "assets", "backend"} :
          ctx' = Ensured(entered, at) /\ UNCHANGED runtime
    BY <1>3 DEF EnsureFails
  <2> QED BY <1>1, <2>1, EnsuredKnows DEF CallStep
<1> HIDE DEF ready
<1>4. CASE ctx' = ready /\ UNCHANGED runtime
  BY <1>1, <1>2, <1>4 DEF CallStep
<1>5. CASE EnterLease(ready, m, next)
  <2>1. Lease(ready, m)
    BY <1>5 DEF EnterLease
  <2> QED BY <1>1, <1>2, <2>1, LeaseStep
<1>6. CASE LeaseFails(ready, stage, m)
  BY <1>1, <1>2, <1>6, LeaseFailsStep
<1> QED BY <1>3, <1>4, <1>5, <1>6 DEF ready

\* What holds of the context while a call is under way.
LEMMA MixFacts ==
  ASSUME EngineInv, MixInv
  PROVE  /\ RuntimeOK /\ disk \in Components
         /\ ctx # None => Knows(ctx)
         /\ pc # "idle" => ctx # None /\ ctx.identities = disk
<1>1. RuntimeOK /\ disk \in Components /\ (pc # "idle" => ctx # None)
  BY EngineFacts
<1>2. pc # "idle" => ctx.identities \in Components
  BY DEF EngineInv, CallInv
<1> QED BY <1>1, <1>2, ModelAssumption DEF MixInv, Knows

-----------------------------------------------------------------------------
(***************************************************************************)
(* The stages.                                                             *)
(***************************************************************************)
LEMMA CodesMix ==
  ASSUME FilesStay, EngineInv, MixInv, StageCodes
  PROVE  CallStep
<1> USE DEF Modules
<1>1. disk' = disk
  BY DEF StageCodes
<1>2. ASSUME NEW r \in Requests, StartCodes(r)
      PROVE  CallStep
  <2> DEFINE entered == [Entered(ctx) EXCEPT !.duration = r]
  <2>1. ctx # None /\ Knows(entered) /\ entered.identities = ctx.identities
    BY <1>2, MixFacts, EnteredKnows DEF StartCodes
  <2>2. \/ EnsureFails("CODES", entered)
        \/ EnterLease(Ensured(entered, "ready"), "ar", "ar")
        \/ LeaseFails(Ensured(entered, "ready"), "CODES", "ar")
    BY <1>2 DEF StartCodes, BeginAr
  <2> HIDE DEF entered
  <2> QED BY <1>1, <2>1, <2>2, CallMix
<1>3. CASE ResumeCodes
  <2> DEFINE entered == [Entered(ctx) EXCEPT !.duration = store["COD"].req]
  <2>1. ctx # None /\ store["COD"] \in PausedCodes
    BY <1>3, EngineFacts DEF ResumeCodes
  <2>2. Knows(entered) /\ entered.identities = ctx.identities
    BY <2>1, MixFacts, EnteredKnows DEF PausedCodes
  <2>3. \/ EnsureFails("CODES", entered)
        \/ ctx' = Ensured(entered, "ready") /\ UNCHANGED runtime
        \/ EnterLease(Ensured(entered, "ready"), "ar", "ar")
        \/ LeaseFails(Ensured(entered, "ready"), "CODES", "ar")
    BY <1>3 DEF ResumeCodes, BeginAr, RefuseBoundary
  <2> HIDE DEF entered
  <2> QED BY <1>1, <2>1, <2>2, <2>3, CallMix
<1>4. CASE BeginProjection
  <2>1. ctx # None /\ Knows(ctx) /\ ctx.identities = disk /\ RuntimeOK
    BY <1>4, MixFacts DEF BeginProjection
  <2>2. Lease(ctx, "condition") \/ LeaseFails(ctx, "CODES", "condition")
    BY <1>4 DEF BeginProjection
  <2> QED BY <1>1, <2>1, <2>2, LeaseStep, LeaseFailsStep
<1>5. CASE \/ ReplayFrame \/ SampleFrame \/ SampleEos \/ FinishAr
           \/ ProjectWindow \/ CompleteCodes \/ CodesInterrupted
  <2>1. pc # "idle" /\ ctx' = ctx
    BY <1>5 DEF ReplayFrame, SampleFrame, KeepFrame, SampleEos, FinishAr,
                ProjectWindow, CompleteCodes, Projecting, CodesInterrupted,
                PauseAr, ArFault, PauseProjection, ProjectionFault
  <2>2. \/ UNCHANGED runtime
        \/ \E m \in Modules : FinishLease(m) \/ UnwindLease(m)
    BY <1>5 DEF ReplayFrame, SampleFrame, KeepFrame, SampleEos, FinishAr,
                ProjectWindow, CompleteCodes, CodesInterrupted, LeasedFault,
                PauseAr, ArFault, PauseProjection, ProjectionFault
  <2> QED BY <1>1, <2>1, <2>2, MixFacts, ReleaseStep
<1> QED BY <1>2, <1>3, <1>4, <1>5 DEF StageCodes, CodesCall, CodesStep

LEMMA DiffuseMix ==
  ASSUME FilesStay, EngineInv, MixInv, StageDiffuse
  PROVE  CallStep
<1> USE DEF Modules
<1>1. disk' = disk
  BY DEF StageDiffuse
<1>2. ASSUME NEW b, NEW s, NEW accepted, CallDiffuse(b, s, accepted)
      PROVE  CallStep
  <2>1. ctx # None /\ Knows(Entered(ctx)) /\ Entered(ctx).identities = ctx.identities
    BY <1>2, MixFacts, EnteredKnows DEF CallDiffuse
  <2>2. \/ EnsureFails("DIFFUSE", Entered(ctx))
        \/ ctx' = Ensured(Entered(ctx), "ready") /\ UNCHANGED runtime
        \/ EnterLease(Ensured(Entered(ctx), "ready"), "flow", "flow")
        \/ LeaseFails(Ensured(Entered(ctx), "ready"), "DIFFUSE", "flow")
    BY <1>2 DEF CallDiffuse, RefuseBoundary
  <2> QED BY <1>1, <2>1, <2>2, CallMix
<1>3. CASE DiffuseCall
  BY <1>2, <1>3 DEF DiffuseCall, StartDiffuse, ResumeDiffuse
<1>4. CASE DiffuseStep \/ DiffuseInterrupted
  <2>1. pc # "idle" /\ ctx' = ctx
    BY <1>4 DEF DiffuseStep, DiffuseInterrupted, EulerStep, Denoising,
                FinishWindow, CompleteFlow, PauseFlow, FlowFault
  <2>2. \/ UNCHANGED runtime
        \/ \E m \in Modules : FinishLease(m) \/ UnwindLease(m)
    BY <1>4 DEF DiffuseStep, DiffuseInterrupted, EulerStep, FinishWindow,
                CompleteFlow, PauseFlow, FlowFault, LeasedFault
  <2> QED BY <1>1, <2>1, <2>2, MixFacts, ReleaseStep
<1> QED BY <1>3, <1>4 DEF StageDiffuse

\* The song of a completed DECODE is the one thing a call adds to a context.
LEMMA SongKnows ==
  ASSUME NEW c, Knows(c), NEW music \in Song
  PROVE  /\ Knows([c EXCEPT !.audio = music])
         /\ [c EXCEPT !.audio = music].identities = c.identities
<1>1. /\ [c EXCEPT !.audio = music] \in Context
      /\ [c EXCEPT !.audio = music].opened = c.opened
      /\ [c EXCEPT !.audio = music].identities = c.identities
  BY DEF Knows, Context
<1> QED BY <1>1 DEF Knows

LEMMA DecodeMix ==
  ASSUME FilesStay, EngineInv, MixInv, StageDecode
  PROVE  CallStep
<1> USE DEF Modules
<1>1. disk' = disk
  BY DEF StageDecode
<1>2. CASE StartDecode
  <2>1. ctx # None /\ Knows(Entered(ctx)) /\ Entered(ctx).identities = ctx.identities
    BY <1>2, MixFacts, EnteredKnows DEF StartDecode
  <2>2. \/ EnsureFails("DECODE", Entered(ctx))
        \/ ctx' = Ensured(Entered(ctx), "ready") /\ UNCHANGED runtime
        \/ EnterLease(Ensured(Entered(ctx), "ready"), "vocoder", "decode")
        \/ LeaseFails(Ensured(Entered(ctx), "ready"), "DECODE", "vocoder")
    BY <1>2 DEF StartDecode, RefuseBoundary
  <2> QED BY <1>1, <2>1, <2>2, CallMix
<1>3. CASE DecodeWindow \/ DecodeInterrupted
  <2>1. pc # "idle" /\ ctx' = ctx
    BY <1>3 DEF DecodeWindow, DecodeInterrupted, Decoding, PauseDecode, DecodeFault
  <2>2. \/ UNCHANGED runtime
        \/ \E m \in Modules : FinishLease(m) \/ UnwindLease(m)
    BY <1>3 DEF DecodeWindow, DecodeInterrupted, PauseDecode, DecodeFault,
                LeasedFault
  <2> QED BY <1>1, <2>1, <2>2, MixFacts, ReleaseStep
<1>4. CASE CompleteDecode
  <2> DEFINE music == [req |-> decode.input.source.req, pieces |-> decode.pieces]
  <2>1. pc # "idle" /\ FinishLease("vocoder")
        /\ ctx' \in {ctx, [ctx EXCEPT !.audio = music]}
    BY <1>4 DEF CompleteDecode
  <2>2. ctx # None /\ Knows(ctx) /\ RuntimeOK
    BY <2>1, MixFacts
  <2>3. music \in Song
    <3>1. decode.pieces \in Seq(Piece) /\ decode.input.source \in CompletedCodes
      BY <1>4, DecodeFacts DEF CompleteDecode
    <3>2. \A b \in CompletedCodes : b.req \in Requests
      BY DEF CompletedCodes
    <3>3. decode.input.source.req \in Requests
      BY <3>1, <3>2
    <3> QED BY <3>1, <3>3 DEF Song
  <2> HIDE DEF music
  <2>4. Knows(ctx') /\ ctx'.identities = ctx.identities
    BY <2>1, <2>2, <2>3, SongKnows
  <2> QED BY <1>1, <2>1, <2>2, <2>4 DEF CallStep, FinishLease, RuntimeOK
<1> QED BY <1>2, <1>3, <1>4 DEF StageDecode, DecodeStep

-----------------------------------------------------------------------------
(***************************************************************************)
(* The host.  A new context knows nothing; a lost one takes its runtimes   *)
(* with it; and files are only replaced when there is none.                *)
(***************************************************************************)
LEMMA FreshKnows ==
  ASSUME NEW keep \in BOOLEAN
  PROVE  Knows(FreshContext(keep))
<1>1. FreshContext(keep) \in Context
  BY FreshTyped
<1> QED BY <1>1 DEF Knows, FreshContext, Absent

LEMMA HostMix ==
  ASSUME FilesStay, EngineInv, MixInv,
         \/ RejectedInput \/ Load \/ Free \/ Crash \/ ReplaceFiles
  PROVE  MixInv'
<1>1. CASE RejectedInput
  <2>1. /\ ctx # None /\ ctx' = Entered(ctx) /\ UNCHANGED <<disk, runtime>>
        /\ disk \in Components
    BY <1>1, MixFacts DEF RejectedInput
  <2>2. Knows(ctx') /\ ctx'.identities = ctx.identities
    BY <2>1, MixFacts, EnteredKnows
  <2>3. CallStep
    BY <2>1, <2>2 DEF CallStep
  <2> QED BY <2>1, <2>3, CallStepInv, ModelAssumption
<1>2. CASE Load
  <2>1. PICK keep \in KeepOptions : ctx' = FreshContext(keep)
    BY <1>2 DEF Load
  <2>2. Knows(ctx') /\ disk' = disk
    BY <1>2, <2>1, FreshKnows, OptionsAssumption DEF Load
  <2>3. \A m \in Modules : runtime'[m] = None
    BY <1>2 DEF Load, EngineInv, ResidencyInv
  <2> QED BY <2>2, <2>3 DEF MixInv, Knows
<1>3. CASE Free \/ Crash
  <2>1. ctx' = None /\ \A m \in Modules : runtime'[m] = None
    BY <1>3 DEF Free, Crash, Absent
  <2> QED BY <2>1 DEF MixInv
<1>4. CASE ReplaceFiles
  <2>1. ctx' = None /\ \A m \in Modules : runtime'[m] = None
    BY <1>4 DEF ReplaceFiles, FilesStay, EngineInv, ResidencyInv
  <2> QED BY <2>1 DEF MixInv
<1> QED BY <1>1, <1>2, <1>3, <1>4

-----------------------------------------------------------------------------
LEMMA MixInit ==
  ASSUME Init
  PROVE  MixInv
  BY DEF Init, MixInv, Absent

LEMMA MixNext ==
  ASSUME FilesStay, EngineInv, MixInv, [Next]_vars
  PROVE  MixInv'
<1>1. CASE StageCodes \/ StageDiffuse \/ StageDecode
  <2>1. CallStep /\ disk \in Components
    BY <1>1, CodesMix, DiffuseMix, DecodeMix, MixFacts
  <2> QED BY <2>1, CallStepInv, ModelAssumption
<1>2. CASE UNCHANGED vars
  BY <1>2 DEF vars, MixInv, Knows
<1> QED BY <1>1, <1>2, HostMix DEF Next, InvalidArguments

(***************************************************************************)
(* As long as nobody replaces files under a live context, every runtime    *)
(* holds the weights whose digests the context stamps into its boundaries, *)
(* however many calls, faults, cancellations and restarts lie between the  *)
(* hashing and the loading.                                                *)
(***************************************************************************)
THEOREM WeightsMatch ==
  ASSUME FilesStay
  PROVE  Spec => []WeightsMatchDigests
<1>1. Init => MixInv
  BY MixInit
<1>2. EngineInv /\ MixInv /\ [Next]_vars => MixInv'
  BY MixNext
<1>3. MixInv => WeightsMatchDigests
  BY DEF MixInv, WeightsMatchDigests
<1> QED BY <1>1, <1>2, <1>3, Inductive, PTL DEF Spec

-----------------------------------------------------------------------------
(***************************************************************************)
(* What it is for a boundary to be exact: its values are those an          *)
(* uninterrupted run of its own mix has at its cursor.                     *)
(***************************************************************************)
ExactCodes(b) ==
  /\ b.first = Target[b.req]
  /\ b.second = Len(b.codes)
  /\ Len(b.codes) <= RefLength(b.comps, b.req)
  /\ b.codes = RefCodes(b.comps, b.req, Len(b.codes))

ExactConditions(b) ==
  /\ b.first = RefGenerated(b.comps, b.req)
  /\ b.first # 0
  /\ b.second = WindowsIn(b.comps, b.req)
  /\ b.conditions = RefConditions(b.comps, b.req)

ExactSource(b) == ExactConditions(b.source) /\ b.source.comps = b.comps

ExactFlow(b) ==
  /\ ExactSource(b)
  /\ b.first < WindowsIn(b.comps, b.source.req)
  /\ b.second < EulerSteps[b.source.req]
  /\ b.completed = RefLatents(b.comps, b.source.req, b.first)
  /\ b.active = RefEuler(b.comps, b.source.req, b.first + 1, b.second)
  /\ b.carry = CarryAfter(b.comps, b.source.req, b.first)

ExactLatents(b) ==
  /\ ExactSource(b)
  /\ b.first = WindowsIn(b.comps, b.source.req)
  /\ b.second = 0
  /\ b.completed = RefLatents(b.comps, b.source.req, b.first)

Exact(b) ==
  /\ b.kind = "COD" => ExactCodes(b)
  /\ b.kind = "CON" => ExactConditions(b)
  /\ b.kind = "FLW" => ExactFlow(b)
  /\ b.kind = "LAT" => ExactLatents(b)

StoreExact == \A k \in Kinds : store[k] # None => Exact(store[k])

(***************************************************************************)
(* The same for the locals of a call in progress, with the mix on disk.    *)
(* While the AR loop runs, the position of its next random draw and what   *)
(* its cache holds are those of the frame it is at, and the codes it       *)
(* replays are the reference's.                                            *)
(***************************************************************************)
LoopExact(a) ==
  /\ Len(a.codes) <= Target[a.req]
  /\ a.draw = Codebooks * Len(a.codes)
  /\ a.cached = Len(a.codes)
  /\ Len(a.replay) <= RefLength(disk, a.req)
  /\ a.replay = RefCodes(disk, a.req, Len(a.replay))

MadeExact(a) ==
  /\ Len(a.codes) <= RefLength(disk, a.req)
  /\ a.codes = RefCodes(disk, a.req, Len(a.codes))
  /\ a.hiddens = MadeOf(disk, a.req, Len(a.codes))

ConditionsTo(c, r, k) == [i \in 1 .. k |-> RefConditions(c, r)[i]]

ProjectedExact(a) ==
  /\ Len(a.conditions) <= WindowsIn(disk, a.req)
  /\ a.conditions = ConditionsTo(disk, a.req, Len(a.conditions))

ArExact ==
  /\ MadeExact(ar)
  /\ pc = "ar" => LoopExact(ar)
  /\ pc # "ar" => Len(ar.codes) = RefLength(disk, ar.req)
  /\ IF pc = "project" THEN ProjectedExact(ar) ELSE ar.conditions = <<>>

FlowExact(f) ==
  LET r == f.source.req
      w == Len(f.completed)
  IN  /\ ExactConditions(f.source) /\ f.source.comps = disk
      /\ w < WindowsIn(disk, r)
      /\ f.step <= EulerSteps[r]
      /\ f.completed = RefLatents(disk, r, w)
      /\ f.latent = RefEuler(disk, r, w + 1, f.step)
      /\ f.carry = CarryAfter(disk, r, w)

DecodeExact(d) ==
  LET r == d.input.source.req
      p == Len(d.pieces)
  IN  /\ ExactLatents(d.input) /\ d.input.comps = disk
      /\ p <= WindowsIn(disk, r)
      /\ d.pieces = PiecesOf(disk, r, p)

CallExact ==
  /\ pc \in {"ar", "arDone", "project"} => ArExact
  /\ pc = "flow" => FlowExact(flow)
  /\ pc = "decode" => DecodeExact(decode)

ExactInv == StoreExact /\ CallExact /\ SongExact

\* What is known of a state and of the next when a step is examined.
Before == FilesStay /\ EngineInv /\ MixInv /\ AudioInv /\ ExactInv
After == EngineInv' /\ MixInv' /\ disk' = disk

-----------------------------------------------------------------------------
(***************************************************************************)
(* Calls that return.                                                      *)
(***************************************************************************)
LEMMA ReturnExact ==
  ASSUME StoreOK, StoreExact, NEW stage, NEW status, NEW error, NEW out,
         out # None => Exact(out), Return(stage, status, error, out)
  PROVE  StoreExact' /\ pc' = "idle"
  BY DEF Return, StoreExact, StoreOK

LEMMA EmitExact ==
  ASSUME StoreOK, StoreExact, NEW stage, NEW status, NEW error, NEW out,
         Exact(out), Emit(stage, status, error, out)
  PROVE  StoreExact' /\ pc' = "idle"
  BY ReturnExact DEF Emit, Fail

\* An idle engine has no locals to be exact about.
LEMMA IdleExact ==
  ASSUME StoreExact', pc' = "idle"
  PROVE  StoreExact' /\ CallExact'
  BY DEF CallExact

\* A call that fails stores nothing.
LEMMA FailExact ==
  ASSUME StoreOK, StoreExact, NEW stage, NEW error, Fail(stage, error)
  PROVE  StoreExact' /\ pc' = "idle"
  BY ReturnExact DEF Fail

\* Nor does one that is refused.
LEMMA RefusedExact ==
  ASSUME StoreOK, StoreExact, NEW stage, NEW c, NEW m, NEW same,
         \/ EnsureFails(stage, c) \/ RefuseBoundary(stage, same)
         \/ LeaseFails(c, stage, m) \/ LeasedFault(stage, m)
  PROVE  StoreExact' /\ CallExact'
<1>1. StoreExact' /\ pc' = "idle"
  BY FailExact DEF EnsureFails, RefuseBoundary, LeaseFails, LeasedFault
<1> QED BY <1>1, IdleExact

\* What an exact boundary in the store is.
LEMMA StoredExact ==
  ASSUME StoreOK, StoreExact
  PROVE  /\ store["COD"] # None => ExactCodes(store["COD"])
         /\ store["CON"] # None => ExactConditions(store["CON"])
         /\ store["FLW"] # None => ExactFlow(store["FLW"])
         /\ store["LAT"] # None => ExactLatents(store["LAT"])
  BY DEF StoreOK, StoreExact, Exact, Kinds

\* While a call is in progress its context and its runtime are those of the disk.
LEMMA OnDisk ==
  ASSUME EngineInv, MixInv, pc # "idle"
  PROVE  /\ ctx.identities = disk /\ disk \in Components
         /\ \A m \in Modules : runtime[m] \in Components => runtime[m] = disk
<1>1. ctx.identities = disk /\ disk \in Components
  BY MixFacts
<1> QED BY <1>1, ModelAssumption DEF MixInv
-----------------------------------------------------------------------------
(***************************************************************************)
(* CODES.                                                                  *)
(***************************************************************************)
LEMMA BeginArExact ==
  ASSUME Before, After, NEW r \in Requests, NEW c, NEW replay \in Seq(CodeFrame),
         Len(replay) <= RefLength(disk, r),
         replay = RefCodes(disk, r, Len(replay)), BeginAr(c, r, replay)
  PROVE  StoreExact' /\ CallExact'
<1>1. StoreOK /\ StoreExact /\ disk' = disk /\ disk \in Components
  BY EngineFacts DEF Before, After, ExactInv
<1>2. CASE EnterLease(c, "ar", "ar") /\ ar' = ArStart(r, replay)
  <2>1. /\ ar'.req = r /\ ar'.replay = replay
        /\ ar'.codes = <<>> /\ ar'.hiddens = <<>> /\ ar'.conditions = <<>>
        /\ ar'.draw = 0 /\ ar'.cached = 0
    BY <1>2 DEF ArStart
  <2>2. pc' = "ar" /\ store' = store
    BY <1>2 DEF EnterLease
  <2>3. RefLength(disk, r) \in Nat /\ Target[r] \in Nat
    BY <1>1, AllFrames
  <2>4. RefCodes(disk, r, 0) = <<>> /\ MadeOf(disk, r, 0) = <<>>
    BY DEF RefCodes, MadeOf, Greatest
  <2>5. MadeExact(ar)'
    BY <1>1, <2>1, <2>3, <2>4 DEF MadeExact
  <2>6. LoopExact(ar)'
    BY <1>1, <2>1, <2>3 DEF LoopExact, Codebooks
  <2>7. ArExact'
    BY <2>1, <2>2, <2>5, <2>6 DEF ArExact
  <2> QED BY <1>1, <2>2, <2>7 DEF CallExact, StoreExact
<1>3. CASE LeaseFails(c, "CODES", "ar")
  BY <1>1, <1>3, RefusedExact
<1> QED BY <1>2, <1>3 DEF BeginAr

\* A context that is ensured has the digests of the disk.
LEMMA ReadyOnDisk ==
  ASSUME Before, ctx # None, NEW r \in Requests
  PROVE  /\ Ensured(Entered(ctx), "ready").identities = disk
         /\ Ensured([Entered(ctx) EXCEPT !.duration = r], "ready").identities = disk
<1>1. FilesStay /\ disk \in Components /\ Knows(ctx)
  BY MixFacts DEF Before
<1> QED BY <1>1, EnteredKnows, EnsuredKnows

LEMMA CodesCallExact ==
  ASSUME Before, After, CodesCall
  PROVE  StoreExact' /\ CallExact'
<1>1. StoreOK /\ StoreExact /\ disk \in Components
  BY EngineFacts DEF Before, ExactInv
<1>2. ASSUME NEW r \in Requests, StartCodes(r)
      PROVE  StoreExact' /\ CallExact'
  <2> DEFINE entered == [Entered(ctx) EXCEPT !.duration = r]
  <2>1. CASE EnsureFails("CODES", entered)
    BY <1>1, <2>1, RefusedExact
  <2>2. CASE BeginAr(Ensured(entered, "ready"), r, <<>>)
    <3>1. RefCodes(disk, r, 0) = <<>> /\ <<>> \in Seq(CodeFrame) /\ Len(<<>>) = 0
      BY DEF RefCodes
    <3>2. 0 <= RefLength(disk, r)
      BY <1>1, AllFrames
    <3> QED BY <2>2, <3>1, <3>2, BeginArExact
  <2> QED BY <1>2, <2>1, <2>2 DEF StartCodes
<1>3. CASE ResumeCodes
  <2> DEFINE b == store["COD"]
             entered == [Entered(ctx) EXCEPT !.duration = b.req]
             ready == Ensured(entered, "ready")
  <2>1. ctx # None /\ b # None
    BY <1>3 DEF ResumeCodes
  <2>2. b \in PausedCodes /\ ExactCodes(b)
    BY <1>1, <2>1, StoredExact, EngineFacts DEF Before
  <2>3. b.req \in Requests /\ b.codes \in Seq(CodeFrame)
    BY <2>2 DEF PausedCodes
  <2>4. ready.identities = disk
    BY <2>1, <2>3, ReadyOnDisk
  <2>5. CASE EnsureFails("CODES", entered)
    BY <1>1, <2>5, RefusedExact
  <2>6. ASSUME NEW same, RefuseBoundary("CODES", same)
        PROVE  StoreExact' /\ CallExact'
    BY <1>1, <2>6, RefusedExact
  <2>7. CASE b.comps = ready.identities /\ BeginAr(ready, b.req, b.codes)
    <3>1. /\ Len(b.codes) <= RefLength(disk, b.req)
          /\ b.codes = RefCodes(disk, b.req, Len(b.codes))
      BY <2>2, <2>4, <2>7 DEF ExactCodes
    <3> HIDE DEF b, entered
    <3> QED BY <2>3, <2>7, <3>1, BeginArExact
  <2> QED BY <1>3, <2>5, <2>6, <2>7 DEF ResumeCodes
<1> QED BY <1>2, <1>3 DEF CodesCall

\* The locals of CODES while it is in progress.
LEMMA ArFacts ==
  ASSUME EngineInv, pc \in {"ar", "arDone", "project"}
  PROVE  /\ ar \in ArState /\ ar.req \in Requests
         /\ ar.codes \in Seq(CodeFrame) /\ ar.hiddens \in Seq(Hidden)
         /\ ar.replay \in Seq(CodeFrame) /\ ar.conditions \in Seq(Condition)
         /\ Len(ar.codes) \in Nat /\ Len(ar.replay) \in Nat
<1>1. ar \in ArState
  BY DEF EngineInv, CallInv
<1> QED BY <1>1 DEF ArState

\* Keeping the reference's next frame, where there is one.
LEMMA KeepFrameExact ==
  ASSUME Before, After, pc = "ar", NEW frame,
         frame = RefFrame(disk, ar.req, Len(ar.codes)),
         Len(ar.codes) < RefLength(disk, ar.req), KeepFrame(frame)
  PROVE  StoreExact' /\ CallExact'
<1> DEFINE r == ar.req
           n == Len(ar.codes)
<1>1. /\ ar \in ArState /\ r \in Requests /\ n \in Nat
      /\ disk \in Components /\ disk' = disk
      /\ runtime["ar"] = disk
  BY ArFacts, OnDisk DEF Before, After, EngineInv, ResidencyInv, Leased, Modules
<1>2. /\ MadeExact(ar) /\ LoopExact(ar) /\ ar.conditions = <<>> /\ StoreExact
  BY DEF Before, ExactInv, CallExact, ArExact
<1>3. /\ n \in Nat /\ Target[r] \in Nat /\ EosFrame[disk][r] \in Nat
      /\ RefLength(disk, r) \in Nat
  BY <1>1, AllFrames
<1>4. /\ ar'.req = r /\ ar'.replay = ar.replay /\ ar'.conditions = <<>>
      /\ ar'.codes = Append(ar.codes, frame)
      /\ ar'.hiddens = IF n > 0 THEN Append(ar.hiddens, HiddenOf(disk, ar.cached, frame))
                                ELSE ar.hiddens
      /\ ar'.draw = ar.draw + Codebooks
      /\ ar'.cached = IF n = Target[r] THEN ar.cached ELSE ar.cached + 1
  BY <1>1, <1>2 DEF KeepFrame, ArState, ArFrame, AtLastFrame, DrawsPerFrame
<1>5. /\ ar.codes = RefCodes(disk, r, n) /\ ar.hiddens = MadeOf(disk, r, n)
      /\ n <= Target[r] /\ ar.draw = Codebooks * n /\ ar.cached = n
  BY <1>2 DEF MadeExact, LoopExact
<1>6. ar'.codes = RefCodes(disk, r, n + 1) /\ Len(ar'.codes) = n + 1
  <2>1. ar'.codes = Append(RefCodes(disk, r, n), RefFrame(disk, r, n))
    BY <1>4, <1>5
  <2> HIDE DEF n, r
  <2> QED BY <1>3, <2>1, OneMoreCode
<1>7. ar'.hiddens = MadeOf(disk, r, n + 1)
  <2>1. ar'.hiddens = IF n > 0
                      THEN Append(MadeOf(disk, r, n),
                                  HiddenOf(disk, n, RefFrame(disk, r, n)))
                      ELSE MadeOf(disk, r, n)
    BY <1>4, <1>5
  <2> HIDE DEF n, r
  <2> QED BY <1>3, <2>1, OneMoreHidden
<1>8. MadeExact(ar)'
  BY <1>1, <1>3, <1>4, <1>6, <1>7 DEF MadeExact
<1>9. CASE n = Target[r]
  <2>1. pc' = "arDone" /\ store' = store
    BY <1>9 DEF KeepFrame, AtLastFrame, ArFrame
  <2>2. n + 1 = RefLength(disk, r)
    BY <1>3, <1>9 DEF RefLength, Least
  <2>3. ArExact'
    BY <1>1, <1>4, <1>6, <1>8, <2>1, <2>2 DEF ArExact
  <2> QED BY <1>2, <2>1, <2>3 DEF CallExact, StoreExact
<1>10. CASE n # Target[r]
  <2>1. pc' = "ar" /\ store' = store
    BY <1>10 DEF KeepFrame, AtLastFrame, ArFrame
  <2>2. /\ n + 1 <= Target[r] /\ ar'.draw = Codebooks * (n + 1)
        /\ ar'.cached = n + 1
    BY <1>3, <1>4, <1>5, <1>10 DEF Codebooks
  <2>3. LoopExact(ar)'
    BY <1>1, <1>2, <1>4, <1>6, <2>2 DEF LoopExact
  <2>4. ArExact'
    BY <1>4, <1>8, <2>1, <2>3 DEF ArExact
  <2> QED BY <1>2, <2>1, <2>4 DEF CallExact, StoreExact
<1> QED BY <1>9, <1>10

\* One more projected window.
LEMMA OneMoreCondition ==
  ASSUME NEW c, NEW r, NEW k \in Nat
  PROVE  /\ Len(ConditionsTo(c, r, k)) = k
         /\ Append(ConditionsTo(c, r, k), RefConditions(c, r)[k + 1])
              = ConditionsTo(c, r, k + 1)
  BY DEF ConditionsTo

\* When the loop is over its hidden states are the reference's.
LEMMA AllMade ==
  ASSUME Before, pc \in {"arDone", "project"}
  PROVE  /\ ar.hiddens = RefHiddens(disk, ar.req)
         /\ Len(ar.hiddens) = RefGenerated(disk, ar.req)
         /\ disk \in Components /\ ar.req \in Requests
<1>1. ar.req \in Requests /\ disk \in Components
  BY ArFacts, EngineFacts DEF Before
<1>2. ar.hiddens = MadeOf(disk, ar.req, RefLength(disk, ar.req))
  BY DEF Before, ExactInv, CallExact, ArExact, MadeExact
<1> QED BY <1>1, <1>2, AllFrames

\* While windows are projected there is at least one to project.
LEMMA SomeMade ==
  ASSUME Before, pc = "project"
  PROVE  RefGenerated(disk, ar.req) \in Nat \ {0} /\ WindowsIn(disk, ar.req) \in Nat \ {0}
<1>1. RefGenerated(disk, ar.req) # 0
  BY AllMade DEF Before, EngineInv, CallInv
<1>2. RefGenerated(disk, ar.req) \in Nat
  BY AllMade, AllFrames
<1> QED BY <1>1, <1>2, WindowsInside DEF WindowsIn

\* A paused boundary of either loop holds the codes made so far.
LEMMA PausedCodesExact ==
  ASSUME Before, pc \in {"ar", "arDone", "project"}
  PROVE  Exact(PausedCodesBoundary)
<1>1. ctx.identities = disk /\ MadeExact(ar)
  BY OnDisk DEF Before, ExactInv, CallExact, ArExact
<1> QED BY <1>1 DEF Exact, ExactCodes, PausedCodesBoundary, MadeExact

LEMMA CodesStepExact ==
  ASSUME Before, After, CodesStep
  PROVE  StoreExact' /\ CallExact'
<1>0. StoreOK /\ StoreExact /\ disk \in Components /\ disk' = disk
  BY EngineFacts DEF Before, After, ExactInv
<1>1. CASE ReplayFrame
  <2> DEFINE n == Len(ar.codes)
             m == Len(ar.replay)
  <2>1. /\ pc = "ar" /\ n < m /\ KeepFrame(ar.replay[n + 1])
        /\ n \in Nat /\ m \in Nat /\ ar.req \in Requests
    BY <1>1, ArFacts DEF ReplayFrame, Replaying, ArFrame, Before
  <2>2. m <= RefLength(disk, ar.req) /\ ar.replay = RefCodes(disk, ar.req, m)
    BY <2>1 DEF Before, ExactInv, CallExact, ArExact, LoopExact
  <2>3. ar.replay[n + 1] = RefFrame(disk, ar.req, n)
    <3> HIDE DEF n, m
    <3> QED BY <2>1, <2>2 DEF RefCodes
  <2>4. n < RefLength(disk, ar.req)
    BY <1>0, <2>1, <2>2, AllFrames
  <2> HIDE DEF m
  <2> QED BY <2>1, <2>3, <2>4, KeepFrameExact
<1>2. CASE SampleFrame
  <2> DEFINE n == Len(ar.codes)
  <2>1. /\ pc = "ar" /\ n \in Nat /\ ar.req \in Requests /\ runtime["ar"] = disk
    BY <1>2, ArFacts, OnDisk
       DEF SampleFrame, Before, EngineInv, ResidencyInv, Leased, Modules
  <2>2. /\ n # EosFrame[disk][ar.req]
        /\ KeepFrame(SampledFrame(disk, ar.req, ar.draw, ar.cached))
    BY <1>2, <2>1 DEF SampleFrame, AtEos, ArFrame
  <2>3. /\ n <= Target[ar.req] /\ n <= RefLength(disk, ar.req)
        /\ ar.draw = Codebooks * n /\ ar.cached = n
    BY <2>1 DEF Before, ExactInv, CallExact, ArExact, LoopExact, MadeExact
  <2>4. SampledFrame(disk, ar.req, ar.draw, ar.cached) = RefFrame(disk, ar.req, n)
    BY <2>3 DEF RefFrame
  <2>5. n < RefLength(disk, ar.req)
    <3>1. Target[ar.req] \in Nat /\ EosFrame[disk][ar.req] \in Nat
      BY <1>0, <2>1, AllFrames
    <3> HIDE DEF n
    <3> QED BY <2>1, <2>2, <2>3, <3>1 DEF RefLength, Least
  <2> QED BY <2>1, <2>2, <2>4, <2>5, KeepFrameExact
<1>3. CASE SampleEos
  <2> DEFINE n == Len(ar.codes)
  <2>1. /\ pc = "ar" /\ n \in Nat /\ ar.req \in Requests /\ runtime["ar"] = disk
    BY <1>3, ArFacts, OnDisk
       DEF SampleEos, Before, EngineInv, ResidencyInv, Leased, Modules
  <2>2. n = EosFrame[disk][ar.req] /\ pc' = "arDone" /\ UNCHANGED <<store, ar>>
    BY <1>3, <2>1 DEF SampleEos, AtEos, ArFrame
  <2>3. /\ MadeExact(ar) /\ n <= Target[ar.req] /\ ar.conditions = <<>>
    BY <2>1 DEF Before, ExactInv, CallExact, ArExact, LoopExact
  <2>4. n = RefLength(disk, ar.req)
    <3>1. Target[ar.req] \in Nat
      BY <1>0, <2>1, AllFrames
    <3> HIDE DEF n
    <3> QED BY <2>1, <2>2, <2>3, <3>1 DEF RefLength, Least
  <2>5. ArExact'
    BY <1>0, <2>2, <2>3, <2>4 DEF ArExact, MadeExact
  <2> QED BY <1>0, <2>2, <2>5 DEF CallExact, StoreExact
<1>4. CASE FinishAr
  <2>1. pc = "arDone"
    BY <1>4 DEF FinishAr
  <2>2. CASE Fail("CODES", "OTHER")
    BY <1>0, <2>2, FailExact, IdleExact
  <2>3. CASE pc' = "project" /\ UNCHANGED <<ret, store, ar>>
    <3>1. /\ MadeExact(ar) /\ ar.conditions = <<>>
          /\ Len(ar.codes) = RefLength(disk, ar.req)
      BY <2>1 DEF Before, ExactInv, CallExact, ArExact
    <3>2. WindowsIn(disk, ar.req) \in Nat
      <4>1. RefGenerated(disk, ar.req) \in Nat \ {0}
        <5>1. Len(ar.hiddens) # 0
          BY <2>3 DEF After, EngineInv, CallInv
        <5> QED BY <2>1, <5>1, AllMade, AllFrames
      <4> QED BY <4>1, WindowsInside DEF WindowsIn
    <3>3. ProjectedExact(ar)
      BY <3>1, <3>2 DEF ProjectedExact, ConditionsTo
    <3>4. ArExact'
      BY <1>0, <2>3, <3>1, <3>3 DEF ArExact, MadeExact, ProjectedExact
    <3> QED BY <1>0, <2>3, <3>4 DEF CallExact, StoreExact
  <2> QED BY <1>4, <2>2, <2>3 DEF FinishAr
<1>5. CASE BeginProjection
  <2>1. CASE UNCHANGED <<pc, ret, store, ar>>
    <3>1. pc = "project" /\ ArExact
      BY <1>5 DEF BeginProjection, Before, ExactInv, CallExact
    <3>2. ArExact'
      BY <1>0, <2>1, <3>1 DEF ArExact, MadeExact, ProjectedExact
    <3> QED BY <1>0, <2>1, <3>1, <3>2 DEF CallExact, StoreExact
  <2>2. CASE LeaseFails(ctx, "CODES", "condition")
    BY <1>0, <2>2, RefusedExact
  <2> QED BY <1>5, <2>1, <2>2 DEF BeginProjection
<1>6. CASE ProjectWindow
  <2> DEFINE r == ar.req
             k == Len(ar.conditions)
  <2>1. pc = "project" /\ k \in Nat /\ r \in Requests /\ ar \in ArState
    BY <1>6, ArFacts DEF ProjectWindow, Projecting, Before
  <2>2. /\ ar.hiddens = RefHiddens(disk, r) /\ Generated = RefGenerated(disk, r)
        /\ WindowsIn(disk, r) \in Nat \ {0} /\ RefGenerated(disk, r) \in Nat \ {0}
    BY <2>1, AllMade, SomeMade DEF Generated
  <2>3. runtime["condition"] = disk
    <3>1. runtime["condition"] \in Components
      BY <1>6, <2>1 DEF ProjectWindow, Projecting, Before, EngineInv, ResidencyInv, Leased
    <3> QED BY <2>1, <3>1, OnDisk DEF Modules, Before
  <2>4. MadeExact(ar) /\ Len(ar.codes) = RefLength(disk, r) /\ ar.conditions = ConditionsTo(disk, r, k)
    BY <2>1 DEF Before, ExactInv, CallExact, ArExact, ProjectedExact
  <2>5. k + 1 \in 1 .. WindowsIn(disk, r)
    BY <1>6, <2>1, <2>2 DEF ProjectWindow, WindowsIn
  <2> DEFINE window == Projected(disk, RefHiddens(disk, r), WindowStart(k + 1),
                                 FramesOf(RefGenerated(disk, r), k + 1))
  <2>6. window = RefConditions(disk, r)[k + 1]
    <3> HIDE DEF k, r
    <3> QED BY <2>2, <2>5, ConditionAt
  <2>7. ar' = [ar EXCEPT !.conditions = Append(ar.conditions, window)]
    BY <1>6, <2>2, <2>3 DEF ProjectWindow
  <2> HIDE DEF window
  <2>8. /\ ar'.req = r /\ ar'.codes = ar.codes /\ ar'.hiddens = ar.hiddens
        /\ ar'.conditions = Append(ar.conditions, window)
    BY <2>1, <2>7 DEF ArState
  <2>9. ar'.conditions = ConditionsTo(disk, r, k + 1) /\ Len(ar'.conditions) = k + 1
    <3>1. ar'.conditions = Append(ConditionsTo(disk, r, k), RefConditions(disk, r)[k + 1])
      BY <2>4, <2>6, <2>8
    <3> HIDE DEF k, r
    <3> QED BY <2>1, <3>1, OneMoreCondition
  <2>10. pc' = "project" /\ store' = store
    BY <1>6, <2>1 DEF ProjectWindow
  <2>11. ProjectedExact(ar)' /\ MadeExact(ar)'
    <3> HIDE DEF k
    <3> QED BY <1>0, <2>4, <2>5, <2>8, <2>9 DEF ProjectedExact, MadeExact
  <2>12. ArExact'
    BY <1>0, <2>4, <2>8, <2>10, <2>11 DEF ArExact
  <2> QED BY <1>0, <2>10, <2>12 DEF CallExact, StoreExact
<1>7. CASE CompleteCodes
  <2> DEFINE r == ar.req
             k == Len(ar.conditions)
  <2>1. pc = "project" /\ ctx.identities = disk /\ k = WindowCount(Generated)
    BY <1>7, OnDisk DEF CompleteCodes, Projecting, Before
  <2>2. Generated = RefGenerated(disk, r) /\ RefGenerated(disk, r) # 0
    BY <2>1, AllMade, SomeMade DEF Generated
  <2>3. k = WindowsIn(disk, r)
    BY <2>1, <2>2 DEF WindowsIn
  <2>4. ar.conditions = ConditionsTo(disk, r, k)
    BY <2>1 DEF Before, ExactInv, CallExact, ArExact, ProjectedExact
  <2>5. ar.conditions = RefConditions(disk, r)
    <3>1. ConditionsTo(disk, r, WindowsIn(disk, r)) = RefConditions(disk, r)
      BY DEF ConditionsTo, RefConditions, WindowsIn
    <3> QED BY <2>3, <2>4, <3>1
  <2>6. Exact(CompletedCodesBoundary)
    BY <2>1, <2>2, <2>3, <2>5 DEF Exact, ExactConditions, CompletedCodesBoundary
  <2> QED BY <1>0, <1>7, <2>6, EmitExact, IdleExact DEF CompleteCodes
<1> QED BY <1>1, <1>2, <1>3, <1>4, <1>5, <1>6, <1>7 DEF CodesStep

LEMMA CodesInterruptedExact ==
  ASSUME Before, After, CodesInterrupted
  PROVE  StoreExact' /\ CallExact'
<1>1. StoreOK /\ StoreExact
  BY EngineFacts DEF Before, ExactInv
<1>2. CASE PauseAr \/ PauseProjection
  <2>1. /\ pc \in {"ar", "project"}
        /\ Emit("CODES", "PAUSED", "CANCEL", PausedCodesBoundary)
    BY <1>2 DEF PauseAr, PauseProjection, Projecting
  <2> QED BY <1>1, <2>1, PausedCodesExact, EmitExact, IdleExact
<1>3. CASE ArFault \/ ProjectionFault
  BY <1>1, <1>3, RefusedExact DEF ArFault, ProjectionFault
<1> QED BY <1>2, <1>3 DEF CodesInterrupted
-----------------------------------------------------------------------------
(***************************************************************************)
(* DIFFUSE.  What denoise_chunk prepares for a window is what it would be  *)
(* in an uninterrupted run, whoever computed the windows before.           *)
(***************************************************************************)

\* The condition windows of an exact source.
LEMMA SourceFacts ==
  ASSUME NEW b \in CompletedCodes, ExactConditions(b)
  PROVE  /\ b.comps \in Components /\ b.req \in Requests
         /\ RefGenerated(b.comps, b.req) \in Nat \ {0}
         /\ WindowsIn(b.comps, b.req) \in Nat \ {0}
         /\ Len(b.conditions) = WindowsIn(b.comps, b.req)
         /\ \A w \in 1 .. WindowsIn(b.comps, b.req) :
              b.conditions[w].frames = FramesOf(RefGenerated(b.comps, b.req), w)
<1>1. b.comps \in Components /\ b.req \in Requests
  BY DEF CompletedCodes
<1>2. RefGenerated(b.comps, b.req) \in Nat \ {0}
  BY <1>1, AllFrames DEF ExactConditions
<1>3. WindowsIn(b.comps, b.req) \in Nat \ {0}
  BY <1>2, WindowsInside DEF WindowsIn
<1>4. Len(RefConditions(b.comps, b.req)) = WindowsIn(b.comps, b.req)
  BY <1>3 DEF RefConditions, WindowsIn
<1>5. b.conditions = RefConditions(b.comps, b.req)
  BY DEF ExactConditions
<1> QED BY <1>1, <1>2, <1>3, <1>4, <1>5, ConditionAt

LEMMA InputsExact ==
  ASSUME NEW b \in CompletedCodes, ExactConditions(b), NEW w \in Nat,
         w < WindowsIn(b.comps, b.req), NEW completed, Len(completed) = w,
         NEW carry, carry = CarryAfter(b.comps, b.req, w)
  PROVE  /\ InputsFor(b.comps, b, completed, carry) = RefInputs(b.comps, b.req, w + 1)
         /\ RefInputs(b.comps, b.req, w + 1).prompt = carry
<1> DEFINE c == b.comps
           r == b.req
<1>1. /\ RefGenerated(c, r) \in Nat \ {0} /\ WindowsIn(c, r) \in Nat
      /\ b.conditions = RefConditions(c, r)
  BY SourceFacts DEF ExactConditions
<1> HIDE DEF c, r
<1>2. w < WindowsIn(c, r) /\ w + 1 \in 1 .. WindowsIn(c, r)
  BY <1>1 DEF c, r
<1>3. b.conditions[w + 1] = Projected(c, RefHiddens(c, r), WindowStart(w + 1),
                                      FramesOf(RefGenerated(c, r), w + 1))
  BY <1>1, <1>2, ConditionAt
<1>4. RefInputs(c, r, w + 1) =
        [comps |-> c, cond |-> b.conditions[w + 1], seed |-> w,
         prompt |-> CarryAfter(c, r, w)]
  BY <1>1, <1>2, <1>3, InputsAt
<1> QED BY <1>4 DEF InputsFor, c, r

\* A call starts from the reference's latent at its cursor.
LEMMA FlowStartExact ==
  ASSUME disk \in Components, NEW s, s.source \in CompletedCodes,
         ExactConditions(s.source), s.source.comps = disk,
         Len(s.completed) < WindowsIn(disk, s.source.req),
         Len(s.completed) \in Nat, s.step <= EulerSteps[s.source.req],
         s.completed = RefLatents(disk, s.source.req, Len(s.completed)),
         s.carry = CarryAfter(disk, s.source.req, Len(s.completed)),
         IF s.active = None THEN s.step = 0
         ELSE s.active = RefEuler(disk, s.source.req, Len(s.completed) + 1, s.step)
  PROVE  FlowExact(FlowStart(s, disk))
<1> DEFINE r == s.source.req
           w == Len(s.completed)
           inputs == InputsFor(disk, s.source, s.completed, s.carry)
           f == FlowStart(s, disk)
<1>1. inputs = RefInputs(disk, r, w + 1)
  BY InputsExact
<1>2. InitialNoise(inputs) = RefEuler(disk, r, w + 1, 0)
  BY <1>1, OneMoreUpdate
<1>3. (IF s.active # None THEN s.active ELSE InitialNoise(inputs))
        = RefEuler(disk, r, w + 1, s.step)
  BY <1>2
<1>4. /\ f.source = s.source /\ f.completed = s.completed /\ f.step = s.step
      /\ f.carry = s.carry
      /\ f.latent = IF s.active # None THEN s.active ELSE InitialNoise(inputs)
  BY DEF FlowStart
<1> HIDE DEF f, inputs
<1> QED BY <1>3, <1>4 DEF FlowExact, f

LEMMA CallDiffuseExact ==
  ASSUME Before, After, NEW b, NEW s, NEW accepted, CallDiffuse(b, s, accepted),
         b.comps = disk /\ s.source.comps = disk /\ accepted
           => FlowExact(FlowStart(s, disk))
  PROVE  StoreExact' /\ CallExact'
<1> DEFINE entered == Entered(ctx)
           ready == Ensured(entered, "ready")
<1>1. StoreOK /\ StoreExact /\ disk' = disk /\ disk \in Components
  BY EngineFacts DEF Before, After, ExactInv
<1>2. CASE EnsureFails("DIFFUSE", entered)
  BY <1>1, <1>2, RefusedExact
<1>3. CASE LeaseFails(ready, "DIFFUSE", "flow")
  BY <1>1, <1>3, RefusedExact
<1>4. ASSUME NEW same, RefuseBoundary("DIFFUSE", same)
      PROVE  StoreExact' /\ CallExact'
  BY <1>1, <1>4, RefusedExact
<1>5. ready.identities = disk
  <2>1. FilesStay /\ disk \in Components /\ Knows(ctx)
    BY MixFacts DEF Before, CallDiffuse
  <2> QED BY <2>1, EnteredKnows, EnsuredKnows
<1>6. CASE /\ SameMix(b, s, ready) /\ accepted /\ EnterLease(ready, "flow", "flow")
           /\ flow' = FlowStart(s, runtime'["flow"])
  <2>1. pc' = "flow" /\ store' = store
    BY <1>6 DEF EnterLease
  <2>2. runtime'["flow"] = disk
    <3>1. runtime'["flow"] \in Components
      BY <2>1 DEF After, EngineInv, ResidencyInv, Leased
    <3> QED BY <1>1, <3>1, ModelAssumption DEF After, MixInv, Modules
  <2>3. b.comps = disk /\ s.source.comps = disk
    BY <1>6, <1>5 DEF SameMix
  <2>4. FlowExact(FlowStart(s, disk))
    BY <1>6, <2>3
  <2>5. (FlowExact(flow))'
    BY <1>1, <1>6, <2>2, <2>4 DEF FlowExact
  <2> QED BY <1>1, <2>1, <2>5 DEF CallExact, StoreExact
<1> QED BY <1>2, <1>3, <1>4, <1>6 DEF CallDiffuse

LEMMA DiffuseCallExact ==
  ASSUME Before, After, DiffuseCall
  PROVE  StoreExact' /\ CallExact'
<1>1. StoreOK /\ StoreExact /\ disk \in Components
  BY EngineFacts DEF Before, ExactInv
<1>2. CASE StartDiffuse
  <2> DEFINE b == store["CON"]
             s == FreshFlow(b)
  <2>1. b \in CompletedCodes /\ ExactConditions(b)
    BY <1>1, <1>2, StoredExact, EngineFacts DEF StartDiffuse, Before
  <2>2. CallDiffuse(b, s, TRUE)
    BY <1>2 DEF StartDiffuse
  <2>3. /\ s.source = b /\ s.completed = <<>> /\ s.active = None /\ s.step = 0
        /\ s.carry = 0
    BY DEF FreshFlow
  <2> HIDE DEF b, s
  <2>4. ASSUME b.comps = disk
        PROVE  FlowExact(FlowStart(s, disk))
    <3>1. WindowsIn(disk, b.req) \in Nat \ {0} /\ EulerSteps[b.req] \in Nat
      BY <1>1, <2>1, <2>4, SourceFacts, AllFrames
    <3>2. RefLatents(disk, b.req, 0) = <<>> /\ CarryAfter(disk, b.req, 0) = 0
      BY DEF RefLatents, CarryAfter
    <3> QED BY <1>1, <2>1, <2>3, <2>4, <3>1, <3>2, FlowStartExact
  <2> QED BY <2>2, <2>4, CallDiffuseExact
<1>3. CASE ResumeDiffuse
  <2> DEFINE b == store["FLW"]
             s == ResumedFlow(b)
  <2>1. b \in PausedFlow /\ ExactFlow(b)
    BY <1>1, <1>3, StoredExact, EngineFacts DEF ResumeDiffuse, Before
  <2>2. CallDiffuse(b, s, FlowCursorAccepted(b))
    BY <1>3 DEF ResumeDiffuse
  <2>3. /\ s.source = b.source /\ s.completed = b.completed /\ s.active = b.active
        /\ s.step = b.second /\ s.carry = b.carry
    BY DEF ResumedFlow
  <2>4. /\ b.source \in CompletedCodes /\ b.active \in Latent /\ b.first \in Nat
    BY <2>1 DEF PausedFlow
  <2> HIDE DEF b, s
  <2>5. ASSUME b.comps = disk
        PROVE  FlowExact(FlowStart(s, disk))
    <3>1. /\ ExactConditions(b.source) /\ b.source.comps = disk
          /\ b.first < WindowsIn(disk, b.source.req)
          /\ b.second < EulerSteps[b.source.req]
          /\ b.completed = RefLatents(disk, b.source.req, b.first)
          /\ b.active = RefEuler(disk, b.source.req, b.first + 1, b.second)
          /\ b.carry = CarryAfter(disk, b.source.req, b.first)
      BY <2>1, <2>5 DEF ExactFlow, ExactSource
    <3>2. b.second <= EulerSteps[b.source.req]
      <4>1. b.source.req \in Requests /\ b.second \in Nat
        BY <2>1, <2>4, <3>1, SourceFacts DEF PausedFlow
      <4> QED BY <1>1, <3>1, <4>1, AllFrames
    <3>3. Len(b.completed) = b.first
      BY <2>4, <3>1, OneMoreLatent
    <3>4. b.active # None
      BY <2>4, NoneAssumption
    <3> QED BY <1>1, <2>3, <2>4, <3>1, <3>2, <3>3, <3>4, FlowStartExact
  <2> QED BY <2>2, <2>5, CallDiffuseExact
<1> QED BY <1>2, <1>3 DEF DiffuseCall

\* What a DIFFUSE call has while it is in progress.
LEMMA FlowKnown ==
  ASSUME Before, pc = "flow"
  PROVE  LET r == flow.source.req
             w == Len(flow.completed)
         IN  /\ runtime["flow"] = disk /\ ctx.identities = disk
             /\ disk \in Components /\ r \in Requests
             /\ w \in Nat /\ flow.step \in Nat /\ FlowExact(flow)
             /\ EulerSteps[r] \in Nat /\ WindowsIn(disk, r) \in Nat
             /\ FlowInputsNow = RefInputs(disk, r, w + 1)
             /\ RefInputs(disk, r, w + 1).prompt = flow.carry
             /\ Len(flow.source.conditions) = WindowsIn(disk, r)
<1> DEFINE r == flow.source.req
           w == Len(flow.completed)
<1>1. EngineInv /\ MixInv /\ FlowExact(flow)
  BY DEF Before, ExactInv, CallExact
<1>2. /\ flow.source \in CompletedCodes /\ w \in Nat /\ flow.step \in Nat
      /\ runtime["flow"] \in Components
  BY <1>1, FlowFacts
<1>3. runtime["flow"] = disk /\ ctx.identities = disk /\ disk \in Components
  BY <1>1, <1>2, OnDisk DEF Modules
<1>4. /\ ExactConditions(flow.source) /\ flow.source.comps = disk
      /\ w < WindowsIn(disk, r) /\ flow.carry = CarryAfter(disk, r, w)
  BY <1>1 DEF FlowExact
<1>5. /\ r \in Requests /\ WindowsIn(disk, r) \in Nat
      /\ Len(flow.source.conditions) = WindowsIn(disk, r)
  BY <1>2, <1>4, SourceFacts
<1>6. EulerSteps[r] \in Nat
  BY <1>3, <1>5, AllFrames
<1>7. /\ FlowInputsNow = RefInputs(disk, r, w + 1)
      /\ RefInputs(disk, r, w + 1).prompt = flow.carry
  BY <1>2, <1>3, <1>4, InputsExact DEF FlowInputsNow
<1> QED BY <1>1, <1>2, <1>3, <1>5, <1>6, <1>7

\* The windows finished so far, with the one that is finished now.
LEMMA FinishedExact ==
  ASSUME Before, pc = "flow", flow.step = EulerSteps[FlowReq]
  PROVE  /\ FinishedWindows = RefLatents(disk, flow.source.req, Len(flow.completed) + 1)
         /\ Len(FinishedWindows) = Len(flow.completed) + 1
<1> DEFINE r == flow.source.req
           w == Len(flow.completed)
           euler == RefEuler(disk, r, w + 1, EulerSteps[r])
           pasted == [flow.latent EXCEPT !.head =
                        IF flow.carry # 0 THEN flow.carry ELSE @]
<1>1. /\ flow.completed = RefLatents(disk, r, w) /\ flow.latent = euler
      /\ RefInputs(disk, r, w + 1).prompt = flow.carry /\ w \in Nat
  BY FlowKnown DEF FlowExact, FlowReq
<1>2. euler.head = 0
  BY DEF RefEuler
<1>3. pasted = [euler EXCEPT !.head = flow.carry]
  <2> HIDE DEF euler
  <2> QED BY <1>1, <1>2
<1>4. pasted = RefLatent(disk, r, w + 1)
  BY <1>1, <1>3 DEF RefLatent
<1>5. FinishedWindows = Append(RefLatents(disk, r, w), RefLatent(disk, r, w + 1))
  BY <1>1, <1>4 DEF FinishedWindows
<1> HIDE DEF pasted, euler, w, r
<1>6. FinishedWindows = RefLatents(disk, r, w + 1) /\ Len(FinishedWindows) = w + 1
  BY <1>1, <1>5, OneMoreLatent
<1> QED BY <1>6 DEF w, r

LEMMA DiffuseStepExact ==
  ASSUME Before, After, DiffuseStep \/ DiffuseInterrupted
  PROVE  StoreExact' /\ CallExact'
<1> DEFINE r == flow.source.req
           w == Len(flow.completed)
<1>1. StoreOK /\ StoreExact /\ disk' = disk /\ pc = "flow" /\ flow \in FlowState
  BY EngineFacts, FlowFacts DEF Before, After, ExactInv, DiffuseStep,
     DiffuseInterrupted, EulerStep, FinishWindow, CompleteFlow, PauseFlow, FlowFault,
     Denoising
<1>2. /\ ctx.identities = disk /\ runtime["flow"] = disk /\ w \in Nat
      /\ flow.step \in Nat /\ EulerSteps[r] \in Nat /\ WindowsIn(disk, r) \in Nat
      /\ FlowInputsNow = RefInputs(disk, r, w + 1)
      /\ Len(flow.source.conditions) = WindowsIn(disk, r)
  BY <1>1, FlowKnown
<1>3. /\ ExactConditions(flow.source) /\ flow.source.comps = disk
      /\ w < WindowsIn(disk, r)
      /\ flow.step <= EulerSteps[r]
      /\ flow.completed = RefLatents(disk, r, w)
      /\ flow.latent = RefEuler(disk, r, w + 1, flow.step)
      /\ flow.carry = CarryAfter(disk, r, w)
  BY <1>1 DEF Before, ExactInv, CallExact, FlowExact
<1>4. CASE EulerStep
  <2> DEFINE latent == EulerUpdate(flow.latent, FlowInputsNow, flow.step)
  <2>1. /\ flow' = [flow EXCEPT !.latent = latent, !.step = flow.step + 1]
        /\ pc' = "flow" /\ store' = store /\ flow.step < EulerSteps[r]
    BY <1>1, <1>4 DEF EulerStep, Denoising, FlowReq
  <2>2. latent = RefEuler(disk, r, w + 1, flow.step + 1)
    BY <1>2, <1>3, OneMoreUpdate
  <2> HIDE DEF latent
  <2>3. /\ flow'.source = flow.source /\ flow'.completed = flow.completed
        /\ flow'.carry = flow.carry /\ flow'.step = flow.step + 1
        /\ flow'.latent = latent
    BY <1>1, <2>1 DEF FlowState
  <2>4. FlowExact(flow)'
    BY <1>1, <1>2, <1>3, <2>1, <2>2, <2>3 DEF FlowExact
  <2> QED BY <1>1, <2>1, <2>4 DEF CallExact, StoreExact
<1>5. CASE FinishWindow
  <2>1. /\ flow.step = EulerSteps[FlowReq] /\ w + 1 < WindowsIn(disk, r)
        /\ pc' = "flow" /\ store' = store
    BY <1>1, <1>2, <1>5 DEF FinishWindow, Window
  <2> DEFINE windows == FinishedWindows
             carry == NextCarry
             inputs == InputsFor(disk, flow.source, windows, carry)
  <2>2. windows = RefLatents(disk, r, w + 1) /\ Len(windows) = w + 1
    BY <1>1, <2>1, FinishedExact
  <2>3. carry = CarryAfter(disk, r, w + 1)
    <3>1. flow.source \in CompletedCodes /\ w + 1 \in 1 .. WindowsIn(disk, r)
      BY <1>1, <1>2, <2>1, FlowFacts DEF Before
    <3>2. flow.source.conditions[w + 1].frames = FramesOf(RefGenerated(disk, r), w + 1)
      BY <1>3, <3>1, SourceFacts
    <3>3. w + 1 # 0
      BY <1>2
    <3> QED BY <3>2, <3>3 DEF NextCarry, Window, CarryAfter
  <2>4. /\ flow'.source = flow.source /\ flow'.completed = windows
        /\ flow'.carry = carry /\ flow'.step = 0
        /\ flow'.latent = InitialNoise(inputs)
    <3>1. flow' = [flow EXCEPT !.completed = windows, !.carry = carry,
                               !.latent = InitialNoise(inputs), !.step = 0]
      BY <1>2, <1>5 DEF FinishWindow
    <3> HIDE DEF windows, carry, inputs
    <3> QED BY <1>1, <3>1 DEF FlowState
  <2> HIDE DEF windows, carry
  <2>5. inputs = RefInputs(disk, r, w + 1 + 1)
    <3>1. flow.source \in CompletedCodes
      BY <1>1, FlowFacts DEF Before
    <3>2. w + 1 \in Nat
      BY <1>2
    <3> HIDE DEF w
    <3> QED BY <1>3, <2>1, <2>2, <2>3, <3>1, <3>2, InputsExact
  <2>6. InitialNoise(inputs) = RefEuler(disk, r, w + 1 + 1, 0)
    BY <2>5, OneMoreUpdate
  <2> HIDE DEF inputs
  <2>7. FlowExact(flow)'
    <3> HIDE DEF w
    <3> QED BY <1>1, <1>2, <1>3, <2>1, <2>2, <2>3, <2>4, <2>6 DEF FlowExact
  <2> QED BY <1>1, <2>1, <2>7 DEF CallExact, StoreExact
<1>6. CASE CompleteFlow
  <2>1. flow.step = EulerSteps[FlowReq] /\ w + 1 = WindowsIn(disk, r)
    BY <1>1, <1>2, <1>6 DEF CompleteFlow, Window
  <2> DEFINE windows == FinishedWindows
             out == CompletedFlowBoundary(windows)
  <2>2. windows = RefLatents(disk, r, w + 1) /\ Len(windows) = w + 1
    BY <1>1, <2>1, FinishedExact
  <2> HIDE DEF windows
  <2>3. /\ out.kind = "LAT" /\ out.comps = disk /\ out.first = w + 1 /\ out.second = 0
        /\ out.source = flow.source /\ out.completed = windows
    BY <1>2, <2>2 DEF CompletedFlowBoundary
  <2> HIDE DEF out
  <2>4. Exact(out)
    BY <1>3, <2>1, <2>2, <2>3 DEF Exact, ExactLatents, ExactSource
  <2>5. Emit("DIFFUSE", "DONE", "OK", out)
    BY <1>6 DEF CompleteFlow, out, windows
  <2> QED BY <1>1, <2>4, <2>5, EmitExact, IdleExact
<1>7. CASE PauseFlow
  <2> DEFINE out == PausedFlowBoundary
  <2>1. /\ out.kind = "FLW" /\ out.comps = disk /\ out.first = w
        /\ out.second = flow.step /\ out.source = flow.source
        /\ out.completed = flow.completed /\ out.active = flow.latent
        /\ out.carry = flow.carry
    BY <1>2 DEF PausedFlowBoundary
  <2> HIDE DEF out
  <2>2. flow.step < EulerSteps[r]
    BY <1>7 DEF PauseFlow, Denoising, FlowReq
  <2>3. Exact(out)
    BY <1>3, <2>1, <2>2 DEF Exact, ExactFlow, ExactSource
  <2>4. Emit("DIFFUSE", "PAUSED", "CANCEL", out)
    BY <1>7 DEF PauseFlow, out
  <2> QED BY <1>1, <2>3, <2>4, EmitExact, IdleExact
<1>8. CASE FlowFault
  BY <1>1, <1>8, RefusedExact DEF FlowFault
<1> QED BY <1>4, <1>5, <1>6, <1>7, <1>8 DEF DiffuseStep, DiffuseInterrupted
-----------------------------------------------------------------------------
(***************************************************************************)
(* DECODE.                                                                 *)
(***************************************************************************)
LEMMA StartDecodeExact ==
  ASSUME Before, After, StartDecode
  PROVE  StoreExact' /\ CallExact'
<1> DEFINE b == store["LAT"]
           entered == Entered(ctx)
           ready == Ensured(entered, "ready")
<1>1. /\ StoreOK /\ StoreExact /\ disk' = disk /\ ctx # None /\ b # None
      /\ ExactLatents(b) /\ b \in CompletedFlow
  BY EngineFacts, StoredExact DEF Before, After, ExactInv, StartDecode
<1>2. ready.identities = disk
  <2>1. FilesStay /\ disk \in Components /\ Knows(ctx)
    BY <1>1, MixFacts DEF Before
  <2> QED BY <2>1, EnteredKnows, EnsuredKnows
<1>3. CASE EnsureFails("DECODE", entered) \/ LeaseFails(ready, "DECODE", "vocoder")
  BY <1>1, <1>3, RefusedExact
<1>4. ASSUME NEW same, RefuseBoundary("DECODE", same)
      PROVE  StoreExact' /\ CallExact'
  BY <1>1, <1>4, RefusedExact
<1>5. CASE /\ b.comps = ready.identities
           /\ EnterLease(ready, "vocoder", "decode")
           /\ decode' = [input |-> b, pieces |-> <<>>]
  <2>1. decode'.input = b /\ decode'.pieces = <<>>
    BY <1>5
  <2>2. b.comps = disk /\ pc' = "decode" /\ store' = store
    BY <1>2, <1>5 DEF EnterLease
  <2>3. WindowsIn(disk, b.source.req) \in Nat
    <3>1. b.source \in CompletedCodes
      BY <1>1 DEF CompletedFlow
    <3>2. ExactConditions(b.source) /\ b.source.comps = disk
      BY <1>1, <2>2 DEF ExactLatents, ExactSource
    <3> QED BY <3>1, <3>2, SourceFacts
  <2>4. PiecesOf(disk, b.source.req, 0) = <<>>
    BY DEF PiecesOf
  <2> HIDE DEF b
  <2>5. DecodeExact(decode)'
    BY <1>1, <2>1, <2>2, <2>3, <2>4 DEF DecodeExact
  <2> QED BY <1>1, <2>2, <2>5 DEF CallExact, StoreExact
<1> QED BY <1>3, <1>4, <1>5 DEF StartDecode

\* What a DECODE call has while it is in progress.
LEMMA DecodeKnown ==
  ASSUME Before, pc = "decode"
  PROVE  LET r == decode.input.source.req
         IN  /\ runtime["vocoder"] = disk /\ ctx.identities = disk
             /\ Len(decode.pieces) \in Nat
             /\ Windows = WindowsIn(disk, r) /\ WindowsIn(disk, r) \in Nat
             /\ decode.input.completed = RefLatents(disk, r, WindowsIn(disk, r))
             /\ decode.pieces = PiecesOf(disk, r, Len(decode.pieces))
<1> DEFINE r == decode.input.source.req
<1>1. EngineInv /\ MixInv /\ DecodeExact(decode)
  BY DEF Before, ExactInv, CallExact
<1>2. runtime["vocoder"] = disk /\ ctx.identities = disk
  BY <1>1, DecodeFacts, OnDisk DEF Modules
<1>3. /\ decode.input.source \in CompletedCodes
      /\ decode.pieces \in Seq(Piece)
  BY <1>1, DecodeFacts
<1>4. /\ ExactConditions(decode.input.source) /\ decode.input.source.comps = disk
      /\ decode.input.completed = RefLatents(disk, r, WindowsIn(disk, r))
      /\ decode.pieces = PiecesOf(disk, r, Len(decode.pieces))
  BY <1>1 DEF DecodeExact, ExactLatents, ExactSource
<1>5. WindowsIn(disk, r) \in Nat
  BY <1>3, <1>4, SourceFacts
<1>6. Windows = WindowsIn(disk, r)
  BY <1>4, <1>5, OneMoreLatent DEF Windows
<1> QED BY <1>2, <1>3, <1>4, <1>5, <1>6

\* A window decoded by this call is the one of the uninterrupted song.
LEMMA DecodeWindowExact ==
  ASSUME Before, After, DecodeWindow
  PROVE  StoreExact' /\ CallExact'
<1> DEFINE r == decode.input.source.req
           p == Len(decode.pieces)
           latent == decode.input.completed[p + 1]
           n == LatentFrames(latent.inputs.cond.frames)
           piece == CroppedPiece(p + 1, latent, n)
<1>1. /\ StoreExact /\ disk' = disk /\ pc = "decode" /\ pc' = "decode"
      /\ store' = store /\ decode \in DecodeState /\ DecodeExact(decode)
  BY DecodeFacts DEF Before, After, ExactInv, CallExact, DecodeWindow, Decoding
<1>2. /\ runtime["vocoder"] = disk /\ p \in Nat
      /\ Windows = WindowsIn(disk, r) /\ WindowsIn(disk, r) \in Nat
      /\ decode.input.completed = RefLatents(disk, r, WindowsIn(disk, r))
      /\ decode.pieces = PiecesOf(disk, r, p)
  BY <1>1, DecodeKnown
<1>3. p + 1 \in 1 .. WindowsIn(disk, r)
  BY <1>2 DEF DecodeWindow, Decoding
<1>4. latent = RefLatent(disk, r, p + 1)
  BY <1>2, <1>3 DEF RefLatents
<1>5. latent.inputs.cond = RefConditions(disk, r)[p + 1]
  BY <1>4, LatentAt
<1>6. piece = RefPiece(disk, r, p + 1)
  BY <1>2, <1>4, <1>5 DEF CroppedPiece, RefPiece, WindowsIn
<1>7. decode' = [decode EXCEPT !.pieces = Append(decode.pieces, piece)]
  BY DEF DecodeWindow
<1> HIDE DEF piece
<1>8. /\ decode'.input = decode.input
      /\ decode'.pieces = Append(decode.pieces, piece)
  BY <1>1, <1>7 DEF DecodeState
<1>9. decode'.pieces = PiecesOf(disk, r, p + 1) /\ Len(decode'.pieces) = p + 1
  <2>1. decode'.pieces = Append(PiecesOf(disk, r, p), RefPiece(disk, r, p + 1))
    BY <1>2, <1>6, <1>8
  <2>2. p \in Nat
    BY <1>2
  <2> HIDE DEF p, r
  <2> QED BY <2>1, <2>2, OneMorePiece
<1>10. /\ ExactLatents(decode.input) /\ decode.input.comps = disk
       /\ p + 1 <= WindowsIn(disk, r)
  BY <1>1, <1>2, <1>3 DEF DecodeExact
<1> HIDE DEF p
<1>11. DecodeExact(decode)'
  BY <1>1, <1>8, <1>9, <1>10 DEF DecodeExact
<1> QED BY <1>1, <1>11 DEF CallExact, StoreExact

LEMMA DecodeExactKept ==
  ASSUME Before, After, StageDecode
  PROVE  StoreExact' /\ CallExact'
<1>1. StoreOK /\ StoreExact
  BY EngineFacts DEF Before, ExactInv
<1>2. CASE CompleteDecode
  <2>1. \/ Return("DECODE", "DONE", "OK", None)
        \/ \E e \in ComputeErrors : Fail("DECODE", e)
    BY <1>2 DEF CompleteDecode
  <2>2. StoreExact' /\ pc' = "idle"
    BY <1>1, <2>1, ReturnExact, FailExact
  <2> QED BY <2>2, IdleExact
<1>3. CASE PauseDecode
  BY <1>1, <1>3, ReturnExact, IdleExact DEF PauseDecode
<1>4. CASE DecodeFault
  BY <1>1, <1>4, RefusedExact DEF DecodeFault
<1> QED BY <1>2, <1>3, <1>4, StartDecodeExact, DecodeWindowExact
    DEF StageDecode, DecodeStep, DecodeInterrupted

-----------------------------------------------------------------------------
(***************************************************************************)
(* The host adds nothing to the store and runs no call.                    *)
(***************************************************************************)
LEMMA HostExact ==
  ASSUME EngineInv, ExactInv,
         \/ RejectedInput \/ Load \/ Free \/ Crash \/ (FilesStay /\ ReplaceFiles)
  PROVE  StoreExact' /\ CallExact'
<1>1. StoreOK /\ StoreExact
  BY EngineFacts DEF ExactInv
<1>2. CASE RejectedInput
  <2>1. \E s, e : Fail(s, e)
    BY <1>2 DEF RejectedInput
  <2>2. StoreExact' /\ pc' = "idle"
    BY <1>1, <2>1, FailExact
  <2> QED BY <2>2, IdleExact
<1>3. CASE Load \/ Free \/ Crash \/ (FilesStay /\ ReplaceFiles)
  <2>1. store' = store /\ pc' = "idle"
    <3>1. CASE Load \/ Free \/ Crash
      BY <3>1 DEF Load, Free, Crash
    <3>2. CASE FilesStay /\ ReplaceFiles
      BY <3>2, EngineFacts DEF ReplaceFiles, FilesStay
    <3> QED BY <1>3, <3>1, <3>2
  <2> QED BY <1>1, <2>1, IdleExact DEF StoreExact
<1> QED BY <1>2, <1>3

\* A song is made of the pieces of its mix and not touched afterwards.
LEMMA SongKept ==
  ASSUME Before, After, StageCodes \/ StageDiffuse \/ StageDecode
  PROVE  SongExact'
<1>1. CASE ctx'.audio = None
  BY <1>1 DEF SongExact
<1>2. CASE Sings
  <2> DEFINE music == [req |-> decode.input.source.req, pieces |-> decode.pieces]
  <2>1. pc = "decode" /\ Len(decode.pieces) = Windows /\ ctx \in Context
    BY <1>2, DecodeFacts DEF Sings, CompleteDecode, Before
  <2>2. /\ ctx.identities = disk
        /\ decode.pieces = PiecesOf(disk, decode.input.source.req,
                                    WindowsIn(disk, decode.input.source.req))
    BY <2>1, DecodeKnown
  <2>3. music.pieces = RefSong(disk, music.req)
    BY <2>2 DEF PiecesOf, RefSong, WindowsIn
  <2> HIDE DEF music
  <2>4. ctx'.audio = music /\ ctx'.identities = ctx.identities
    BY <1>2, <2>1 DEF Sings, Context, music
  <2> QED BY <2>2, <2>3, <2>4 DEF SongExact
<1> QED BY <1>1, <1>2, StageQuiet DEF Before

LEMMA HostSong ==
  ASSUME Before,
         \/ RejectedInput \/ Load \/ Free \/ Crash \/ ReplaceFiles
  PROVE  SongExact'
<1>1. \/ ctx' = None \/ ctx'.audio = None \/ ctx' = ctx
  BY HostQuiet DEF Before
<1> QED BY <1>1 DEF Before, ExactInv, SongExact

-----------------------------------------------------------------------------
LEMMA ExactInit ==
  ASSUME Init
  PROVE  ExactInv
  BY DEF Init, NoBoundaries, ExactInv, StoreExact, CallExact, SongExact

LEMMA ExactNext ==
  ASSUME FilesStay, EngineInv, MixInv, AudioInv, ExactInv, [Next]_vars
  PROVE  ExactInv'
<1>1. Before
  BY DEF Before
<1>2. CASE StageCodes \/ StageDiffuse \/ StageDecode
  <2>1. After
    <3>1. disk' = disk
      BY <1>2 DEF StageCodes, StageDiffuse, StageDecode
    <3> QED BY <3>1, NextInv, MixNext DEF After
  <2>2. StoreExact' /\ CallExact'
    BY <1>1, <1>2, <2>1, CodesCallExact, CodesStepExact, CodesInterruptedExact,
       DiffuseCallExact, DiffuseStepExact, DecodeExactKept
       DEF StageCodes, StageDiffuse
  <2> QED BY <1>1, <1>2, <2>1, <2>2, SongKept DEF ExactInv
<1>3. CASE \/ RejectedInput \/ Load \/ Free \/ Crash \/ ReplaceFiles
  <2>1. StoreExact' /\ CallExact'
    BY <1>3, HostExact
  <2> QED BY <1>1, <1>3, <2>1, HostSong DEF ExactInv
<1>4. CASE UNCHANGED vars
  <2>1. StoreExact' /\ SongExact'
    BY <1>4 DEF vars, ExactInv, StoreExact, SongExact
  <2>2. ArExact => ArExact'
    BY <1>4 DEF vars, locals, ArExact, MadeExact, LoopExact, ProjectedExact
  <2>3. /\ FlowExact(flow) => (FlowExact(flow))'
        /\ DecodeExact(decode) => (DecodeExact(decode))'
    BY <1>4 DEF vars, locals, FlowExact, DecodeExact
  <2> QED BY <1>4, <2>1, <2>2, <2>3 DEF vars, ExactInv, CallExact
<1> QED BY <1>2, <1>3, <1>4 DEF Next, InvalidArguments

(***************************************************************************)
(* The theorems, for every set of mixes and requests, every geometry and   *)
(* schedule, as long as nobody replaces files under a live context.        *)
(***************************************************************************)
THEOREM ExactHolds ==
  ASSUME FilesStay
  PROVE  Spec => [](EngineInv /\ ExactInv)
<1>1. Init => MixInv /\ AudioInv /\ ExactInv
  BY MixInit, ExactInit DEF Init, AudioInv, Holding
<1>2. EngineInv /\ MixInv /\ AudioInv /\ ExactInv /\ [Next]_vars
        => MixInv' /\ AudioInv' /\ ExactInv'
  BY MixNext, AudioNext, ExactNext
<1> QED BY <1>1, <1>2, Inductive, PTL DEF Spec

(***************************************************************************)
(* A saved CODES boundary holds what an uninterrupted run of its mix would *)
(* hold at the same frame.                                                 *)
(***************************************************************************)
THEOREM CodesExact ==
  ASSUME FilesStay
  PROVE  Spec => []SavedCodesExact
<1>1. EngineInv /\ ExactInv => SavedCodesExact
  BY StoredExact, EngineFacts
     DEF ExactInv, SavedCodesExact, ExactCodes, ExactConditions
<1> QED BY <1>1, ExactHolds, PTL

\* The carry of an exact paused flow is the prompt of its next window.
LEMMA ExactFlowPrompt ==
  ASSUME NEW b \in PausedFlow, ExactFlow(b)
  PROVE  /\ b.carry = RefInputs(b.comps, b.source.req, b.first + 1).prompt
         /\ b.source.conditions = RefConditions(b.comps, b.source.req)
<1>1. b.source \in CompletedCodes /\ b.first \in Nat
  BY DEF PausedFlow
<1>2. /\ ExactConditions(b.source) /\ b.source.comps = b.comps
      /\ b.first < WindowsIn(b.comps, b.source.req)
      /\ b.completed = RefLatents(b.comps, b.source.req, b.first)
      /\ b.carry = CarryAfter(b.comps, b.source.req, b.first)
  BY DEF ExactFlow, ExactSource
<1>3. Len(b.completed) = b.first
  BY <1>1, <1>2, OneMoreLatent
<1>4. b.carry = RefInputs(b.comps, b.source.req, b.first + 1).prompt
  BY <1>1, <1>2, <1>3, InputsExact
<1> QED BY <1>2, <1>4 DEF ExactConditions

(***************************************************************************)
(* A saved DIFFUSE boundary holds the windows, the updates of the window   *)
(* in progress and the prompt of an uninterrupted run of its mix, and the  *)
(* source it was made from.                                                *)
(***************************************************************************)
THEOREM FlowIsExact ==
  ASSUME FilesStay
  PROVE  Spec => []SavedFlowExact
<1>1. ASSUME EngineInv, ExactInv
      PROVE  SavedFlowExact
  <2>1. StoreOK /\ StoreExact
    BY <1>1, EngineFacts DEF ExactInv
  <2>2. ASSUME store["FLW"] # None
        PROVE  /\ ExactFlow(store["FLW"])
               /\ store["FLW"].carry = RefInputs(store["FLW"].comps,
                    store["FLW"].source.req, store["FLW"].first + 1).prompt
               /\ store["FLW"].source.conditions =
                    RefConditions(store["FLW"].comps, store["FLW"].source.req)
    BY <1>1, <2>1, <2>2, StoredExact, EngineFacts, ExactFlowPrompt
  <2>3. ASSUME store["LAT"] # None
        PROVE  LET b == store["LAT"]
               IN  /\ b.source.conditions = RefConditions(b.comps, b.source.req)
                   /\ b.completed = RefLatents(b.comps, b.source.req,
                                               Len(b.source.conditions))
    <3> DEFINE b == store["LAT"]
    <3>1. ExactLatents(b) /\ b \in CompletedFlow
      BY <1>1, <2>1, <2>3, StoredExact, EngineFacts
    <3>2. b.source \in CompletedCodes
      BY <3>1 DEF CompletedFlow
    <3>3. /\ ExactConditions(b.source) /\ b.source.comps = b.comps
          /\ b.first = WindowsIn(b.comps, b.source.req)
          /\ b.completed = RefLatents(b.comps, b.source.req, b.first)
      BY <3>1 DEF ExactLatents, ExactSource
    <3>4. Len(b.source.conditions) = b.first
      BY <3>2, <3>3, SourceFacts
    <3> QED BY <3>3, <3>4 DEF ExactConditions
  <2> QED BY <2>2, <2>3 DEF SavedFlowExact, ExactFlow
<1> QED BY <1>1, ExactHolds, PTL

(***************************************************************************)
(* The song a context hands out is the uninterrupted one of the mix whose  *)
(* digests it has.                                                         *)
(***************************************************************************)
THEOREM SongIsExact ==
  ASSUME FilesStay
  PROVE  Spec => []SongExact
<1>1. ExactInv => SongExact
  BY DEF ExactInv
<1> QED BY <1>1, ExactHolds, PTL

-----------------------------------------------------------------------------
(***************************************************************************)
(* An exact boundary passes the checks of the stage that reads it.         *)
(***************************************************************************)
LEMMA CodesAccepted ==
  ASSUME NEW b \in PausedCodes, ExactCodes(b)
  PROVE  CodesCursorAccepted(b)
<1>1. /\ b.comps \in Components /\ b.req \in Requests /\ Len(b.codes) \in Nat
  BY DEF PausedCodes
<1>2. /\ RefLength(b.comps, b.req) \in Nat /\ Target[b.req] \in Nat
      /\ EosFrame[b.comps][b.req] \in Nat
  BY <1>1, AllFrames
<1>3. RefLength(b.comps, b.req) <= Target[b.req] + 1
  BY <1>2 DEF RefLength, Least
<1> QED BY <1>1, <1>2, <1>3 DEF ExactCodes, CodesCursorAccepted

LEMMA SourceAccepted ==
  ASSUME NEW b \in CompletedCodes, ExactConditions(b)
  PROVE  ConditionWindowsAccepted(b)
<1>1. /\ b.first = RefGenerated(b.comps, b.req) /\ b.first # 0
      /\ b.second = WindowsIn(b.comps, b.req)
  BY DEF ExactConditions
<1>2. /\ Len(b.conditions) = WindowsIn(b.comps, b.req)
      /\ \A w \in 1 .. WindowsIn(b.comps, b.req) :
           b.conditions[w].frames = FramesOf(RefGenerated(b.comps, b.req), w)
  BY SourceFacts
<1>3. WindowsIn(b.comps, b.req) = WindowCount(b.first)
  BY <1>1 DEF WindowsIn
<1> QED BY <1>1, <1>2, <1>3 DEF ConditionWindowsAccepted

LEMMA FlowAccepted ==
  ASSUME NEW b \in PausedFlow, ExactFlow(b)
  PROVE  /\ b.source.comps = b.comps
         /\ ConditionWindowsAccepted(b.source) /\ FlowCursorAccepted(b)
<1>1. b.source \in CompletedCodes /\ b.first \in Nat
  BY DEF PausedFlow
<1>2. /\ ExactConditions(b.source) /\ b.source.comps = b.comps
      /\ b.first < WindowsIn(b.comps, b.source.req)
      /\ b.second < EulerSteps[b.source.req]
      /\ b.completed = RefLatents(b.comps, b.source.req, b.first)
  BY DEF ExactFlow, ExactSource
<1>3. Len(b.completed) = b.first
  BY <1>1, <1>2, OneMoreLatent
<1>4. Len(b.source.conditions) = WindowsIn(b.comps, b.source.req)
  BY <1>1, <1>2, SourceFacts
<1>5. b.second <= EulerSteps[b.source.req]
  <2>1. /\ b.comps \in Components /\ b.second \in Nat
        /\ b.source.req \in Requests
    BY <1>1, <1>2, SourceFacts DEF PausedFlow
  <2> QED BY <1>2, <2>1, AllFrames
<1> QED BY <1>1, <1>2, <1>3, <1>4, <1>5, SourceAccepted DEF FlowCursorAccepted

LEMMA LatentsAreAccepted ==
  ASSUME NEW b \in CompletedFlow, ExactLatents(b)
  PROVE  /\ b.source.comps = b.comps
         /\ ConditionWindowsAccepted(b.source) /\ LatentsAccepted(b)
<1> DEFINE r == b.source.req
           n == WindowsIn(b.comps, r)
<1>1. b.source \in CompletedCodes
  BY DEF CompletedFlow
<1>2. /\ ExactConditions(b.source) /\ b.source.comps = b.comps
      /\ b.first = n /\ b.second = 0
      /\ b.completed = RefLatents(b.comps, r, n)
      /\ b.source.conditions = RefConditions(b.comps, r)
  BY DEF ExactLatents, ExactSource, ExactConditions
<1>3. n \in Nat \ {0} /\ Len(b.source.conditions) = n
  BY <1>1, <1>2, SourceFacts
<1>4. Len(b.completed) = n
  BY <1>2, <1>3, OneMoreLatent
<1>5. ASSUME NEW i \in 1 .. n
      PROVE  b.completed[i].inputs.cond = b.source.conditions[i]
  <2>1. b.completed[i] = RefLatent(b.comps, r, i)
    BY <1>2 DEF RefLatents
  <2> QED BY <1>2, <2>1, LatentAt
<1> HIDE DEF n, r
<1>6. LatentsAccepted(b)
  BY <1>2, <1>3, <1>4, <1>5 DEF LatentsAccepted
<1> QED BY <1>1, <1>2, <1>6, SourceAccepted

(***************************************************************************)
(* The engine never refuses a boundary it wrote, when the same mix reads   *)
(* it.                                                                     *)
(***************************************************************************)
THEOREM SavedAccepted ==
  ASSUME FilesStay
  PROVE  Spec => []SavedBoundariesAccepted
<1>1. ASSUME EngineInv, ExactInv
      PROVE  SavedBoundariesAccepted
  <2>1. StoreOK /\ StoreExact
    BY <1>1, EngineFacts DEF ExactInv
  <2> QED BY <1>1, <2>1, StoredExact, EngineFacts, CodesAccepted, SourceAccepted,
             FlowAccepted, LatentsAreAccepted DEF SavedBoundariesAccepted
<1> QED BY <1>1, ExactHolds, PTL

-----------------------------------------------------------------------------
(***************************************************************************)
(* The engine implements the song service.  A call works on boundaries the *)
(* host still holds: the one it was given is in the store until it ends.   *)
(***************************************************************************)
HeldFlow(f) ==
  /\ f.input.kind \in {"CON", "FLW"}
  /\ store[f.input.kind] = f.input
  /\ f.source = IF f.input.kind = "CON" THEN f.input ELSE f.input.source

HeldInv ==
  /\ pc = "flow" => HeldFlow(flow)
  /\ pc = "decode" => decode.input = store["LAT"]

LEMMA HeldBegins ==
  ASSUME EngineInv, DiffuseCall
  PROVE  pc' = "idle" \/ (pc' = "flow" /\ HeldFlow(flow)')
<1>1. CASE StartDiffuse
  <2> DEFINE b == store["CON"]
  <2>1. \/ pc' = "idle"
        \/ /\ pc' = "flow" /\ store' = store
           /\ flow' = FlowStart(FreshFlow(b), runtime'["flow"])
    BY <1>1 DEF StartDiffuse, CallDiffuse, EnterLease, EnsureFails, RefuseBoundary,
                LeaseFails, Fail, Return
  <2>2. \A c : /\ FlowStart(FreshFlow(b), c).input = b
               /\ FlowStart(FreshFlow(b), c).source = b
    BY DEF FlowStart, FreshFlow
  <2>3. b.kind = "CON"
    BY <1>1, EngineFacts DEF StartDiffuse, CompletedCodes
  <2> QED BY <2>1, <2>2, <2>3 DEF HeldFlow
<1>2. CASE ResumeDiffuse
  <2> DEFINE b == store["FLW"]
  <2>1. \/ pc' = "idle"
        \/ /\ pc' = "flow" /\ store' = store
           /\ flow' = FlowStart(ResumedFlow(b), runtime'["flow"])
    BY <1>2 DEF ResumeDiffuse, CallDiffuse, EnterLease, EnsureFails, RefuseBoundary,
                LeaseFails, Fail, Return
  <2>2. \A c : /\ FlowStart(ResumedFlow(b), c).input = b
               /\ FlowStart(ResumedFlow(b), c).source = b.source
    BY DEF FlowStart, ResumedFlow
  <2>3. b.kind = "FLW"
    BY <1>2, EngineFacts DEF ResumeDiffuse, PausedFlow
  <2> QED BY <2>1, <2>2, <2>3 DEF HeldFlow
<1> QED BY <1>1, <1>2 DEF DiffuseCall

LEMMA HeldNext ==
  ASSUME EngineInv, HeldInv, [Next]_vars
  PROVE  HeldInv'
<1>1. ASSUME pc' \notin {"flow", "decode"}
      PROVE  HeldInv'
  BY <1>1 DEF HeldInv
<1>2. ASSUME UNCHANGED <<pc, store, flow, decode>>
      PROVE  HeldInv'
  BY <1>2 DEF HeldInv, HeldFlow
<1>3. CASE StageCodes
  BY <1>1, <1>3 DEF StageCodes, CodesCall, CodesStep, CodesInterrupted, StartCodes,
     ResumeCodes, BeginAr, EnterLease, LeaseFails, EnsureFails, RefuseBoundary,
     ReplayFrame, SampleFrame, KeepFrame, SampleEos, FinishAr, BeginProjection,
     ProjectWindow, CompleteCodes, Projecting, PauseAr, ArFault, PauseProjection,
     ProjectionFault, LeasedFault, Emit, Fail, Return
<1>4. CASE StageDiffuse
  <2>1. CASE DiffuseCall
    BY <1>1, <2>1, HeldBegins DEF HeldInv
  <2>2. CASE EulerStep \/ FinishWindow
    <3>1. pc = "flow" /\ pc' = "flow" /\ store' = store
      BY <2>2 DEF EulerStep, Denoising, FinishWindow
    <3>2. flow'.input = flow.input /\ flow'.source = flow.source
      <4>1. flow \in FlowState
        BY <3>1, FlowFacts
      <4> QED BY <2>2, <4>1 DEF EulerStep, FinishWindow, FlowState
    <3> QED BY <3>1, <3>2 DEF HeldInv, HeldFlow
  <2>3. CASE CompleteFlow \/ PauseFlow \/ FlowFault
    BY <1>1, <2>3 DEF CompleteFlow, PauseFlow, FlowFault, LeasedFault, Emit, Fail, Return
  <2> QED BY <1>4, <2>1, <2>2, <2>3 DEF StageDiffuse, DiffuseStep, DiffuseInterrupted
<1>5. CASE StageDecode
  <2>1. CASE StartDecode
    <3>1. \/ pc' = "idle"
          \/ pc' = "decode" /\ store' = store /\ decode'.input = store["LAT"]
      BY <2>1 DEF StartDecode, EnterLease, EnsureFails, RefuseBoundary,
                  LeaseFails, Fail, Return
    <3> QED BY <1>1, <3>1 DEF HeldInv
  <2>2. CASE DecodeWindow
    <3>1. pc = "decode" /\ pc' = "decode" /\ store' = store
      BY <2>2 DEF DecodeWindow, Decoding
    <3>2. decode'.input = decode.input
      <4>1. decode \in DecodeState
        BY <3>1, DecodeFacts
      <4> QED BY <2>2, <4>1 DEF DecodeWindow, DecodeState
    <3> QED BY <3>1, <3>2 DEF HeldInv
  <2>3. CASE CompleteDecode \/ PauseDecode \/ DecodeFault
    BY <1>1, <2>3 DEF CompleteDecode, PauseDecode, DecodeFault, LeasedFault, Fail, Return
  <2> QED BY <1>5, <2>1, <2>2, <2>3 DEF StageDecode, DecodeStep, DecodeInterrupted
<1>6. CASE RejectedInput \/ Load \/ Free \/ Crash \/ ReplaceFiles
  BY <1>1, <1>2, <1>6 DEF RejectedInput, Load, Free, Crash,
     ReplaceFiles, locals, Fail, Return
<1>7. CASE UNCHANGED vars
  BY <1>2, <1>7 DEF vars, locals
<1> QED BY <1>3, <1>4, <1>5, <1>6, <1>7 DEF Next, InvalidArguments

-----------------------------------------------------------------------------
(***************************************************************************)
(* What the host sees of a saved boundary that is exact.                   *)
(***************************************************************************)
LEMMA SeenCodes ==
  ASSUME NEW b, ExactCodes(b)
  PROVE  MixOf(b.comps, b.codes = RefCodes(b.comps, b.req, Len(b.codes))) = b.comps
  BY DEF MixOf, ExactCodes

LEMMA SeenConditions ==
  ASSUME NEW b, ExactConditions(b)
  PROVE  MixOf(b.comps, b.conditions = RefConditions(b.comps, b.req)) = b.comps
  BY DEF MixOf, ExactConditions

LEMMA SeenFlow ==
  ASSUME NEW b \in PausedFlow, ExactFlow(b)
  PROVE  [mix |-> MixOf(b.comps,
              /\ b.completed = RefLatents(b.comps, b.source.req, b.first)
              /\ b.active = RefEuler(b.comps, b.source.req, b.first + 1, b.second)),
          song |-> b.source.req, windows |-> b.first, steps |-> b.second]
           \in Service!PausedFlows(b.comps, b.source.req)
<1>1. /\ b.first \in Nat /\ b.second \in Nat
      /\ b.source \in CompletedCodes /\ b.comps \in Components
  BY DEF PausedFlow
<1>2. /\ ExactConditions(b.source) /\ b.source.comps = b.comps
      /\ b.first < WindowsIn(b.comps, b.source.req)
      /\ b.second < EulerSteps[b.source.req]
      /\ b.completed = RefLatents(b.comps, b.source.req, b.first)
      /\ b.active = RefEuler(b.comps, b.source.req, b.first + 1, b.second)
  BY DEF ExactFlow, ExactSource
<1>3. /\ b.source.req \in Requests
      /\ WindowsIn(b.comps, b.source.req) \in Nat
  BY <1>1, <1>2, SourceFacts
<1>4. EulerSteps[b.source.req] \in Nat
  BY <1>1, <1>3, AllFrames
<1>5. /\ b.first \in 0 .. WindowsIn(b.comps, b.source.req) - 1
      /\ b.second \in 0 .. EulerSteps[b.source.req] - 1
  BY <1>1, <1>2, <1>3, <1>4
<1>6. MixOf(b.comps,
              /\ b.completed = RefLatents(b.comps, b.source.req, b.first)
              /\ b.active = RefEuler(b.comps, b.source.req, b.first + 1, b.second))
        = b.comps
  BY <1>2 DEF MixOf
<1> QED BY <1>5, <1>6 DEF Service!PausedFlows, RefWindows, RefSteps, WindowsIn

LEMMA SeenLatents ==
  ASSUME NEW b \in CompletedFlow, ExactLatents(b)
  PROVE  MixOf(b.comps, b.completed = RefLatents(b.comps, b.source.req,
                                                 Len(b.source.conditions))) = b.comps
<1>1. b.source \in CompletedCodes
  BY DEF CompletedFlow
<1>2. /\ ExactConditions(b.source) /\ b.source.comps = b.comps
      /\ b.completed = RefLatents(b.comps, b.source.req,
                                  WindowsIn(b.comps, b.source.req))
  BY DEF ExactLatents, ExactSource
<1>3. Len(b.source.conditions) = WindowsIn(b.comps, b.source.req)
  BY <1>1, <1>2, SourceFacts
<1> QED BY <1>2, <1>3 DEF MixOf

-----------------------------------------------------------------------------
(***************************************************************************)
(* A step of the engine is a step of the service, or the host sees none.   *)
(***************************************************************************)
Simulated == [Service!Next]_(Service!vars)

\* What is known when a step that stores a boundary is examined.
Saves(k, out) ==
  /\ StoreOK /\ EngineInv' /\ StoreExact'
  /\ out # None /\ out.kind = k /\ store' = [store EXCEPT ![k] = out]
  /\ HandedOut = None /\ HandedOut' = None

LEMMA Unseen ==
  ASSUME store' = store, HandedOut' \in {None, HandedOut}
  PROVE  Simulated
<1>1. UNCHANGED <<SavedCodes, SavedConditions, SavedFlow, SavedLatents>>
  BY DEF SavedCodes, SavedConditions, SavedFlow, SavedLatents
<1> QED BY <1>1 DEF Simulated, Service!Next, Service!DropAudio, Service!vars

LEMMA SavedNow ==
  ASSUME NEW k \in Kinds, NEW out, Saves(k, out)
  PROVE  /\ store'[k] = out /\ out # None /\ Exact(out)
         /\ k = "COD" => out \in PausedCodes
         /\ k = "CON" => out \in CompletedCodes
         /\ k = "FLW" => out \in PausedFlow
         /\ k = "LAT" => out \in CompletedFlow
         /\ \A j \in Kinds : j # k => store'[j] = store[j]
         /\ HandedOut' = HandedOut
<1>1. store'[k] = out /\ \A j \in Kinds : j # k => store'[j] = store[j]
  BY DEF Saves, StoreOK
<1>2. out \in Boundary
  BY <1>1 DEF Saves, EngineInv, TypeOK
<1>3. \A b \in Boundary :
        /\ b.kind = "COD" => b \in PausedCodes
        /\ b.kind = "CON" => b \in CompletedCodes
        /\ b.kind = "FLW" => b \in PausedFlow
        /\ b.kind = "LAT" => b \in CompletedFlow
  BY DEF Boundary, PausedCodes, CompletedCodes, PausedFlow, CompletedFlow
<1>4. Exact(out)
  BY <1>1 DEF Saves, StoreExact
<1> QED BY <1>1, <1>2, <1>3, <1>4 DEF Saves

LEMMA SavesCodes ==
  ASSUME NEW out, Saves("COD", out)
  PROVE  Simulated
<1>1. /\ store'["COD"] = out /\ out # None /\ out \in PausedCodes /\ ExactCodes(out)
      /\ store'["CON"] = store["CON"] /\ store'["FLW"] = store["FLW"]
      /\ store'["LAT"] = store["LAT"] /\ HandedOut' = HandedOut
  BY SavedNow DEF Kinds, Exact, Saves
<1>2. /\ out.comps \in Components /\ out.req \in Requests /\ Len(out.codes) \in Nat
  BY <1>1 DEF PausedCodes
<1>3. Len(out.codes) \in 0 .. RefLength(out.comps, out.req)
  BY <1>1, <1>2, AllFrames DEF ExactCodes
<1>4. SavedCodes' = [mix |-> out.comps, song |-> out.req, frames |-> Len(out.codes)]
  BY <1>1, SeenCodes DEF SavedCodes
<1>5. UNCHANGED <<SavedConditions, SavedFlow, SavedLatents, HandedOut>>
  BY <1>1 DEF SavedConditions, SavedFlow, SavedLatents
<1>6. Service!SaveCodes(out.comps, out.req)
  BY <1>3, <1>4, <1>5 DEF Service!SaveCodes
<1> QED BY <1>2, <1>6 DEF Simulated, Service!Next

LEMMA SavesConditions ==
  ASSUME NEW out, Saves("CON", out)
  PROVE  Simulated
<1>1. /\ store'["CON"] = out /\ out # None /\ out \in CompletedCodes
      /\ ExactConditions(out)
      /\ store'["COD"] = store["COD"] /\ store'["FLW"] = store["FLW"]
      /\ store'["LAT"] = store["LAT"] /\ HandedOut' = HandedOut
  BY SavedNow DEF Kinds, Exact, Saves
<1>2. /\ out.comps \in Components /\ out.req \in Requests
  BY <1>1 DEF CompletedCodes
<1>3. RefLength(out.comps, out.req) > 1
  BY <1>1, <1>2, AllFrames DEF ExactConditions, RefGenerated, Greatest
<1>4. SavedConditions' = Service!Whole(out.comps, out.req)
  BY <1>1, SeenConditions DEF SavedConditions, Service!Whole
<1>5. UNCHANGED <<SavedCodes, SavedFlow, SavedLatents, HandedOut>>
  BY <1>1 DEF SavedCodes, SavedFlow, SavedLatents
<1>6. Service!SaveConditions(out.comps, out.req)
  BY <1>3, <1>4, <1>5 DEF Service!SaveConditions
<1> QED BY <1>2, <1>6 DEF Simulated, Service!Next

LEMMA SavesFlow ==
  ASSUME NEW out, Saves("FLW", out), Service!Diffusible(out.comps, out.source.req)
  PROVE  Simulated
<1>1. /\ store'["FLW"] = out /\ out # None /\ out \in PausedFlow /\ ExactFlow(out)
      /\ store'["COD"] = store["COD"] /\ store'["CON"] = store["CON"]
      /\ store'["LAT"] = store["LAT"] /\ HandedOut' = HandedOut
  BY SavedNow DEF Kinds, Exact, Saves
<1>2. out.comps \in Components /\ out.source.req \in Requests
  <2>1. out.comps \in Components /\ out.source \in CompletedCodes
    BY <1>1 DEF PausedFlow
  <2> QED BY <2>1 DEF CompletedCodes
<1>3. SavedFlow' \in Service!PausedFlows(out.comps, out.source.req)
  BY <1>1, SeenFlow DEF SavedFlow
<1>4. UNCHANGED <<SavedCodes, SavedConditions, SavedLatents, HandedOut>>
  BY <1>1 DEF SavedCodes, SavedConditions, SavedLatents
<1>5. Service!SaveFlow(out.comps, out.source.req)
  BY <1>3, <1>4 DEF Service!SaveFlow
<1> QED BY <1>2, <1>5 DEF Simulated, Service!Next

LEMMA SavesLatents ==
  ASSUME NEW out, Saves("LAT", out), Service!Diffusible(out.comps, out.source.req)
  PROVE  Simulated
<1>1. /\ store'["LAT"] = out /\ out # None /\ out \in CompletedFlow /\ ExactLatents(out)
      /\ store'["COD"] = store["COD"] /\ store'["CON"] = store["CON"]
      /\ store'["FLW"] = store["FLW"] /\ HandedOut' = HandedOut
  BY SavedNow DEF Kinds, Exact, Saves
<1>2. out.comps \in Components /\ out.source.req \in Requests
  <2>1. out.comps \in Components /\ out.source \in CompletedCodes
    BY <1>1 DEF CompletedFlow
  <2> QED BY <2>1 DEF CompletedCodes
<1>3. SavedLatents' = Service!Whole(out.comps, out.source.req)
  BY <1>1, SeenLatents DEF SavedLatents, Service!Whole
<1>4. UNCHANGED <<SavedCodes, SavedConditions, SavedFlow, HandedOut>>
  BY <1>1 DEF SavedCodes, SavedConditions, SavedFlow
<1>5. Service!SaveLatents(out.comps, out.source.req)
  BY <1>3, <1>4 DEF Service!SaveLatents
<1> QED BY <1>2, <1>5 DEF Simulated, Service!Next

-----------------------------------------------------------------------------
\* The boundary a DIFFUSE call was given makes its song diffusible,
LEMMA FlowDiffusible ==
  ASSUME Before, HeldInv, pc = "flow"
  PROVE  Service!Diffusible(disk, flow.source.req)
<1> DEFINE b == flow.input
<1>1. /\ EngineInv /\ StoreOK /\ StoreExact /\ HeldFlow(flow)
      /\ flow.source.comps = disk
  BY EngineFacts DEF Before, ExactInv, CallExact, FlowExact, HeldInv
<1>2. b \in CompletedCodes \cup PausedFlow
  BY <1>1, FlowFacts DEF FlowState
<1>3. b # None
  BY <1>2, NoneAssumption DEF Boundary
<1>4. CASE b.kind = "CON"
  <2>1. store["CON"] = b /\ flow.source = b /\ ExactConditions(b)
    BY <1>1, <1>3, <1>4, StoredExact DEF HeldFlow
  <2>2. SavedConditions = Service!Whole(b.comps, b.req)
    BY <1>3, <2>1, SeenConditions DEF SavedConditions, Service!Whole
  <2> QED BY <1>1, <2>1, <2>2 DEF Service!Diffusible
<1>5. CASE b.kind = "FLW"
  <2>1. /\ store["FLW"] = b /\ flow.source = b.source /\ ExactFlow(b)
        /\ b \in PausedFlow
    BY <1>1, <1>3, <1>5, StoredExact, EngineFacts DEF HeldFlow
  <2>2. b.source.comps = b.comps
    BY <2>1 DEF ExactFlow, ExactSource
  <2>3. SavedFlow \in Service!PausedFlows(b.comps, b.source.req)
    BY <1>3, <2>1, SeenFlow DEF SavedFlow
  <2> QED BY <1>1, <2>1, <2>2, <2>3 DEF Service!Diffusible
<1> QED BY <1>1, <1>4, <1>5 DEF HeldFlow

\* and the latents a DECODE call was given are still in hand when it delivers.
LEMMA SingsSimulated ==
  ASSUME Before, HeldInv, ExactInv', Sings
  PROVE  Simulated
<1> DEFINE b == decode.input
           r == b.source.req
<1>1. /\ EngineInv /\ pc = "decode" /\ store["LAT"] = b /\ ExactLatents(b)
      /\ b.comps = disk /\ store' = store
  BY DEF Before, ExactInv, CallExact, DecodeExact, HeldInv, Sings, CompleteDecode,
         Return
<1>2. b \in CompletedFlow /\ b # None /\ b.source \in CompletedCodes /\ disk \in Components
  BY <1>1, DecodeFacts, EngineFacts, NoneAssumption DEF Boundary
<1>3. r \in Requests
  BY <1>2 DEF CompletedCodes
<1>4. SavedLatents = Service!Whole(disk, r)
  BY <1>1, <1>2, SeenLatents DEF SavedLatents, Service!Whole
<1>5. UNCHANGED <<SavedCodes, SavedConditions, SavedFlow, SavedLatents>>
  BY <1>1 DEF SavedCodes, SavedConditions, SavedFlow, SavedLatents
<1>6. CASE HandedOut' = None
  BY <1>1, <1>6, Unseen
<1>7. CASE HandedOut' # None
  <2>1. ctx' # None /\ ctx'.audio # None
    BY <1>7 DEF HandedOut
  <2>2. ctx'.audio.pieces = RefSong(ctx'.identities, ctx'.audio.req)
    BY <2>1 DEF ExactInv, SongExact
  <2>3. ctx'.identities = disk /\ ctx'.audio.req = r
    <3>1. ctx \in Context /\ ctx.identities = disk
      BY <1>1, DecodeFacts, DecodeKnown
    <3>2. ctx' = [ctx EXCEPT !.audio = [req |-> r, pieces |-> decode.pieces]]
      BY DEF Sings
    <3> QED BY <3>1, <3>2 DEF Context
  <2>4. HandedOut' = Service!Whole(disk, r)
    BY <2>1, <2>2, <2>3 DEF HandedOut, MixOf, Service!Whole
  <2>5. Service!Deliver(disk, r)
    BY <1>4, <1>5, <2>4 DEF Service!Deliver
  <2> QED BY <1>2, <1>3, <2>5 DEF Simulated, Service!Next
<1> QED BY <1>6, <1>7

-----------------------------------------------------------------------------
(***************************************************************************)
(* The stages: what a call may store, and that a call in progress has no   *)
(* song to show.                                                           *)
(***************************************************************************)
LEMMA NothingShown ==
  ASSUME EngineInv, AudioInv, StageCodes \/ StageDiffuse \/ StageDecode
  PROVE  /\ pc # "idle" => HandedOut = None
         /\ Sings \/ HandedOut' = None
<1>1. pc # "idle" => HandedOut = None
  BY DEF AudioInv, Holding, HandedOut
<1>2. ctx'.audio = None => HandedOut' = None
  BY DEF HandedOut
<1> QED BY <1>1, <1>2, StageQuiet

\* What a call emits is stored, or nothing is.
LEMMA EmitStores ==
  ASSUME NEW stage, NEW status, NEW error, NEW out, Emit(stage, status, error, out)
  PROVE  store' = store \/ (out # None /\ store' = [store EXCEPT ![out.kind] = out])
  BY DEF Emit, Fail, Return

LEMMA CodesSimulated ==
  ASSUME Before, After, ExactInv', StageCodes
  PROVE  Simulated
<1>1. EngineInv /\ AudioInv /\ StoreOK /\ EngineInv' /\ StoreExact'
  BY EngineFacts DEF Before, After, ExactInv
<1>2. /\ pc # "idle" => HandedOut = None
      /\ HandedOut' = None
  BY <1>1, NothingShown DEF Sings, CompleteDecode, StageCodes, CodesCall, StartCodes,
     ResumeCodes, CodesStep, CodesInterrupted, ReplayFrame, SampleFrame, SampleEos,
     FinishAr, BeginProjection, ProjectWindow, CompleteCodes, Projecting, PauseAr,
     ArFault, PauseProjection, ProjectionFault
<1>3. CASE PauseAr \/ PauseProjection
  <2> DEFINE out == PausedCodesBoundary
  <2>1. pc # "idle" /\ Emit("CODES", "PAUSED", "CANCEL", out)
    BY <1>3 DEF PauseAr, PauseProjection, Projecting
  <2>2. out.kind = "COD"
    BY DEF PausedCodesBoundary
  <2> HIDE DEF out
  <2>3. CASE store' = store
    BY <1>2, <2>3, Unseen
  <2>4. CASE out # None /\ store' = [store EXCEPT ![out.kind] = out]
    BY <1>1, <1>2, <2>1, <2>2, <2>4, SavesCodes DEF Saves
  <2> QED BY <2>1, <2>3, <2>4, EmitStores
<1>4. CASE CompleteCodes
  <2> DEFINE out == CompletedCodesBoundary
  <2>1. pc # "idle" /\ Emit("CODES", "DONE", "OK", out)
    BY <1>4 DEF CompleteCodes, Projecting
  <2>2. out.kind = "CON"
    BY DEF CompletedCodesBoundary
  <2> HIDE DEF out
  <2>3. CASE store' = store
    BY <1>2, <2>3, Unseen
  <2>4. CASE out # None /\ store' = [store EXCEPT ![out.kind] = out]
    BY <1>1, <1>2, <2>1, <2>2, <2>4, SavesConditions DEF Saves
  <2> QED BY <2>1, <2>3, <2>4, EmitStores
<1>5. CASE \/ CodesCall \/ ReplayFrame \/ SampleFrame \/ SampleEos \/ FinishAr
           \/ BeginProjection \/ ProjectWindow \/ ArFault \/ ProjectionFault
  <2>1. store' = store
    BY <1>5 DEF CodesCall, StartCodes, ResumeCodes, BeginAr, EnterLease, LeaseFails,
       EnsureFails, RefuseBoundary, ReplayFrame, SampleFrame, KeepFrame, SampleEos,
       FinishAr, BeginProjection, ProjectWindow, ArFault, ProjectionFault,
       LeasedFault, Fail, Return
  <2> QED BY <1>2, <2>1, Unseen
<1> QED BY <1>3, <1>4, <1>5 DEF StageCodes, CodesStep, CodesInterrupted

LEMMA DiffuseSimulated ==
  ASSUME Before, After, ExactInv', HeldInv, StageDiffuse
  PROVE  Simulated
<1>1. EngineInv /\ AudioInv /\ StoreOK /\ EngineInv' /\ StoreExact'
  BY EngineFacts DEF Before, After, ExactInv
<1>2. /\ pc # "idle" => HandedOut = None
      /\ HandedOut' = None
  BY <1>1, NothingShown DEF Sings, CompleteDecode, StageDiffuse, DiffuseCall,
     StartDiffuse, ResumeDiffuse, CallDiffuse, DiffuseStep, DiffuseInterrupted,
     EulerStep, Denoising, FinishWindow, CompleteFlow, PauseFlow, FlowFault
<1>3. CASE PauseFlow
  <2> DEFINE out == PausedFlowBoundary
  <2>1. pc = "flow" /\ Emit("DIFFUSE", "PAUSED", "CANCEL", out)
    BY <1>3 DEF PauseFlow, Denoising
  <2>2. out.kind = "FLW" /\ out.comps = ctx.identities /\ out.source = flow.source
    BY DEF PausedFlowBoundary
  <2> HIDE DEF out
  <2>3. Service!Diffusible(out.comps, out.source.req)
    BY <2>1, <2>2, FlowKnown, FlowDiffusible
  <2>4. CASE store' = store
    BY <1>2, <2>4, Unseen
  <2>5. CASE out # None /\ store' = [store EXCEPT ![out.kind] = out]
    BY <1>1, <1>2, <2>1, <2>2, <2>3, <2>5, SavesFlow DEF Saves
  <2> QED BY <2>1, <2>4, <2>5, EmitStores
<1>4. CASE CompleteFlow
  <2> DEFINE out == CompletedFlowBoundary(FinishedWindows)
  <2>1. pc = "flow" /\ Emit("DIFFUSE", "DONE", "OK", out)
    BY <1>4 DEF CompleteFlow
  <2>2. out.kind = "LAT" /\ out.comps = ctx.identities /\ out.source = flow.source
    BY DEF CompletedFlowBoundary
  <2> HIDE DEF out
  <2>3. Service!Diffusible(out.comps, out.source.req)
    BY <2>1, <2>2, FlowKnown, FlowDiffusible
  <2>4. CASE store' = store
    BY <1>2, <2>4, Unseen
  <2>5. CASE out # None /\ store' = [store EXCEPT ![out.kind] = out]
    BY <1>1, <1>2, <2>1, <2>2, <2>3, <2>5, SavesLatents DEF Saves
  <2> QED BY <2>1, <2>4, <2>5, EmitStores
<1>5. CASE DiffuseCall \/ EulerStep \/ FinishWindow \/ FlowFault
  <2>1. store' = store
    BY <1>5 DEF DiffuseCall, StartDiffuse, ResumeDiffuse, CallDiffuse, EnterLease,
       LeaseFails, EnsureFails, RefuseBoundary, EulerStep, FinishWindow, FlowFault,
       LeasedFault, Fail, Return
  <2> QED BY <1>2, <2>1, Unseen
<1> QED BY <1>3, <1>4, <1>5 DEF StageDiffuse, DiffuseStep, DiffuseInterrupted

LEMMA DecodeSimulated ==
  ASSUME Before, ExactInv', HeldInv, StageDecode
  PROVE  Simulated
<1>1. store' = store
  BY DEF StageDecode, StartDecode, DecodeStep, DecodeWindow, CompleteDecode,
     DecodeInterrupted, PauseDecode, DecodeFault, EnterLease, LeaseFails,
     EnsureFails, RefuseBoundary, LeasedFault, Fail, Return
<1>2. Sings \/ HandedOut' = None
  BY NothingShown DEF Before
<1> QED BY <1>1, <1>2, SingsSimulated, Unseen

LEMMA HostSimulated ==
  ASSUME EngineInv,
         \/ RejectedInput \/ Load \/ Free \/ Crash \/ ReplaceFiles
  PROVE  Simulated
<1>1. HandedOut' \in {None, HandedOut}
  <2>1. ctx' = None \/ ctx'.audio = None \/ ctx' = ctx
    BY HostQuiet
  <2> QED BY <2>1 DEF HandedOut
<1>2. store' = store
  BY DEF RejectedInput, Load, Free, Crash, ReplaceFiles, Fail, Return
<1> QED BY <1>1, <1>2, Unseen

LEMMA InitSimulated ==
  ASSUME Init
  PROVE  Service!Init
  BY DEF Init, NoBoundaries, Kinds, Service!Init, SavedCodes, SavedConditions,
     SavedFlow, SavedLatents, HandedOut

LEMMA NextSimulated ==
  ASSUME FilesStay, EngineInv, MixInv, AudioInv, ExactInv, HeldInv, [Next]_vars
  PROVE  Simulated
<1>1. Before /\ ExactInv'
  BY ExactNext DEF Before
<1>2. CASE StageCodes \/ StageDiffuse \/ StageDecode
  <2>1. After
    <3>1. disk' = disk
      BY <1>2 DEF StageCodes, StageDiffuse, StageDecode
    <3> QED BY <3>1, NextInv, MixNext DEF After
  <2> QED BY <1>1, <1>2, <2>1, CodesSimulated, DiffuseSimulated, DecodeSimulated
<1>3. CASE \/ RejectedInput \/ Load \/ Free \/ Crash \/ ReplaceFiles
  BY <1>3, HostSimulated
<1>4. CASE UNCHANGED vars
  BY <1>4, Unseen DEF vars, HandedOut
<1> QED BY <1>2, <1>3, <1>4 DEF Next, InvalidArguments

(***************************************************************************)
(* Whatever is cancelled, fails or crashes, to the host every step of the  *)
(* engine is a step of the song service or none, as long as nobody         *)
(* replaces files under a live context.                                    *)
(***************************************************************************)
THEOREM EngineImplementsService ==
  ASSUME FilesStay
  PROVE  Spec => ImplementsSongService
<1>1. Init => MixInv /\ AudioInv /\ ExactInv /\ HeldInv /\ Service!Init
  BY MixInit, ExactInit, InitSimulated DEF Init, AudioInv, Holding, HeldInv
<1>2. EngineInv /\ MixInv /\ AudioInv /\ ExactInv /\ HeldInv /\ [Next]_vars
        => MixInv' /\ AudioInv' /\ ExactInv' /\ HeldInv'
  BY MixNext, AudioNext, ExactNext, HeldNext
<1>3. EngineInv /\ MixInv /\ AudioInv /\ ExactInv /\ HeldInv /\ [Next]_vars
        => [Service!Next]_(Service!vars)
  BY NextSimulated DEF Simulated
<1> QED BY <1>1, <1>2, <1>3, Inductive, PTL
        DEF Spec, ImplementsSongService, Service!Spec
=============================================================================
