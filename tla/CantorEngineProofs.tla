------------------------- MODULE CantorEngineProofs -------------------------
(***************************************************************************)
(* The engine keeps its types and its memory promises, hands out a song    *)
(* only right after the DECODE that made it, and never moves a resumed     *)
(* flow back, for every set of component mixes and requests, every window  *)
(* geometry and every schedule.                                            *)
(*                                                                         *)
(* EngineInv conjoins the types, the program counter with the locals it    *)
(* implies (CallInv), and where runtimes and graphs are (ResidencyInv).    *)
(* First what each way of entering and leaving a call does to it, then the *)
(* stages, the host, and the theorems; the song and the flow follow.       *)
(***************************************************************************)
EXTENDS CantorEngine, BoundariesProofs

StoreOK ==
  /\ store \in [Kinds -> Boundary \cup {None}]
  /\ \A k \in Kinds : store[k] # None => store[k].kind = k

(***************************************************************************)
(* The locals of the call in progress.  The flow loop always has a window  *)
(* left, and the projection at least one hidden state.                     *)
(***************************************************************************)
CallInv ==
  /\ pc # "idle" => ctx \in Context /\ ctx.identities \in Components
  /\ pc \in {"ar", "arDone", "project"} => ar \in ArState
  /\ pc = "project" => Len(ar.hiddens) # 0
  /\ pc = "flow" =>
       /\ flow \in FlowState
       /\ Len(flow.completed) < Len(flow.source.conditions)
  /\ pc = "decode" => decode \in DecodeState

(***************************************************************************)
(* Graphs exist exactly while their module is leased, and then its runtime *)
(* does too; a context that does not keep weights has no other runtime.    *)
(***************************************************************************)
Leased(m) == graphs = {m} /\ runtime[m] \in Components

ResidencyInv ==
  /\ pc = "idle" => graphs = {}
  /\ pc \in {"ar", "arDone"} => Leased("ar")
  /\ pc = "project" => graphs = {} \/ Leased("condition")
  /\ pc = "flow" => Leased("flow")
  /\ pc = "decode" => Leased("vocoder")
  /\ ctx = None => \A m \in Modules : runtime[m] = None
  /\ ctx # None /\ ~ctx.keep =>
       \A m \in Modules : runtime[m] # None => m \in graphs

EngineInv == TypeOK /\ CallInv /\ ResidencyInv

-----------------------------------------------------------------------------
(***************************************************************************)
(* How a call ends: idle, with a typed outcome and typed boundaries.       *)
(***************************************************************************)
LEMMA ReturnTyped ==
  ASSUME StoreOK, NEW stage \in Stages, NEW status \in Statuses,
         NEW error \in Errors, NEW out \in Boundary \cup {None},
         Return(stage, status, error, out)
  PROVE  pc' = "idle" /\ ret' \in Outcome \cup {None} /\ StoreOK'
<1>1. out # None => out.kind \in Kinds
  BY DEF Boundary, PausedCodes, CompletedCodes, PausedFlow, CompletedFlow, Kinds
<1>2. ret' \in Outcome
  BY <1>1 DEF Return, Outcome
<1>3. StoreOK'
  BY <1>1 DEF StoreOK, Return
<1> QED BY <1>2, <1>3 DEF Return

LEMMA FailTyped ==
  ASSUME StoreOK, NEW stage \in Stages, NEW error \in Errors, Fail(stage, error)
  PROVE  pc' = "idle" /\ ret' \in Outcome \cup {None} /\ StoreOK' /\ store' = store
<1>1. Return(stage, "ERR", error, None)
  BY DEF Fail
<1>2. "ERR" \in Statuses
  BY DEF Statuses
<1> QED BY <1>1, <1>2, ReturnTyped DEF Return

LEMMA ComputeErrorsTyped == ComputeErrors \subseteq Errors
  BY OptionsAssumption DEF Errors

LEMMA EmitTyped ==
  ASSUME StoreOK, NEW stage \in Stages, NEW status \in Statuses,
         NEW error \in Errors, NEW out \in Boundary,
         Emit(stage, status, error, out)
  PROVE  pc' = "idle" /\ ret' \in Outcome \cup {None} /\ StoreOK'
  BY ReturnTyped, FailTyped, ComputeErrorsTyped DEF Emit

(***************************************************************************)
(* Leases: what each operation leaves in the slots.                        *)
(***************************************************************************)
RuntimeOK == runtime \in [Modules -> Components \cup {None}]

LEMMA BytesTyped ==
  ASSUME NEW c \in Context, disk \in Components, NEW m \in Modules
  PROVE  BytesOf(c, m) \in Components
  BY DEF BytesOf, Context

\* Recording what is mapped for m leaves a context a context.
LEMMA OpenedTyped ==
  ASSUME NEW c \in Context, NEW m \in Modules, NEW bytes \in Components \cup {None}
  PROVE  /\ [c EXCEPT !.opened[m] = bytes] \in Context
         /\ [c EXCEPT !.opened[m] = bytes].keep = c.keep
         /\ [c EXCEPT !.opened[m] = bytes].identities = c.identities
  BY DEF Context

LEMMA LeaseEffect ==
  ASSUME RuntimeOK, disk \in Components, graphs = {}, NEW m \in Modules,
         NEW c \in Context, Lease(c, m),
         ~c.keep => \A n \in Modules : runtime[n] # None => n \in graphs
  PROVE  /\ RuntimeOK'
         /\ graphs' = {m}
         /\ runtime'[m] \in Components
         /\ ~c.keep => \A n \in Modules : runtime'[n] # None => n = m
         /\ ctx' \in Context /\ ctx'.keep = c.keep
         /\ ctx'.identities = c.identities
<1>1. BytesOf(c, m) \in Components
  BY BytesTyped
<1>2. graphs' = {m}
  BY DEF Lease
<1>3. CASE /\ runtime[m] = None
           /\ runtime' = [runtime EXCEPT ![m] = BytesOf(c, m)]
           /\ ctx' = [c EXCEPT !.opened[m] = None]
  BY <1>1, <1>2, <1>3, OpenedTyped DEF RuntimeOK
<1>4. CASE runtime[m] # None /\ ctx' = c /\ UNCHANGED runtime
  BY <1>2, <1>4 DEF RuntimeOK
<1> QED BY <1>3, <1>4 DEF Lease

LEMMA FinishEffect ==
  ASSUME RuntimeOK, NEW m \in Modules, graphs = {m}, FinishLease(m),
         ~ctx.keep => \A n \in Modules : runtime[n] # None => n \in graphs
  PROVE  /\ RuntimeOK'
         /\ graphs' = {}
         /\ ~ctx.keep => \A n \in Modules : runtime'[n] = None
  BY DEF FinishLease, RuntimeOK

LEMMA UnwindEffect ==
  ASSUME RuntimeOK, NEW m \in Modules, graphs = {m}, UnwindLease(m),
         ~ctx.keep => \A n \in Modules : runtime[n] # None => n \in graphs
  PROVE  /\ RuntimeOK'
         /\ graphs' = {}
         /\ ~ctx.keep => \A n \in Modules : runtime'[n] = None
  BY DEF UnwindLease, RuntimeOK

(***************************************************************************)
(* ensure_components leaves a context a context, with the same options.    *)
(***************************************************************************)
LEMMA EnsuredTyped ==
  ASSUME NEW c \in Context, disk \in Components,
         NEW reached \in {"hash", "assets", "backend", "ready"}
  PROVE  /\ Ensured(c, reached) \in Context
         /\ Ensured(c, reached).keep = c.keep
         /\ reached # "hash" => Ensured(c, reached).identities \in Components
<1>1. Opened \in [Modules -> Components \cup {None}]
  BY DEF Opened, Recorded
<1> QED BY <1>1 DEF Ensured, Context

LEMMA EnteredTyped ==
  ASSUME NEW c \in Context
  PROVE  Entered(c) \in Context /\ Entered(c).keep = c.keep
  BY DEF Entered, Context

-----------------------------------------------------------------------------
(***************************************************************************)
(* The ways a step can end, once for all stages.  LocalsOK types the       *)
(* locals whatever the program counter is.                                 *)
(***************************************************************************)
LocalsOK ==
  /\ ar \in ArState \cup {None}
  /\ flow \in FlowState \cup {None}
  /\ decode \in DecodeState \cup {None}

LEMMA IdleInv ==
  ASSUME disk' \in Components, ctx' \in Context \cup {None}, RuntimeOK',
         graphs' = {}, pc' = "idle", ret' \in Outcome \cup {None}, StoreOK',
         LocalsOK',
         ctx' = None => \A m \in Modules : runtime'[m] = None,
         ctx' # None /\ ~ctx'.keep => \A m \in Modules : runtime'[m] = None
  PROVE  EngineInv'
  BY DEF EngineInv, TypeOK, CallInv, ResidencyInv, RuntimeOK, StoreOK, LocalsOK

\* A call that is refused before it leases anything.
LEMMA RefusedInv ==
  ASSUME EngineInv, pc = "idle", ctx # None, ctx' \in Context, ctx'.keep = ctx.keep,
         NEW stage \in Stages, NEW error \in Errors, Fail(stage, error),
         UNCHANGED <<disk, runtime, graphs, ar, flow, decode>>
  PROVE  EngineInv'
<1>1. StoreOK /\ RuntimeOK /\ LocalsOK /\ disk \in Components /\ graphs = {}
  BY DEF EngineInv, TypeOK, StoreOK, RuntimeOK, LocalsOK, ResidencyInv
<1>2. pc' = "idle" /\ ret' \in Outcome \cup {None} /\ StoreOK'
  BY <1>1, FailTyped
<1>3. ~ctx.keep => \A m \in Modules : runtime[m] = None
  BY <1>1 DEF EngineInv, ResidencyInv
<1>4. RuntimeOK' /\ LocalsOK' /\ graphs' = {} /\ disk' \in Components
  BY <1>1 DEF RuntimeOK, LocalsOK
<1>5. ctx' # None
  BY NoneAssumption
<1> QED BY <1>2, <1>3, <1>4, <1>5, IdleInv

\* A call that got as far as leasing module m.
LEMMA EnteredInv ==
  ASSUME EngineInv, pc = "idle", ctx # None, NEW c \in Context, c.keep = ctx.keep,
         c.identities \in Components,
         NEW m \in Modules, NEW next, EnterLease(c, m, next)
  PROVE  /\ RuntimeOK' /\ StoreOK' /\ Leased(m)'
         /\ ret' = None /\ pc' = next
         /\ ctx' \in Context /\ ctx'.identities \in Components
         /\ ctx' # None
         /\ ~ctx'.keep => \A n \in Modules : runtime'[n] # None => n \in graphs'
<1>1. StoreOK /\ RuntimeOK /\ disk \in Components /\ graphs = {}
  BY DEF EngineInv, TypeOK, StoreOK, RuntimeOK, ResidencyInv
<1>2. Lease(c, m) /\ pc' = next /\ ret' = None /\ store' = store
  BY DEF EnterLease
<1>3. ~c.keep => \A n \in Modules : runtime[n] # None => n \in graphs
  BY DEF EngineInv, ResidencyInv
<1>4. /\ RuntimeOK' /\ graphs' = {m} /\ runtime'[m] \in Components
      /\ ~c.keep => \A n \in Modules : runtime'[n] # None => n = m
      /\ ctx' \in Context /\ ctx'.keep = c.keep /\ ctx'.identities = c.identities
  <2> HIDE DEF Lease
  <2> QED BY <1>1, <1>2, <1>3, LeaseEffect
<1>5. StoreOK'
  BY <1>1, <1>2 DEF StoreOK
<1> QED BY <1>2, <1>4, <1>5, NoneAssumption DEF Leased

\* A call that gives up its lease of module m and returns, whatever it returns.
LEMMA ReturnedInv ==
  ASSUME EngineInv, pc # "idle", ctx' \in Context, ctx'.keep = ctx.keep,
         NEW m \in Modules, graphs = {m}, FinishLease(m) \/ UnwindLease(m),
         pc' = "idle", ret' \in Outcome \cup {None}, StoreOK', LocalsOK',
         disk' = disk
  PROVE  EngineInv'
<1>1. RuntimeOK /\ disk \in Components /\ ctx \in Context /\ ctx # None
  BY NoneAssumption DEF EngineInv, TypeOK, RuntimeOK, CallInv
<1>2. ~ctx.keep => \A n \in Modules : runtime[n] # None => n \in graphs
  BY <1>1 DEF EngineInv, ResidencyInv
<1>3. /\ RuntimeOK' /\ graphs' = {}
      /\ ~ctx.keep => \A n \in Modules : runtime'[n] = None
  BY <1>1, <1>2, FinishEffect, UnwindEffect
<1>4. ctx' # None
  BY NoneAssumption
<1> QED BY <1>1, <1>3, <1>4, IdleInv

\* A step of a loop: only the locals of the stage change.
LEMMA LoopInv ==
  ASSUME EngineInv, UNCHANGED <<disk, ctx, runtime, graphs, pc, ret, store>>,
         LocalsOK',
         pc \in {"ar", "arDone", "project"} => ar' \in ArState,
         pc = "project" => Len(ar'.hiddens) # 0,
         pc = "flow" => /\ flow' \in FlowState
                        /\ Len(flow'.completed) < Len(flow'.source.conditions),
         pc = "decode" => decode' \in DecodeState
  PROVE  EngineInv'
<1>1. TypeOK'
  BY DEF EngineInv, TypeOK, LocalsOK
<1>2. CallInv'
  BY DEF EngineInv, CallInv
<1>3. ResidencyInv'
  BY DEF EngineInv, ResidencyInv, Leased
<1> QED BY <1>1, <1>2, <1>3 DEF EngineInv

-----------------------------------------------------------------------------
(***************************************************************************)
(* Facts every stage uses of a state that satisfies EngineInv.             *)
(***************************************************************************)
LEMMA EngineFacts ==
  ASSUME EngineInv
  PROVE  /\ StoreOK /\ RuntimeOK /\ LocalsOK /\ disk \in Components
         /\ ctx # None => ctx \in Context
         /\ pc # "idle" => ctx \in Context /\ ctx # None
         /\ pc = "idle" => graphs = {}
         /\ store["COD"] # None => store["COD"] \in PausedCodes
         /\ store["CON"] # None => store["CON"] \in CompletedCodes
         /\ store["FLW"] # None => store["FLW"] \in PausedFlow
         /\ store["LAT"] # None => store["LAT"] \in CompletedFlow
<1>1. StoreOK /\ RuntimeOK /\ LocalsOK /\ disk \in Components
  BY DEF EngineInv, TypeOK, StoreOK, RuntimeOK, LocalsOK
<1>2. /\ ctx # None => ctx \in Context
      /\ pc # "idle" => ctx \in Context /\ ctx # None
  BY NoneAssumption DEF EngineInv, TypeOK, CallInv
<1>3. pc = "idle" => graphs = {}
  BY DEF EngineInv, ResidencyInv
<1>4. ASSUME NEW k \in Kinds, store[k] # None
      PROVE  store[k] \in Boundary /\ store[k].kind = k
  BY <1>1, <1>4 DEF StoreOK
<1>5. \A b \in Boundary :
        /\ b.kind = "COD" => b \in PausedCodes
        /\ b.kind = "CON" => b \in CompletedCodes
        /\ b.kind = "FLW" => b \in PausedFlow
        /\ b.kind = "LAT" => b \in CompletedFlow
  BY DEF Boundary, PausedCodes, CompletedCodes, PausedFlow, CompletedFlow
<1> QED BY <1>1, <1>2, <1>3, <1>4, <1>5 DEF Kinds

LEMMA EnsureFailsInv ==
  ASSUME EngineInv, pc = "idle", ctx # None,
         NEW entered \in Context, entered.keep = ctx.keep,
         NEW stage \in Stages, EnsureFails(stage, entered),
         UNCHANGED <<disk, ar, flow, decode>>
  PROVE  EngineInv'
<1>1. PICK at \in {"hash", "assets", "backend"} :
        /\ ctx' = Ensured(entered, at)
        /\ Fail(stage, IF at = "backend" THEN "BACKEND" ELSE "MODEL")
        /\ UNCHANGED <<runtime, graphs>>
  BY DEF EnsureFails
<1>2. ctx' \in Context /\ ctx'.keep = ctx.keep
  BY <1>1, EnsuredTyped, EngineFacts
<1>3. (IF at = "backend" THEN "BACKEND" ELSE "MODEL") \in Errors
  BY DEF Errors
<1> QED BY <1>1, <1>2, <1>3, RefusedInv

LEMMA RefuseBoundaryInv ==
  ASSUME EngineInv, pc = "idle", ctx # None, ctx' \in Context, ctx'.keep = ctx.keep,
         NEW stage \in Stages, NEW sameMix, RefuseBoundary(stage, sameMix),
         UNCHANGED <<disk, ar, flow, decode>>
  PROVE  EngineInv'
<1>1. (IF sameMix THEN "OTHER" ELSE "MODEL") \in Errors
  BY DEF Errors
<1> QED BY <1>1, RefusedInv DEF RefuseBoundary

LEMMA LeaseFailsCtx ==
  ASSUME NEW c \in Context, disk \in Components, NEW stage, NEW m \in Modules,
         LeaseFails(c, stage, m)
  PROVE  ctx' \in Context /\ ctx'.keep = c.keep
<1>1. PICK bytes \in {None, Recorded(BytesOf(c, m))} :
        ctx' = [c EXCEPT !.opened[m] = bytes]
  BY DEF LeaseFails
<1>2. bytes \in Components \cup {None}
  BY BytesTyped DEF Recorded
<1> QED BY <1>1, <1>2, OpenedTyped

LEMMA LeaseFailsInv ==
  ASSUME EngineInv, pc = "idle", ctx # None, NEW c \in Context, c.keep = ctx.keep,
         NEW stage \in Stages, NEW m \in Modules, LeaseFails(c, stage, m),
         UNCHANGED <<disk, ar, flow, decode>>
  PROVE  EngineInv'
<1>1. PICK e \in ComputeErrors : Fail(stage, e)
  BY DEF LeaseFails
<1>2. ctx' \in Context /\ ctx'.keep = ctx.keep
  BY LeaseFailsCtx, EngineFacts
<1>3. UNCHANGED <<runtime, graphs>>
  BY DEF LeaseFails
<1> QED BY <1>1, <1>2, <1>3, RefusedInv, ComputeErrorsTyped

\* Every way a call under lease of m ends that leaves the context as it is.
LEMMA StageReturnInv ==
  ASSUME EngineInv, pc # "idle", NEW m \in Modules, graphs = {m},
         FinishLease(m) \/ UnwindLease(m), NEW stage \in Stages,
         \/ \E out \in Boundary, status \in Statuses, error \in Errors :
              Emit(stage, status, error, out)
         \/ \E error \in Errors : Fail(stage, error),
         ar' \in {ar, None}, flow' \in {flow, None}, decode' \in {decode, None},
         UNCHANGED <<disk, ctx>>
  PROVE  EngineInv'
<1>1. pc' = "idle" /\ ret' \in Outcome \cup {None} /\ StoreOK'
  BY EngineFacts, EmitTyped, FailTyped
<1>2. LocalsOK' /\ ctx' \in Context
  BY EngineFacts DEF LocalsOK
<1> QED BY <1>1, <1>2, ReturnedInv

-----------------------------------------------------------------------------
(***************************************************************************)
(* CODES.                                                                  *)
(***************************************************************************)
LEMMA BeginArInv ==
  ASSUME EngineInv, pc = "idle", ctx # None, NEW c \in Context, c.keep = ctx.keep,
         c.identities \in Components,
         NEW r \in Requests, NEW replay \in Seq(CodeFrame), BeginAr(c, r, replay),
         UNCHANGED <<disk, flow, decode>>
  PROVE  EngineInv'
<1>1. CASE EnterLease(c, "ar", "ar") /\ ar' = ArStart(r, replay)
  <2>1. "ar" \in Modules
    BY DEF Modules
  <2>2. /\ RuntimeOK' /\ StoreOK' /\ Leased("ar")'
        /\ ret' = None /\ pc' = "ar" /\ ctx' # None
        /\ ctx' \in Context /\ ctx'.identities \in Components
        /\ ~ctx'.keep => \A n \in Modules : runtime'[n] # None => n \in graphs'
    BY <1>1, <2>1, EnteredInv
  <2>3. ar' \in ArState
    <3>1. <<>> \in Seq(CodeFrame) /\ <<>> \in Seq(Hidden) /\ <<>> \in Seq(Condition)
      OBVIOUS
    <3> QED BY <1>1, <3>1 DEF ArStart, ArState
  <2>4. TypeOK'
    BY <2>2, <2>3, EngineFacts DEF TypeOK, RuntimeOK, StoreOK, LocalsOK, Leased, Modules
  <2>5. CallInv'
    BY <2>2, <2>3 DEF CallInv
  <2>6. ResidencyInv'
    BY <2>2 DEF ResidencyInv
  <2> QED BY <2>4, <2>5, <2>6 DEF EngineInv
<1>2. CASE LeaseFails(c, "CODES", "ar") /\ UNCHANGED ar
  BY <1>2, LeaseFailsInv DEF Stages, Modules
<1> QED BY <1>1, <1>2 DEF BeginAr

LEMMA StartCodesInv ==
  ASSUME EngineInv, NEW r \in Requests, StartCodes(r), UNCHANGED <<disk, flow, decode>>
  PROVE  EngineInv'
<1> DEFINE entered == [Entered(ctx) EXCEPT !.duration = r]
<1>1. pc = "idle" /\ ctx # None /\ ctx \in Context /\ disk \in Components
  BY EngineFacts DEF StartCodes
<1>2. entered \in Context /\ entered.keep = ctx.keep
  BY <1>1 DEF Entered, Context
<1> HIDE DEF entered
<1>3. CASE EnsureFails("CODES", entered) /\ UNCHANGED ar
  BY <1>1, <1>2, <1>3, EnsureFailsInv DEF Stages
<1>4. CASE BeginAr(Ensured(entered, "ready"), r, <<>>)
  <2>1. /\ Ensured(entered, "ready") \in Context
        /\ Ensured(entered, "ready").keep = ctx.keep
        /\ Ensured(entered, "ready").identities \in Components
    BY <1>1, <1>2, EnsuredTyped
  <2>2. <<>> \in Seq(CodeFrame)
    OBVIOUS
  <2> QED BY <1>1, <1>4, <2>1, <2>2, BeginArInv
<1> QED BY <1>3, <1>4 DEF StartCodes, entered

LEMMA ResumeCodesInv ==
  ASSUME EngineInv, ResumeCodes, UNCHANGED <<disk, flow, decode>>
  PROVE  EngineInv'
<1> DEFINE b == store["COD"]
           entered == [Entered(ctx) EXCEPT !.duration = b.req]
           ready == Ensured(entered, "ready")
           sameMix == b.comps = ready.identities
<1>1. pc = "idle" /\ ctx # None /\ ctx \in Context /\ disk \in Components
  BY EngineFacts DEF ResumeCodes
<1>2. b \in PausedCodes
  BY EngineFacts DEF ResumeCodes
<1>3. b.req \in Requests /\ b.codes \in Seq(CodeFrame)
  BY <1>2 DEF PausedCodes
<1> HIDE DEF b
<1>4. entered \in Context /\ entered.keep = ctx.keep
  BY <1>1, <1>3 DEF Entered, Context
<1> HIDE DEF entered
<1>5. ready \in Context /\ ready.keep = ctx.keep /\ ready.identities \in Components
  BY <1>1, <1>4, EnsuredTyped
<1> HIDE DEF ready, sameMix
<1>6. CASE EnsureFails("CODES", entered) /\ UNCHANGED ar
  BY <1>1, <1>4, <1>6, EnsureFailsInv DEF Stages
<1>7. CASE ctx' = ready /\ RefuseBoundary("CODES", sameMix) /\ UNCHANGED ar
  BY <1>1, <1>5, <1>7, RefuseBoundaryInv DEF Stages
<1>8. CASE BeginAr(ready, b.req, b.codes)
  BY <1>1, <1>3, <1>5, <1>8, BeginArInv
<1> QED BY <1>6, <1>7, <1>8 DEF ResumeCodes, b, entered, ready, sameMix

\* A frame kept, replayed or sampled.
LEMMA KeepFrameInv ==
  ASSUME EngineInv, pc = "ar", NEW frame \in CodeFrame, KeepFrame(frame),
         UNCHANGED <<disk, flow, decode>>
  PROVE  EngineInv'
<1>1. ar \in ArState /\ runtime["ar"] \in Components /\ Leased("ar")
  BY DEF EngineInv, CallInv, ResidencyInv, Leased
<1>2. HiddenOf(runtime["ar"], ar.cached, frame) \in Hidden
  BY <1>1, HiddenTyped DEF ArState
<1>3. ar' \in ArState
  <2> DEFINE hidden == HiddenOf(runtime["ar"], ar.cached, frame)
             kept == IF ArFrame > 0 THEN Append(ar.hiddens, hidden) ELSE ar.hiddens
             fed == IF AtLastFrame THEN ar.cached ELSE ar.cached + 1
             draws == ar.draw + DrawsPerFrame
             stored == Append(ar.codes, frame)
  <2>1. /\ ar.codes \in Seq(CodeFrame) /\ ar.hiddens \in Seq(Hidden)
        /\ ar.draw \in Nat /\ ar.cached \in Nat
    BY <1>1 DEF ArState
  <2>2. stored \in Seq(CodeFrame)
    BY <2>1
  <2>3. kept \in Seq(Hidden)
    BY <1>2, <2>1
  <2>4. draws \in Nat /\ fed \in Nat
    BY <2>1 DEF DrawsPerFrame, Codebooks
  <2>5. ar' = [ar EXCEPT !.codes = stored, !.hiddens = kept, !.draw = draws,
                         !.cached = fed]
    BY DEF KeepFrame
  <2> HIDE DEF stored, kept, draws, fed
  <2> QED BY <1>1, <2>2, <2>3, <2>4, <2>5 DEF ArState
<1>4. pc' \in {"ar", "arDone"} /\ UNCHANGED <<ctx, runtime, graphs, ret, store>>
  BY DEF KeepFrame
<1>5. TypeOK'
  BY <1>3, <1>4 DEF EngineInv, TypeOK
<1>6. CallInv'
  BY <1>3, <1>4 DEF EngineInv, CallInv
<1>7. ResidencyInv'
  BY <1>1, <1>4 DEF EngineInv, ResidencyInv, Leased
<1> QED BY <1>5, <1>6, <1>7 DEF EngineInv

LEMMA PausedCodesTyped ==
  ASSUME ar \in ArState, ctx.identities \in Components
  PROVE  PausedCodesBoundary \in Boundary
<1>1. Target[ar.req] \in Nat /\ Len(ar.codes) \in Nat
  BY ModelAssumption DEF ArState
<1> QED BY <1>1 DEF PausedCodesBoundary, PausedCodes, Boundary, ArState

LEMMA CodesStepInv ==
  ASSUME EngineInv, CodesStep, UNCHANGED <<disk, flow, decode>>
  PROVE  EngineInv'
<1> USE DEF Modules, Stages
<1>1. CASE ReplayFrame
  <2>1. ar \in ArState
    BY <1>1 DEF EngineInv, CallInv, ReplayFrame
  <2>2. ar.replay[ArFrame + 1] \in CodeFrame
    BY <1>1, <2>1 DEF ReplayFrame, Replaying, ArFrame, ArState
  <2> QED BY <1>1, <2>2, KeepFrameInv DEF ReplayFrame
<1>2. CASE SampleFrame
  <2>1. ar \in ArState /\ runtime["ar"] \in Components
    BY <1>2 DEF EngineInv, CallInv, ResidencyInv, Leased, SampleFrame
  <2>2. SampledFrame(runtime["ar"], ar.req, ar.draw, ar.cached) \in CodeFrame
    BY <2>1, SampledFrameTyped DEF ArState
  <2> QED BY <1>2, <2>2, KeepFrameInv DEF SampleFrame
<1>3. CASE SampleEos
  BY <1>3 DEF SampleEos, EngineInv, TypeOK, CallInv, ResidencyInv, Leased
<1>4. CASE FinishAr
  <2>1. pc = "arDone" /\ graphs = {"ar"} /\ FinishLease("ar")
    BY <1>4 DEF FinishAr, EngineInv, ResidencyInv, Leased
  <2>2. CASE Len(ar.hiddens) = 0
    <3>1. "OTHER" \in Errors
      BY DEF Errors
    <3> QED BY <1>4, <2>1, <2>2, <3>1, StageReturnInv DEF FinishAr
  <2>3. CASE Len(ar.hiddens) # 0
    <3>1. pc' = "project" /\ UNCHANGED <<ret, store, ar, ctx>>
      BY <1>4, <2>3 DEF FinishAr
    <3>2. /\ RuntimeOK' /\ graphs' = {}
          /\ ~ctx.keep => \A n \in Modules : runtime'[n] = None
      BY <2>1, EngineFacts, FinishEffect DEF EngineInv, ResidencyInv
    <3>3. TypeOK'
      BY <3>1, <3>2 DEF EngineInv, TypeOK, RuntimeOK
    <3>4. CallInv'
      BY <2>1, <2>3, <3>1 DEF EngineInv, CallInv
    <3>5. ResidencyInv'
      BY <2>1, <3>1, <3>2, EngineFacts DEF ResidencyInv
    <3> QED BY <3>3, <3>4, <3>5 DEF EngineInv
  <2> QED BY <2>2, <2>3
<1>5. CASE BeginProjection
  <2>1. pc = "project" /\ graphs = {}
    BY <1>5 DEF BeginProjection, EngineInv, ResidencyInv, Leased
  <2>2. CASE Lease(ctx, "condition") /\ UNCHANGED <<pc, ret, store, ar>>
    <3>1. /\ RuntimeOK' /\ graphs' = {"condition"}
          /\ runtime'["condition"] \in Components
          /\ ~ctx.keep => \A n \in Modules : runtime'[n] # None => n = "condition"
          /\ ctx' \in Context /\ ctx'.keep = ctx.keep
          /\ ctx'.identities = ctx.identities
      BY <2>1, <2>2, EngineFacts, LeaseEffect DEF EngineInv, ResidencyInv
    <3>2. ctx' # None
      BY <3>1, NoneAssumption
    <3>3. TypeOK'
      BY <2>2, <3>1, <3>2 DEF EngineInv, TypeOK, RuntimeOK
    <3>4. CallInv'
      BY <2>1, <2>2, <3>1, <3>2 DEF EngineInv, CallInv
    <3>5. ResidencyInv'
      BY <2>1, <2>2, <3>1, <3>2, EngineFacts DEF ResidencyInv, Leased
    <3> QED BY <3>3, <3>4, <3>5 DEF EngineInv
  <2>3. CASE LeaseFails(ctx, "CODES", "condition") /\ ar' = None
    <3>1. PICK e \in ComputeErrors : Fail("CODES", e)
      BY <2>3 DEF LeaseFails
    <3>2. pc' = "idle" /\ ret' \in Outcome \cup {None} /\ StoreOK'
      BY <3>1, FailTyped, EngineFacts, ComputeErrorsTyped DEF Stages
    <3>3. UNCHANGED <<runtime, graphs>>
      BY <2>3 DEF LeaseFails
    <3>4. ctx' \in Context /\ ctx'.keep = ctx.keep /\ ctx' # None
      BY <2>1, <2>3, EngineFacts, LeaseFailsCtx, NoneAssumption
    <3>5. /\ disk' \in Components /\ RuntimeOK' /\ LocalsOK' /\ graphs' = {}
      BY <2>1, <2>3, <3>3, EngineFacts DEF RuntimeOK, LocalsOK
    <3>6. ~ctx'.keep => \A n \in Modules : runtime'[n] = None
      BY <2>1, <3>3, <3>4, EngineFacts DEF EngineInv, ResidencyInv
    <3> QED BY <3>2, <3>5, <3>6, <3>4, IdleInv
  <2> QED BY <1>5, <2>2, <2>3 DEF BeginProjection
<1>6. CASE ProjectWindow
  <2>1. /\ pc = "project" /\ ar \in ArState /\ Len(ar.hiddens) # 0
        /\ graphs # {} /\ runtime["condition"] \in Components
    BY <1>6 DEF EngineInv, CallInv, ResidencyInv, Leased, ProjectWindow, Projecting
  <2> DEFINE i == Len(ar.conditions) + 1
  <2>2. ar.hiddens \in Seq(Hidden) /\ ar.conditions \in Seq(Condition)
    BY <2>1 DEF ArState
  <2>3. i \in 1 .. WindowCount(Len(ar.hiddens))
    <3>1. WindowCount(Len(ar.hiddens)) \in Nat
      BY <2>1, <2>2, WindowsInside
    <3>2. i <= WindowCount(Len(ar.hiddens))
      BY <1>6 DEF ProjectWindow, Generated
    <3> QED BY <2>2, <3>1, <3>2
  <2>4. Projected(runtime["condition"], ar.hiddens, WindowStart(i),
                  FramesOf(Len(ar.hiddens), i)) \in Condition
    BY <2>1, <2>2, <2>3, ProjectedTyped
  <2> DEFINE window == Projected(runtime["condition"], ar.hiddens, WindowStart(i),
                                 FramesOf(Len(ar.hiddens), i))
             windows == Append(ar.conditions, window)
  <2>5. ar' = [ar EXCEPT !.conditions = windows]
    BY <1>6 DEF ProjectWindow, Generated
  <2>6. ar' \in ArState /\ ar'.hiddens = ar.hiddens
    <3>1. windows \in Seq(Condition)
      <4> HIDE DEF window
      <4> QED BY <2>2, <2>4 DEF window
    <3> HIDE DEF windows
    <3> QED BY <2>1, <2>5, <3>1 DEF ArState
  <2>7. LocalsOK'
    BY <2>6, EngineFacts DEF LocalsOK
  <2> QED BY <1>6, <2>1, <2>6, <2>7, LoopInv DEF ProjectWindow
<1>7. CASE CompleteCodes
  <2>1. /\ pc = "project" /\ ar \in ArState /\ ctx.identities \in Components
        /\ graphs = {"condition"} /\ FinishLease("condition")
    BY <1>7 DEF EngineInv, CallInv, ResidencyInv, Leased, CompleteCodes, Projecting
  <2>2. CompletedCodesBoundary \in Boundary
    <3>1. /\ Generated \in Nat /\ Len(ar.conditions) \in Nat
          /\ ar.req \in Requests /\ ar.conditions \in Seq(Condition)
      BY <2>1 DEF ArState, Generated
    <3>2. CompletedCodesBoundary \in CompletedCodes
      BY <2>1, <3>1 DEF CompletedCodesBoundary, CompletedCodes
    <3> QED BY <3>2 DEF Boundary
  <2>3. "DONE" \in Statuses /\ "OK" \in Errors
    BY DEF Statuses, Errors
  <2> QED BY <1>7, <2>1, <2>2, <2>3, StageReturnInv DEF CompleteCodes
<1> QED BY <1>1, <1>2, <1>3, <1>4, <1>5, <1>6, <1>7 DEF CodesStep

LEMMA CodesInterruptedInv ==
  ASSUME EngineInv, CodesInterrupted, UNCHANGED <<disk, flow, decode>>
  PROVE  EngineInv'
<1> USE DEF Modules, Stages
<1>1. CASE PauseAr
  <2>1. /\ pc = "ar" /\ ar \in ArState /\ ctx.identities \in Components
        /\ graphs = {"ar"} /\ FinishLease("ar")
    BY <1>1 DEF PauseAr, EngineInv, CallInv, ResidencyInv, Leased
  <2>2. "PAUSED" \in Statuses /\ "CANCEL" \in Errors
    BY DEF Statuses, Errors
  <2> QED BY <1>1, <2>1, <2>2, PausedCodesTyped, StageReturnInv DEF PauseAr
<1>2. CASE ArFault
  <2>1. pc = "ar" /\ graphs = {"ar"} /\ UnwindLease("ar")
    BY <1>2 DEF ArFault, LeasedFault, EngineInv, ResidencyInv, Leased
  <2> QED BY <1>2, <2>1, ComputeErrorsTyped, StageReturnInv DEF ArFault, LeasedFault
<1>3. CASE PauseProjection
  <2>1. /\ pc = "project" /\ ar \in ArState /\ ctx.identities \in Components
        /\ graphs = {"condition"} /\ FinishLease("condition")
    BY <1>3 DEF PauseProjection, Projecting, EngineInv, CallInv, ResidencyInv, Leased
  <2>2. "PAUSED" \in Statuses /\ "CANCEL" \in Errors
    BY DEF Statuses, Errors
  <2> QED BY <1>3, <2>1, <2>2, PausedCodesTyped, StageReturnInv DEF PauseProjection
<1>4. CASE ProjectionFault
  <2>1. pc = "project" /\ graphs = {"condition"} /\ UnwindLease("condition")
    BY <1>4 DEF ProjectionFault, Projecting, LeasedFault, EngineInv, ResidencyInv, Leased
  <2> QED BY <1>4, <2>1, ComputeErrorsTyped, StageReturnInv
      DEF ProjectionFault, LeasedFault
<1> QED BY <1>1, <1>2, <1>3, <1>4 DEF CodesInterrupted

-----------------------------------------------------------------------------
(***************************************************************************)
(* DIFFUSE.  There is always a condition window for the window in          *)
(* progress, so what denoise_chunk prepares is typed.                      *)
(***************************************************************************)
LEMMA InputsTyped ==
  ASSUME NEW c \in Components, NEW source \in CompletedCodes,
         NEW completed \in Seq(Latent), NEW carry \in Nat,
         Len(completed) < Len(source.conditions)
  PROVE  InputsFor(c, source, completed, carry) \in FlowInputs
<1>1. source.conditions \in Seq(Condition) /\ Len(completed) \in Nat
  BY DEF CompletedCodes
<1>2. source.conditions[Len(completed) + 1] \in Condition
  BY <1>1
<1> QED BY <1>1, <1>2 DEF InputsFor, FlowInputs

LEMMA FlowStartTyped ==
  ASSUME NEW c \in Components, NEW s,
         s.input \in CompletedCodes \cup PausedFlow, s.source \in CompletedCodes,
         s.completed \in Seq(Latent), s.active \in Latent \cup {None},
         s.step \in Nat, s.carry \in Nat,
         Len(s.completed) < Len(s.source.conditions)
  PROVE  /\ FlowStart(s, c) \in FlowState
         /\ FlowStart(s, c).completed = s.completed
         /\ FlowStart(s, c).source = s.source
<1> DEFINE noise == InitialNoise(InputsFor(c, s.source, s.completed, s.carry))
           latent == IF s.active # None THEN s.active ELSE noise
<1>1. noise \in Latent
  BY InputsTyped, NoiseTyped
<1>2. latent \in Latent
  <2> HIDE DEF noise
  <2> QED BY <1>1
<1>3. FlowStart(s, c) = [input |-> s.input, source |-> s.source,
                         completed |-> s.completed, latent |-> latent,
                         step |-> s.step, carry |-> s.carry]
  BY DEF FlowStart
<1> HIDE DEF latent
<1> QED BY <1>2, <1>3 DEF FlowState

LEMMA CallDiffuseInv ==
  ASSUME EngineInv, NEW b, NEW s, NEW accepted, CallDiffuse(b, s, accepted),
         s.input \in CompletedCodes \cup PausedFlow, s.source \in CompletedCodes,
         s.completed \in Seq(Latent), s.active \in Latent \cup {None},
         s.step \in Nat, s.carry \in Nat,
         ConditionWindowsAccepted(s.source) /\ accepted
           => Len(s.completed) < Len(s.source.conditions),
         UNCHANGED <<disk, ar, decode>>
  PROVE  EngineInv'
<1> USE DEF Modules, Stages
<1> DEFINE entered == Entered(ctx)
           ready == Ensured(entered, "ready")
           sameMix == SameMix(b, s, ready)
           usable == sameMix /\ ConditionWindowsAccepted(s.source) /\ accepted
<1>1. pc = "idle" /\ ctx # None /\ ctx \in Context /\ disk \in Components
  BY EngineFacts DEF CallDiffuse
<1>2. entered \in Context /\ entered.keep = ctx.keep
  BY <1>1, EnteredTyped
<1> HIDE DEF entered
<1>3. ready \in Context /\ ready.keep = ctx.keep /\ ready.identities \in Components
  BY <1>1, <1>2, EnsuredTyped
<1> HIDE DEF ready, sameMix
<1>4. CASE EnsureFails("DIFFUSE", entered) /\ UNCHANGED flow
  BY <1>1, <1>2, <1>4, EnsureFailsInv
<1>5. CASE ctx' = ready /\ RefuseBoundary("DIFFUSE", sameMix) /\ UNCHANGED flow
  BY <1>1, <1>3, <1>5, RefuseBoundaryInv
<1>6. CASE /\ usable /\ EnterLease(ready, "flow", "flow")
           /\ flow' = FlowStart(s, runtime'["flow"])
  <2>1. /\ RuntimeOK' /\ StoreOK' /\ Leased("flow")'
        /\ ret' = None /\ pc' = "flow" /\ ctx' # None
        /\ ctx' \in Context /\ ctx'.identities \in Components
        /\ ~ctx'.keep => \A n \in Modules : runtime'[n] # None => n \in graphs'
    BY <1>1, <1>3, <1>6, EnteredInv
  <2>2. runtime'["flow"] \in Components
    BY <2>1 DEF Leased
  <2>3. /\ flow' \in FlowState
        /\ Len(flow'.completed) < Len(flow'.source.conditions)
    BY <1>6, <2>2, FlowStartTyped
  <2>4. TypeOK'
    BY <1>3, <1>6, <2>1, <2>3, EngineFacts
       DEF TypeOK, RuntimeOK, StoreOK, LocalsOK, Leased
  <2>5. CallInv'
    BY <1>3, <1>6, <2>1, <2>3 DEF CallInv
  <2>6. ResidencyInv'
    BY <2>1 DEF ResidencyInv
  <2> QED BY <2>4, <2>5, <2>6 DEF EngineInv
<1>7. CASE LeaseFails(ready, "DIFFUSE", "flow") /\ UNCHANGED flow
  BY <1>1, <1>3, <1>7, LeaseFailsInv
<1> QED BY <1>4, <1>5, <1>6, <1>7 DEF CallDiffuse, entered, ready, sameMix

LEMMA DiffuseCallInv ==
  ASSUME EngineInv, DiffuseCall, UNCHANGED <<disk, ar, decode>>
  PROVE  EngineInv'
<1>1. CASE StartDiffuse
  <2> DEFINE b == store["CON"]
             s == FreshFlow(b)
  <2>1. b \in CompletedCodes
    BY <1>1, EngineFacts DEF StartDiffuse
  <2>2. s.completed = <<>> /\ <<>> \in Seq(Latent) /\ Len(<<>>) = 0
    BY DEF FreshFlow
  <2>3. ConditionWindowsAccepted(b) => 0 < Len(b.conditions)
    <3> SUFFICES ASSUME ConditionWindowsAccepted(b) PROVE 0 < Len(b.conditions)
      OBVIOUS
    <3>1. b.first \in Nat \ {0}
      BY <2>1 DEF ConditionWindowsAccepted, CompletedCodes
    <3>2. Len(b.conditions) = WindowCount(b.first)
      BY DEF ConditionWindowsAccepted
    <3> QED BY <3>1, <3>2, WindowsInside
  <2>4. CallDiffuse(b, s, TRUE)
    BY <1>1 DEF StartDiffuse
  <2>5. /\ s.input = b /\ s.source = b /\ s.active = None /\ s.step = 0
        /\ s.carry = 0
    BY DEF FreshFlow
  <2>6. /\ s.input \in CompletedCodes \cup PausedFlow /\ s.source \in CompletedCodes
        /\ s.completed \in Seq(Latent) /\ s.active \in Latent \cup {None}
        /\ s.step \in Nat /\ s.carry \in Nat
        /\ ConditionWindowsAccepted(s.source) /\ TRUE
             => Len(s.completed) < Len(s.source.conditions)
    <3> HIDE DEF b, s
    <3> QED BY <2>1, <2>2, <2>3, <2>5
  <2> HIDE DEF b, s
  <2> QED BY <2>4, <2>6, CallDiffuseInv
<1>2. CASE ResumeDiffuse
  <2> DEFINE b == store["FLW"]
             s == ResumedFlow(b)
  <2>1. b \in PausedFlow
    BY <1>2, EngineFacts DEF ResumeDiffuse
  <2>2. /\ b.source \in CompletedCodes /\ b.completed \in Seq(Latent)
        /\ b.active \in Latent /\ b.second \in Nat /\ b.carry \in Nat
    BY <2>1 DEF PausedFlow
  <2>3. CallDiffuse(b, s, FlowCursorAccepted(b))
    BY <1>2 DEF ResumeDiffuse
  <2>4. /\ s.input = b /\ s.source = b.source /\ s.completed = b.completed
        /\ s.active = b.active /\ s.step = b.second /\ s.carry = b.carry
    BY DEF ResumedFlow
  <2>5. FlowCursorAccepted(b) => Len(b.completed) < Len(b.source.conditions)
    BY DEF FlowCursorAccepted
  <2> HIDE DEF b, s
  <2> QED BY <2>1, <2>2, <2>3, <2>4, <2>5, CallDiffuseInv
<1> QED BY <1>1, <1>2 DEF DiffuseCall

\* What a DIFFUSE call has while it is in progress.
LEMMA FlowFacts ==
  ASSUME EngineInv, pc = "flow"
  PROVE  /\ flow \in FlowState /\ flow.source \in CompletedCodes
         /\ flow.source.conditions \in Seq(Condition)
         /\ flow.completed \in Seq(Latent) /\ flow.latent \in Latent
         /\ flow.step \in Nat /\ flow.carry \in Nat
         /\ Len(flow.completed) < Len(flow.source.conditions)
         /\ runtime["flow"] \in Components /\ graphs = {"flow"}
         /\ ctx \in Context /\ ctx.identities \in Components
<1>1. /\ flow \in FlowState
      /\ Len(flow.completed) < Len(flow.source.conditions)
      /\ runtime["flow"] \in Components /\ graphs = {"flow"}
      /\ ctx \in Context /\ ctx.identities \in Components
  BY DEF EngineInv, CallInv, ResidencyInv, Leased
<1>2. flow.source \in CompletedCodes
  BY <1>1 DEF FlowState
<1> QED BY <1>1, <1>2 DEF FlowState, CompletedCodes

LEMMA FinishedTyped ==
  ASSUME EngineInv, pc = "flow"
  PROVE  /\ FinishedWindows \in Seq(Latent)
         /\ Len(FinishedWindows) = Len(flow.completed) + 1
<1> DEFINE pasted == [flow.latent EXCEPT !.head =
                        IF flow.carry # 0 THEN flow.carry ELSE @]
<1>1. pasted \in Latent
  BY FlowFacts, PastedTyped
<1>2. FinishedWindows = Append(flow.completed, pasted)
  BY DEF FinishedWindows
<1> HIDE DEF pasted
<1> QED BY <1>1, <1>2, FlowFacts

LEMMA EulerStepInv ==
  ASSUME EngineInv, EulerStep, UNCHANGED <<disk, ar, decode>>
  PROVE  EngineInv'
<1>1. pc = "flow" /\ UNCHANGED <<ctx, runtime, graphs, pc, ret, store>>
  BY DEF EulerStep, Denoising
<1> DEFINE latent == EulerUpdate(flow.latent, FlowInputsNow, flow.step)
<1>2. latent \in Latent
  <2>1. FlowInputsNow \in FlowInputs
    BY <1>1, FlowFacts, InputsTyped DEF FlowInputsNow
  <2> QED BY <1>1, <2>1, FlowFacts, EulerTyped
<1>3. flow' = [flow EXCEPT !.latent = latent, !.step = flow.step + 1]
  BY DEF EulerStep
<1> HIDE DEF latent
<1>4. /\ flow' \in FlowState
      /\ flow'.completed = flow.completed /\ flow'.source = flow.source
  <2>1. flow \in FlowState /\ flow.step + 1 \in Nat
    BY <1>1, FlowFacts
  <2> QED BY <1>2, <1>3, <2>1 DEF FlowState
<1>5. LocalsOK'
  BY <1>4, EngineFacts DEF LocalsOK
<1> QED BY <1>1, <1>4, <1>5, FlowFacts, LoopInv

\* The next window begins: there is one, and its inputs are typed.
LEMMA FinishWindowInv ==
  ASSUME EngineInv, FinishWindow, UNCHANGED <<disk, ar, decode>>
  PROVE  EngineInv'
<1>1. /\ pc = "flow" /\ UNCHANGED <<ctx, runtime, graphs, pc, ret, store>>
      /\ Window(flow) < Len(flow.source.conditions)
  BY DEF FinishWindow
<1>2. /\ FinishedWindows \in Seq(Latent)
      /\ Len(FinishedWindows) < Len(flow.source.conditions)
  BY <1>1, FinishedTyped DEF Window
<1>3. NextCarry \in Nat
  <2>1. Window(flow) \in 1 .. Len(flow.source.conditions)
    <3>1. Len(flow.completed) \in Nat /\ Len(flow.source.conditions) \in Nat
      BY <1>1, FlowFacts
    <3> QED BY <1>1, <3>1 DEF Window
  <2>2. flow.source.conditions[Window(flow)] \in Condition
    <3>1. flow.source.conditions \in Seq(Condition)
      BY <1>1, FlowFacts
    <3> HIDE DEF Window
    <3> QED BY <2>1, <3>1
  <2>3. \A cond \in Condition : cond.frames \in Nat
    BY DEF Condition
  <2>4. flow.source.conditions[Window(flow)].frames \in Nat /\ Window(flow) \in Nat
    <3> HIDE DEF Window
    <3> QED BY <2>1, <2>2, <2>3
  <2> HIDE DEF Window
  <2> QED BY <2>4, CarryTyped DEF NextCarry
<1> DEFINE noise == InitialNoise(InputsFor(runtime["flow"], flow.source,
                                           FinishedWindows, NextCarry))
<1>4. noise \in Latent
  BY <1>1, <1>2, <1>3, FlowFacts, InputsTyped, NoiseTyped
<1>5. flow' = [flow EXCEPT !.completed = FinishedWindows, !.carry = NextCarry,
                           !.latent = noise, !.step = 0]
  BY DEF FinishWindow
<1> HIDE DEF noise
<1>6. /\ flow' \in FlowState
      /\ flow'.completed = FinishedWindows /\ flow'.source = flow.source
  <2> DEFINE windows == FinishedWindows
             carry == NextCarry
  <2>1. flow' = [flow EXCEPT !.completed = windows, !.carry = carry,
                             !.latent = noise, !.step = 0]
    BY <1>5
  <2>2. windows \in Seq(Latent) /\ carry \in Nat
    BY <1>2, <1>3
  <2>3. flow \in FlowState
    BY <1>1, FlowFacts
  <2> HIDE DEF windows, carry
  <2>4. /\ flow' \in FlowState
        /\ flow'.completed = windows /\ flow'.source = flow.source
    BY <1>4, <2>1, <2>2, <2>3 DEF FlowState
  <2> QED BY <2>4 DEF windows
<1>7. LocalsOK'
  BY <1>6, EngineFacts DEF LocalsOK
<1> QED BY <1>1, <1>2, <1>6, <1>7, LoopInv

LEMMA CompleteFlowInv ==
  ASSUME EngineInv, CompleteFlow, UNCHANGED <<disk, ar, decode>>
  PROVE  EngineInv'
<1>1. pc = "flow" /\ FinishLease("flow") /\ flow' = None /\ UNCHANGED ctx
  BY DEF CompleteFlow
<1>2. CompletedFlowBoundary(FinishedWindows) \in Boundary
  <2>1. CompletedFlowBoundary(FinishedWindows) \in CompletedFlow
    <3> DEFINE windows == FinishedWindows
    <3>1. windows \in Seq(Latent) /\ Len(windows) \in Nat
      BY <1>1, FinishedTyped
    <3>2. flow.source \in CompletedCodes /\ ctx.identities \in Components
      BY <1>1, FlowFacts
    <3> HIDE DEF windows
    <3>3. CompletedFlowBoundary(windows) \in CompletedFlow
      BY <3>1, <3>2 DEF CompletedFlowBoundary, CompletedFlow
    <3> QED BY <3>3 DEF windows
  <2> QED BY <2>1 DEF Boundary
<1>3. "DONE" \in Statuses /\ "OK" \in Errors
  BY DEF Statuses, Errors
<1>4. \E out \in Boundary, status \in Statuses, error \in Errors :
        Emit("DIFFUSE", status, error, out)
  BY <1>2, <1>3 DEF CompleteFlow
<1> QED BY <1>1, <1>4, FlowFacts, StageReturnInv DEF Modules, Stages

LEMMA DiffuseInterruptedInv ==
  ASSUME EngineInv, DiffuseInterrupted, UNCHANGED <<disk, ar, decode>>
  PROVE  EngineInv'
<1> USE DEF Modules, Stages
<1>1. CASE PauseFlow
  <2>1. pc = "flow" /\ FinishLease("flow") /\ flow' = None /\ UNCHANGED ctx
    BY <1>1 DEF PauseFlow, Denoising
  <2>2. PausedFlowBoundary \in Boundary
    <3>1. PausedFlowBoundary \in PausedFlow
      BY <2>1, FlowFacts DEF PausedFlowBoundary, PausedFlow
    <3> QED BY <3>1 DEF Boundary
  <2>3. "PAUSED" \in Statuses /\ "CANCEL" \in Errors
    BY DEF Statuses, Errors
  <2> QED BY <1>1, <2>1, <2>2, <2>3, FlowFacts, StageReturnInv DEF PauseFlow
<1>2. CASE FlowFault
  <2>1. pc = "flow" /\ UnwindLease("flow") /\ flow' = None /\ UNCHANGED ctx
    BY <1>2 DEF FlowFault, Denoising, LeasedFault
  <2> QED BY <1>2, <2>1, FlowFacts, ComputeErrorsTyped, StageReturnInv
      DEF FlowFault, LeasedFault
<1> QED BY <1>1, <1>2 DEF DiffuseInterrupted

-----------------------------------------------------------------------------
(***************************************************************************)
(* DECODE.                                                                 *)
(***************************************************************************)
LEMMA StartDecodeInv ==
  ASSUME EngineInv, StartDecode, UNCHANGED <<disk, ar, flow>>
  PROVE  EngineInv'
<1> USE DEF Modules, Stages
<1> DEFINE b == store["LAT"]
           entered == Entered(ctx)
           ready == Ensured(entered, "ready")
           sameMix == b.comps = ready.identities /\ b.source.comps = ready.identities
<1>1. pc = "idle" /\ ctx # None /\ ctx \in Context /\ disk \in Components
  BY EngineFacts DEF StartDecode
<1>2. b \in CompletedFlow
  BY EngineFacts DEF StartDecode
<1>3. entered \in Context /\ entered.keep = ctx.keep
  BY <1>1, EnteredTyped
<1> HIDE DEF entered
<1>4. ready \in Context /\ ready.keep = ctx.keep /\ ready.identities \in Components
  BY <1>1, <1>3, EnsuredTyped
<1> HIDE DEF ready, sameMix
<1>5. CASE EnsureFails("DECODE", entered) /\ UNCHANGED decode
  BY <1>1, <1>3, <1>5, EnsureFailsInv
<1>6. CASE ctx' = ready /\ RefuseBoundary("DECODE", sameMix) /\ UNCHANGED decode
  BY <1>1, <1>4, <1>6, RefuseBoundaryInv
<1>7. CASE /\ EnterLease(ready, "vocoder", "decode")
           /\ decode' = [input |-> b, pieces |-> <<>>]
  <2>1. /\ RuntimeOK' /\ StoreOK' /\ Leased("vocoder")'
        /\ ret' = None /\ pc' = "decode" /\ ctx' # None
        /\ ctx' \in Context /\ ctx'.identities \in Components
        /\ ~ctx'.keep => \A n \in Modules : runtime'[n] # None => n \in graphs'
    BY <1>1, <1>4, <1>7, EnteredInv
  <2>2. decode' \in DecodeState
    <3>1. <<>> \in Seq(Piece)
      OBVIOUS
    <3> HIDE DEF b
    <3> QED BY <1>2, <1>7, <3>1 DEF DecodeState
  <2>3. TypeOK'
    BY <1>4, <1>7, <2>1, <2>2, EngineFacts
       DEF TypeOK, RuntimeOK, StoreOK, LocalsOK, Leased
  <2>4. CallInv'
    BY <1>4, <1>7, <2>1, <2>2 DEF CallInv
  <2>5. ResidencyInv'
    BY <2>1 DEF ResidencyInv
  <2> QED BY <2>3, <2>4, <2>5 DEF EngineInv
<1>8. CASE LeaseFails(ready, "DECODE", "vocoder") /\ UNCHANGED decode
  BY <1>1, <1>4, <1>8, LeaseFailsInv
<1> QED BY <1>5, <1>6, <1>7, <1>8 DEF StartDecode, b, entered, ready, sameMix

LEMMA DecodeFacts ==
  ASSUME EngineInv, pc = "decode"
  PROVE  /\ decode \in DecodeState /\ decode.input \in CompletedFlow
         /\ decode.pieces \in Seq(Piece)
         /\ decode.input.completed \in Seq(Latent)
         /\ decode.input.source \in CompletedCodes
         /\ runtime["vocoder"] \in Components /\ graphs = {"vocoder"}
         /\ ctx \in Context
<1>1. /\ decode \in DecodeState
      /\ runtime["vocoder"] \in Components /\ graphs = {"vocoder"}
      /\ ctx \in Context
  BY DEF EngineInv, CallInv, ResidencyInv, Leased
<1>2. decode.input \in CompletedFlow /\ decode.pieces \in Seq(Piece)
  BY <1>1 DEF DecodeState
<1>3. \A b \in CompletedFlow : b.completed \in Seq(Latent) /\ b.source \in CompletedCodes
  BY DEF CompletedFlow
<1> QED BY <1>1, <1>2, <1>3

LEMMA DecodeWindowInv ==
  ASSUME EngineInv, DecodeWindow, UNCHANGED <<disk, ar, flow>>
  PROVE  EngineInv'
<1> DEFINE i == Len(decode.pieces) + 1
           latent == decode.input.completed[i]
           n == LatentFrames(latent.inputs.cond.frames)
           piece == CroppedPiece(i, latent, n)
<1>1. pc = "decode" /\ UNCHANGED <<ctx, runtime, graphs, pc, ret, store>>
  BY DEF DecodeWindow, Decoding
<1>2. Windows \in Nat /\ i \in 1 .. Windows
  <2>1. Len(decode.pieces) \in Nat /\ Windows \in Nat
    BY <1>1, DecodeFacts DEF Windows
  <2> QED BY <2>1 DEF DecodeWindow, Decoding
<1>3. latent \in Latent
  <2>1. decode.input.completed \in Seq(Latent)
    BY <1>1, DecodeFacts
  <2> QED BY <1>2, <2>1 DEF Windows
<1>4. n \in Nat
  <2>1. \A x \in Latent : x.inputs \in FlowInputs
    BY DEF Latent
  <2>2. \A x \in FlowInputs : x.cond \in Condition
    BY DEF FlowInputs
  <2>3. \A x \in Condition : x.frames \in Nat
    BY DEF Condition
  <2>4. latent.inputs.cond.frames \in Nat
    <3> HIDE DEF latent
    <3> QED BY <1>3, <2>1, <2>2, <2>3
  <2> QED BY <2>4, LatentFramesMonotone
<1>5. piece \in Piece
  <2>1. KeptFrom(i, n) \in Nat /\ KeptTo(i, Windows, n) \in Nat
    <3>1. i \in Nat
      BY <1>2
    <3> HIDE DEF n, i
    <3> QED BY <1>2, <1>4, <3>1, CropTyped
  <2>2. runtime["vocoder"] \in Components
    BY <1>1, DecodeFacts
  <2> HIDE DEF latent, n, i
  <2> QED BY <1>3, <2>1, <2>2 DEF CroppedPiece, Piece
<1>6. decode' = [decode EXCEPT !.pieces = Append(decode.pieces, piece)]
  BY DEF DecodeWindow
<1> HIDE DEF piece, n, latent, i
<1>7. decode' \in DecodeState
  <2>1. decode \in DecodeState /\ Append(decode.pieces, piece) \in Seq(Piece)
    BY <1>1, <1>5, DecodeFacts
  <2> QED BY <1>6, <2>1 DEF DecodeState
<1>8. LocalsOK'
  BY <1>7, EngineFacts DEF LocalsOK
<1> QED BY <1>1, <1>7, <1>8, LoopInv

LEMMA CompleteDecodeInv ==
  ASSUME EngineInv, CompleteDecode, UNCHANGED <<disk, ar, flow>>
  PROVE  EngineInv'
<1> USE DEF Modules, Stages
<1>1. pc = "decode" /\ FinishLease("vocoder") /\ decode' = None
  BY DEF CompleteDecode
<1> DEFINE music == [req |-> decode.input.source.req, pieces |-> decode.pieces]
<1>2. CASE /\ Return("DECODE", "DONE", "OK", None)
           /\ ctx' = [ctx EXCEPT !.audio = music]
  <2>1. music \in Song
    <3>1. decode.pieces \in Seq(Piece) /\ decode.input.source \in CompletedCodes
      BY <1>1, DecodeFacts
    <3>2. \A b \in CompletedCodes : b.req \in Requests
      BY DEF CompletedCodes
    <3>3. decode.input.source.req \in Requests
      BY <3>1, <3>2
    <3> QED BY <3>1, <3>3 DEF Song
  <2>2. ctx' \in Context /\ ctx'.keep = ctx.keep
    <3> HIDE DEF music
    <3> QED BY <1>1, <1>2, <2>1, DecodeFacts DEF Context
  <2>3. "DONE" \in Statuses /\ "OK" \in Errors
    BY DEF Statuses, Errors
  <2>4. pc' = "idle" /\ ret' \in Outcome \cup {None} /\ StoreOK'
    BY <1>2, <2>3, EngineFacts, ReturnTyped
  <2>5. LocalsOK'
    BY <1>1, EngineFacts DEF LocalsOK
  <2> QED BY <1>1, <2>2, <2>4, <2>5, DecodeFacts, ReturnedInv
<1>3. CASE (\E e \in ComputeErrors : Fail("DECODE", e)) /\ UNCHANGED ctx
  BY <1>1, <1>3, DecodeFacts, ComputeErrorsTyped, StageReturnInv
<1> QED BY <1>2, <1>3 DEF CompleteDecode

LEMMA DecodeInterruptedInv ==
  ASSUME EngineInv, DecodeInterrupted, UNCHANGED <<disk, ar, flow>>
  PROVE  EngineInv'
<1> USE DEF Modules, Stages
<1>1. CASE PauseDecode
  <2>1. /\ pc = "decode" /\ FinishLease("vocoder") /\ decode' = None
        /\ UNCHANGED ctx /\ Return("DECODE", "PAUSED", "CANCEL", None)
    BY <1>1 DEF PauseDecode, Decoding
  <2>2. "PAUSED" \in Statuses /\ "CANCEL" \in Errors
    BY DEF Statuses, Errors
  <2>3. pc' = "idle" /\ ret' \in Outcome \cup {None} /\ StoreOK'
    BY <2>1, <2>2, EngineFacts, ReturnTyped
  <2>4. LocalsOK'
    BY <2>1, EngineFacts DEF LocalsOK
  <2> QED BY <2>1, <2>3, <2>4, DecodeFacts, ReturnedInv
<1>2. CASE DecodeFault
  <2>1. pc = "decode" /\ UnwindLease("vocoder") /\ decode' = None /\ UNCHANGED ctx
    BY <1>2 DEF DecodeFault, Decoding, LeasedFault
  <2> QED BY <1>2, <2>1, DecodeFacts, ComputeErrorsTyped, StageReturnInv
      DEF DecodeFault, LeasedFault
<1> QED BY <1>1, <1>2 DEF DecodeInterrupted

-----------------------------------------------------------------------------
(***************************************************************************)
(* The calls that reach no stage, and the host.                            *)
(***************************************************************************)
LEMMA FreshTyped ==
  ASSUME NEW keep \in BOOLEAN
  PROVE  FreshContext(keep) \in Context
<1>1. Absent \in [Modules -> Components \cup {None}]
  BY DEF Absent
<1> QED BY <1>1 DEF FreshContext, Context

LEMMA HostInv ==
  ASSUME EngineInv,
         \/ RejectedInput \/ Load \/ Free \/ Crash \/ ReplaceFiles
  PROVE  EngineInv'
<1>1. CASE RejectedInput
  <2>1. PICK s \in Stages, e \in ComputeErrors : Fail(s, e)
    BY <1>1 DEF RejectedInput
  <2>2. ctx' \in Context /\ ctx'.keep = ctx.keep
    BY <1>1, EngineFacts, EnteredTyped DEF RejectedInput
  <2> QED BY <1>1, <2>1, <2>2, ComputeErrorsTyped, RefusedInv
      DEF RejectedInput, locals
<1>2. CASE Load
  <2>1. PICK keep \in KeepOptions : ctx' = FreshContext(keep)
    BY <1>2 DEF Load
  <2>2. ctx' \in Context
    BY <2>1, FreshTyped, OptionsAssumption
  <2>3. \A m \in Modules : runtime'[m] = None
    BY <1>2 DEF Load, EngineInv, ResidencyInv
  <2> QED BY <1>2, <2>2, <2>3, EngineFacts, IdleInv
      DEF Load, locals, EngineInv, TypeOK, RuntimeOK, StoreOK, LocalsOK
<1>3. CASE Free
  <2>1. /\ RuntimeOK' /\ \A m \in Modules : runtime'[m] = None
    BY <1>3 DEF Free, Absent, RuntimeOK
  <2> QED BY <1>3, <2>1, EngineFacts, IdleInv
      DEF Free, locals, EngineInv, TypeOK, StoreOK, LocalsOK
<1>4. CASE Crash
  <2>1. RuntimeOK' /\ \A m \in Modules : runtime'[m] = None
    BY <1>4 DEF Crash, Absent, RuntimeOK
  <2>2. StoreOK' /\ disk' \in Components
    BY <1>4, EngineFacts DEF Crash, StoreOK
  <2> QED BY <1>4, <2>1, <2>2, IdleInv DEF Crash, LocalsOK
<1>5. CASE ReplaceFiles
  <2>1. TypeOK'
    BY <1>5 DEF ReplaceFiles, locals, EngineInv, TypeOK
  <2>2. CallInv' /\ ResidencyInv'
    BY <1>5 DEF ReplaceFiles, locals, EngineInv, CallInv, ResidencyInv, Leased
  <2> QED BY <2>1, <2>2 DEF EngineInv
<1> QED BY <1>1, <1>2, <1>3, <1>4, <1>5

-----------------------------------------------------------------------------
LEMMA InitInv ==
  ASSUME Init
  PROVE  EngineInv
<1>1. TypeOK
  BY DEF Init, TypeOK, Absent, NoBoundaries
<1>2. CallInv
  BY DEF Init, CallInv
<1>3. ResidencyInv
  BY DEF Init, ResidencyInv, Absent
<1> QED BY <1>1, <1>2, <1>3 DEF EngineInv

LEMMA NextInv ==
  ASSUME EngineInv, [Next]_vars
  PROVE  EngineInv'
<1>1. CASE StageCodes
  <2>1. (\E r \in Requests : StartCodes(r)) \/ ResumeCodes
          \/ CodesStep \/ CodesInterrupted
    BY <1>1 DEF StageCodes, CodesCall
  <2>2. UNCHANGED <<disk, flow, decode>>
    BY <1>1 DEF StageCodes
  <2> QED BY <2>1, <2>2, StartCodesInv, ResumeCodesInv, CodesStepInv,
             CodesInterruptedInv
<1>2. CASE StageDiffuse
  <2>1. DiffuseCall \/ EulerStep \/ FinishWindow \/ CompleteFlow
          \/ DiffuseInterrupted
    BY <1>2 DEF StageDiffuse, DiffuseStep
  <2>2. UNCHANGED <<disk, ar, decode>>
    BY <1>2 DEF StageDiffuse
  <2> QED BY <2>1, <2>2, DiffuseCallInv, EulerStepInv, FinishWindowInv,
             CompleteFlowInv, DiffuseInterruptedInv
<1>3. CASE StageDecode
  <2>1. StartDecode \/ DecodeWindow \/ CompleteDecode \/ DecodeInterrupted
    BY <1>3 DEF StageDecode, DecodeStep
  <2>2. UNCHANGED <<disk, ar, flow>>
    BY <1>3 DEF StageDecode
  <2> QED BY <2>1, <2>2, StartDecodeInv, DecodeWindowInv, CompleteDecodeInv,
             DecodeInterruptedInv
<1>4. CASE UNCHANGED vars
  <2>1. TypeOK'
    BY <1>4 DEF vars, EngineInv, TypeOK
  <2>2. CallInv' /\ ResidencyInv'
    BY <1>4 DEF vars, EngineInv, CallInv, ResidencyInv, Leased
  <2> QED BY <2>1, <2>2 DEF EngineInv
<1> QED BY <1>1, <1>2, <1>3, <1>4, HostInv DEF Next, InvalidArguments

THEOREM Inductive == Spec => []EngineInv
  BY InitInv, NextInv, PTL DEF Spec

(***************************************************************************)
(* Every variable keeps its type: in particular whatever a call stores is  *)
(* a well formed boundary of the kind it is stored under.                  *)
(***************************************************************************)
THEOREM Typing == Spec => []TypeOK
<1>1. EngineInv => TypeOK
  BY DEF EngineInv
<1> QED BY <1>1, Inductive, PTL

(***************************************************************************)
(* Between calls no request graph exists, and without keep_loaded no       *)
(* weights do, however the last call ended.                                *)
(***************************************************************************)
THEOREM Released == Spec => []ReleasedBetweenCalls
<1>1. EngineInv => ReleasedBetweenCalls
  <2> SUFFICES ASSUME EngineInv, pc = "idle"
               PROVE  /\ graphs = {}
                      /\ ctx # None /\ ~ctx.keep => runtime = Absent
    BY DEF ReleasedBetweenCalls
  <2>1. graphs = {} /\ RuntimeOK
    BY EngineFacts
  <2>2. ASSUME ctx # None, ~ctx.keep
        PROVE  runtime = Absent
    <3>1. \A m \in Modules : runtime[m] = None
      BY <2>1, <2>2 DEF EngineInv, ResidencyInv
    <3> QED BY <2>1, <3>1 DEF RuntimeOK, Absent
  <2> QED BY <2>1, <2>2
<1> QED BY <1>1, Inductive, PTL

(***************************************************************************)
(* Request state of two modules never exists at once, and a context that   *)
(* does not keep weights never holds those of two modules.                 *)
(***************************************************************************)
THEOREM OneModel == Spec => []OneModelAtATime
<1>1. EngineInv => OneModelAtATime
  <2> SUFFICES ASSUME EngineInv, NEW m \in Modules, NEW n \in Modules
               PROVE  /\ m \in graphs /\ n \in graphs => m = n
                      /\ ctx # None /\ ~ctx.keep /\ runtime[m] # None
                         /\ runtime[n] # None => m = n
    BY DEF OneModelAtATime
  <2>1. m \in graphs /\ n \in graphs => m = n
    BY DEF EngineInv, TypeOK, ResidencyInv, Leased
  <2>2. ctx # None /\ ~ctx.keep => /\ runtime[m] # None => m \in graphs
                                   /\ runtime[n] # None => n \in graphs
    BY DEF EngineInv, ResidencyInv
  <2> QED BY <2>1, <2>2
<1> QED BY <1>1, Inductive, PTL

-----------------------------------------------------------------------------
(***************************************************************************)
(* The song.  run_stage drops it on entry, so a call in progress has none, *)
(* and only the end of DECODE makes one.                                   *)
(***************************************************************************)
Holding == ctx # None /\ ctx.audio # None

AudioInv ==
  Holding =>
    /\ pc = "idle"
    /\ ret # None /\ ret.stage = "DECODE" /\ ret.status = "DONE"

\* Entering a call drops the song, ensuring the components brings none back,
LEMMA EnteredQuiet ==
  ASSUME NEW c \in Context
  PROVE  /\ Entered(c).audio = None
         /\ \A r \in Requests : /\ [Entered(c) EXCEPT !.duration = r] \in Context
                                /\ [Entered(c) EXCEPT !.duration = r].audio = None
  BY DEF Entered, Context

LEMMA EnsuredQuiet ==
  ASSUME NEW c \in Context, NEW reached
  PROVE  Ensured(c, reached).audio = c.audio
  BY DEF Ensured, Context

\* and neither does a lease, made or failed.
LEMMA LeaseQuiet ==
  ASSUME NEW c \in Context, NEW m, NEW stage, Lease(c, m) \/ LeaseFails(c, stage, m)
  PROVE  ctx'.audio = c.audio
<1>1. \A bytes : [c EXCEPT !.opened[m] = bytes].audio = c.audio
  BY DEF Context
<1> QED BY <1>1 DEF Lease, LeaseFails

\* So a call that begins, or is refused, leaves the context without a song.
LEMMA CallQuiet ==
  ASSUME disk \in Components, NEW entered \in Context, entered.audio = None,
         NEW stage, NEW m, NEW next,
         \/ EnsureFails(stage, entered)
         \/ ctx' = Ensured(entered, "ready")
         \/ EnterLease(Ensured(entered, "ready"), m, next)
         \/ LeaseFails(Ensured(entered, "ready"), stage, m)
  PROVE  ctx'.audio = None
<1> DEFINE ready == Ensured(entered, "ready")
<1>1. ready \in Context /\ ready.audio = None
  BY EnsuredTyped, EnsuredQuiet
<1>2. CASE EnsureFails(stage, entered)
  BY <1>2, EnsuredQuiet DEF EnsureFails
<1> HIDE DEF ready
<1>3. CASE ctx' = ready
  BY <1>1, <1>3
<1>4. CASE EnterLease(ready, m, next)
  BY <1>1, <1>4, LeaseQuiet DEF EnterLease
<1>5. CASE LeaseFails(ready, stage, m)
  BY <1>1, <1>5, LeaseQuiet
<1> QED BY <1>2, <1>3, <1>4, <1>5 DEF ready

\* The one step that makes a song.
Sings ==
  /\ CompleteDecode
  /\ Return("DECODE", "DONE", "OK", None)
  /\ ctx' = [ctx EXCEPT !.audio =
               [req |-> decode.input.source.req, pieces |-> decode.pieces]]

\* Every other step of a stage ends without one.
LEMMA StageQuiet ==
  ASSUME EngineInv, AudioInv, StageCodes \/ StageDiffuse \/ StageDecode
  PROVE  Sings \/ ctx'.audio = None
<1> USE DEF Modules
<1>1. disk \in Components /\ (ctx # None => ctx \in Context)
  BY EngineFacts
<1>2. ASSUME NEW r \in Requests, StartCodes(r)
      PROVE  ctx'.audio = None
  <2> DEFINE entered == [Entered(ctx) EXCEPT !.duration = r]
  <2>1. entered \in Context /\ entered.audio = None
    BY <1>1, <1>2, EnteredQuiet DEF StartCodes
  <2>2. \/ EnsureFails("CODES", entered)
        \/ EnterLease(Ensured(entered, "ready"), "ar", "ar")
        \/ LeaseFails(Ensured(entered, "ready"), "CODES", "ar")
    BY <1>2 DEF StartCodes, BeginAr
  <2> HIDE DEF entered
  <2> QED BY <1>1, <2>1, <2>2, CallQuiet
<1>3. CASE ResumeCodes
  <2> DEFINE entered == [Entered(ctx) EXCEPT !.duration = store["COD"].req]
  <2>1. ctx \in Context /\ store["COD"] \in PausedCodes
    BY <1>1, <1>3, EngineFacts DEF ResumeCodes
  <2>2. entered \in Context /\ entered.audio = None
    BY <2>1, EnteredQuiet DEF PausedCodes
  <2>3. \/ EnsureFails("CODES", entered)
        \/ ctx' = Ensured(entered, "ready")
        \/ EnterLease(Ensured(entered, "ready"), "ar", "ar")
        \/ LeaseFails(Ensured(entered, "ready"), "CODES", "ar")
    BY <1>3 DEF ResumeCodes, BeginAr
  <2> HIDE DEF entered
  <2> QED BY <1>1, <2>2, <2>3, CallQuiet
<1>4. ASSUME NEW b, NEW s, NEW accepted, CallDiffuse(b, s, accepted)
      PROVE  ctx'.audio = None
  <2>1. Entered(ctx) \in Context /\ Entered(ctx).audio = None
    BY <1>1, <1>4, EnteredQuiet, EnteredTyped DEF CallDiffuse
  <2>2. \/ EnsureFails("DIFFUSE", Entered(ctx))
        \/ ctx' = Ensured(Entered(ctx), "ready")
        \/ EnterLease(Ensured(Entered(ctx), "ready"), "flow", "flow")
        \/ LeaseFails(Ensured(Entered(ctx), "ready"), "DIFFUSE", "flow")
    BY <1>4 DEF CallDiffuse
  <2> QED BY <1>1, <2>1, <2>2, CallQuiet
<1>5. CASE StartDecode
  <2>1. Entered(ctx) \in Context /\ Entered(ctx).audio = None
    BY <1>1, <1>5, EnteredQuiet, EnteredTyped DEF StartDecode
  <2>2. \/ EnsureFails("DECODE", Entered(ctx))
        \/ ctx' = Ensured(Entered(ctx), "ready")
        \/ EnterLease(Ensured(Entered(ctx), "ready"), "vocoder", "decode")
        \/ LeaseFails(Ensured(Entered(ctx), "ready"), "DECODE", "vocoder")
    BY <1>5 DEF StartDecode
  <2> QED BY <1>1, <2>1, <2>2, CallQuiet
<1>6. pc # "idle" => ctx \in Context /\ ctx.audio = None
  BY EngineFacts DEF AudioInv, Holding
<1>7. CASE BeginProjection
  <2>1. Lease(ctx, "condition") \/ LeaseFails(ctx, "CODES", "condition")
    BY <1>7 DEF BeginProjection
  <2>2. pc # "idle"
    BY <1>7 DEF BeginProjection
  <2> QED BY <1>6, <2>1, <2>2, LeaseQuiet
<1>8. CASE \/ ReplayFrame \/ SampleFrame \/ SampleEos \/ FinishAr
           \/ ProjectWindow \/ CompleteCodes \/ CodesInterrupted
  BY <1>6, <1>8 DEF ReplayFrame, SampleFrame, KeepFrame, SampleEos, FinishAr,
     ProjectWindow, CompleteCodes, Projecting, CodesInterrupted,
     PauseAr, ArFault, PauseProjection, ProjectionFault
<1>9. CASE DiffuseStep \/ DiffuseInterrupted
  BY <1>6, <1>9 DEF DiffuseStep, DiffuseInterrupted, EulerStep, Denoising,
     FinishWindow, CompleteFlow, PauseFlow, FlowFault
<1>10. CASE DecodeWindow \/ DecodeInterrupted
  BY <1>6, <1>10 DEF DecodeWindow, DecodeInterrupted, Decoding, PauseDecode, DecodeFault
<1>11. CASE CompleteDecode
  BY <1>6, <1>11 DEF CompleteDecode, Sings
<1> QED BY <1>2, <1>3, <1>4, <1>5, <1>7, <1>8, <1>9, <1>10, <1>11
    DEF StageCodes, CodesCall, CodesStep, StageDiffuse, DiffuseCall, StartDiffuse,
        ResumeDiffuse, StageDecode, DecodeStep

\* No step of the host makes a song or hides that one has been made.
LEMMA HostQuiet ==
  ASSUME EngineInv,
         \/ RejectedInput \/ Load \/ Free \/ Crash \/ ReplaceFiles
  PROVE  \/ ctx' = None \/ ctx'.audio = None
         \/ UNCHANGED <<ctx, pc, ret>>
<1>1. CASE RejectedInput
  BY <1>1, EngineFacts, EnteredQuiet DEF RejectedInput
<1>2. CASE Load
  BY <1>2 DEF Load, FreshContext
<1>3. CASE Free \/ Crash
  BY <1>3 DEF Free, Crash
<1>4. CASE ReplaceFiles
  BY <1>4 DEF ReplaceFiles
<1> QED BY <1>1, <1>2, <1>3, <1>4

LEMMA AudioNext ==
  ASSUME EngineInv, AudioInv, [Next]_vars
  PROVE  AudioInv'
<1>1. ASSUME Sings
      PROVE  AudioInv'
  <2>1. /\ pc' = "idle"
        /\ ret' = [stage |-> "DECODE", status |-> "DONE", error |-> "OK", out |-> None]
    BY <1>1 DEF Sings, Return
  <2>2. ret' \in Outcome
    BY <2>1 DEF Outcome, Stages, Statuses, Errors
  <2> QED BY <2>1, <2>2, NoneAssumption DEF AudioInv
<1>2. ASSUME ctx' = None \/ ctx'.audio = None
      PROVE  AudioInv'
  BY <1>2 DEF AudioInv, Holding
<1>3. ASSUME UNCHANGED <<ctx, pc, ret>>
      PROVE  AudioInv'
  BY <1>3 DEF AudioInv, Holding
<1>4. CASE StageCodes \/ StageDiffuse \/ StageDecode
  BY <1>1, <1>2, <1>4, StageQuiet
<1>5. CASE RejectedInput \/ Load \/ Free \/ Crash \/ ReplaceFiles
  BY <1>2, <1>3, <1>5, HostQuiet
<1>6. CASE InvalidArguments \/ UNCHANGED vars
  BY <1>3, <1>6 DEF InvalidArguments, vars
<1> QED BY <1>4, <1>5, <1>6 DEF Next

(***************************************************************************)
(* A context holds a song only between calls, and only while the last call *)
(* it dispatched is the DECODE that completed the song: whatever is called *)
(* next drops it, and no call that is refused, fails or pauses leaves one. *)
(***************************************************************************)
THEOREM SongOnlyThen == Spec => []SongOnlyAfterDecode
<1>1. Init => AudioInv
  BY DEF Init, AudioInv, Holding
<1>2. EngineInv /\ AudioInv /\ [Next]_vars => AudioInv'
  BY AudioNext
<1>3. AudioInv => SongOnlyAfterDecode
  BY DEF AudioInv, Holding, SongOnlyAfterDecode
<1> QED BY <1>1, <1>2, <1>3, Inductive, PTL DEF Spec

-----------------------------------------------------------------------------
(***************************************************************************)
(* Progress of DIFFUSE.  A call that resumed a paused boundary has its     *)
(* windows, in their places, and in the window in progress there no fewer  *)
(* updates than the boundary had.                                          *)
(***************************************************************************)
Resumed(f) ==
  f.input.kind = "FLW" =>
    /\ IsPrefix(f.input.completed, f.completed)
    /\ f.input.first = Len(f.input.completed)
    /\ Len(f.completed) = f.input.first => f.step >= f.input.second

ResumedInv ==
  /\ flow # None => pc = "flow"
  /\ pc = "flow" => Resumed(flow)

\* A sequence is a prefix of itself, and of what it is appended to.
LEMMA PrefixKept ==
  ASSUME NEW S, NEW s \in Seq(S), NEW t \in Seq(S), NEW x \in S
  PROVE  /\ IsPrefix(s, s)
         /\ IsPrefix(s, t) => Len(s) <= Len(t) /\ IsPrefix(s, Append(t, x))
<1>1. IsPrefix(s, s)
  BY DEF IsPrefix
<1>2. ASSUME IsPrefix(s, t)
      PROVE  Len(s) <= Len(t) /\ IsPrefix(s, Append(t, x))
  <2>1. Len(s) <= Len(t) /\ SubSeq(s, 1, Len(s)) = SubSeq(t, 1, Len(s))
    BY <1>2 DEF IsPrefix
  <2>2. SubSeq(t, 1, Len(s)) = SubSeq(Append(t, x), 1, Len(s))
    BY <2>1
  <2>3. Len(s) <= Len(Append(t, x))
    BY <2>1
  <2> QED BY <2>1, <2>2, <2>3 DEF IsPrefix
<1> QED BY <1>1, <1>2

\* What the input of a call in progress is.
LEMMA InputFacts ==
  ASSUME EngineInv, pc = "flow", flow.input.kind = "FLW"
  PROVE  /\ flow.input.completed \in Seq(Latent)
         /\ flow.input.first \in Nat /\ flow.input.second \in Nat
<1>1. flow.input \in CompletedCodes \cup PausedFlow
  BY FlowFacts DEF FlowState
<1>2. \A b \in CompletedCodes : b.kind = "CON"
  BY DEF CompletedCodes
<1>3. flow.input \in PausedFlow
  BY <1>1, <1>2
<1>4. \A b \in PausedFlow : /\ b.completed \in Seq(Latent)
                            /\ b.first \in Nat /\ b.second \in Nat
  BY DEF PausedFlow
<1> QED BY <1>3, <1>4

\* A finished window comes after those of the input.
LEMMA FinishedAfter ==
  ASSUME EngineInv, pc = "flow", Resumed(flow), flow.input.kind = "FLW"
  PROVE  /\ IsPrefix(flow.input.completed, FinishedWindows)
         /\ Len(FinishedWindows) # flow.input.first
<1> DEFINE pasted == [flow.latent EXCEPT !.head =
                        IF flow.carry # 0 THEN flow.carry ELSE @]
<1>1. pasted \in Latent
  BY FlowFacts, PastedTyped
<1>2. FinishedWindows = Append(flow.completed, pasted)
  BY DEF FinishedWindows
<1>3. flow.completed \in Seq(Latent) /\ flow.input.completed \in Seq(Latent)
  BY FlowFacts, InputFacts
<1>4. /\ IsPrefix(flow.input.completed, flow.completed)
      /\ flow.input.first = Len(flow.input.completed)
  BY DEF Resumed
<1> HIDE DEF pasted
<1>5. /\ Len(flow.input.completed) <= Len(flow.completed)
      /\ IsPrefix(flow.input.completed, Append(flow.completed, pasted))
  BY <1>1, <1>3, <1>4, PrefixKept
<1> QED BY <1>1, <1>2, <1>3, <1>4, <1>5

\* The other stages never run while a DIFFUSE call does.
LEMMA ElsewhereIdle ==
  ASSUME StageCodes \/ StageDecode
  PROVE  flow' = flow /\ pc # "flow" /\ pc' # "flow"
<1>1. CASE StageCodes
  <2>1. flow' = flow /\ pc # "flow"
    BY <1>1 DEF StageCodes, CodesCall, CodesStep, CodesInterrupted, StartCodes,
       ResumeCodes, ReplayFrame, SampleFrame, SampleEos, FinishAr, BeginProjection,
       ProjectWindow, CompleteCodes, Projecting, PauseAr, ArFault, PauseProjection,
       ProjectionFault
  <2>2. pc' # "flow"
    BY <1>1 DEF StageCodes, CodesCall, CodesStep, CodesInterrupted, StartCodes,
       ResumeCodes, BeginAr, EnterLease, LeaseFails, EnsureFails, RefuseBoundary,
       ReplayFrame, SampleFrame, KeepFrame, SampleEos, FinishAr, BeginProjection,
       ProjectWindow, CompleteCodes, Projecting, PauseAr, ArFault, PauseProjection,
       ProjectionFault, LeasedFault, Emit, Fail, Return
  <2> QED BY <2>1, <2>2
<1>2. CASE StageDecode
  BY <1>2 DEF StageDecode, StartDecode, DecodeStep, DecodeWindow, CompleteDecode,
     DecodeInterrupted, Decoding, PauseDecode, DecodeFault, EnterLease, LeaseFails,
     EnsureFails, RefuseBoundary, LeasedFault, Fail, Return
<1> QED BY <1>1, <1>2

\* A call begins where its input ends.
LEMMA BeginsResumed ==
  ASSUME EngineInv, DiffuseCall
  PROVE  /\ pc = "idle"
         /\ \/ flow' = flow /\ pc' = "idle"
            \/ pc' = "flow" /\ Resumed(flow')
<1>1. pc = "idle"
  BY DEF DiffuseCall, StartDiffuse, ResumeDiffuse, CallDiffuse
<1> SUFFICES \/ flow' = flow /\ pc' = "idle"
             \/ pc' = "flow" /\ Resumed(flow')
  BY <1>1
<1>2. CASE StartDiffuse
  <2> DEFINE b == store["CON"]
  <2>1. \/ UNCHANGED flow /\ pc' = "idle"
        \/ pc' = "flow" /\ flow' = FlowStart(FreshFlow(b), runtime'["flow"])
    BY <1>2 DEF StartDiffuse, CallDiffuse, EnterLease, EnsureFails, RefuseBoundary,
                LeaseFails, Fail, Return
  <2>2. \A c : FlowStart(FreshFlow(b), c).input = b
    BY DEF FlowStart, FreshFlow
  <2>3. b.kind = "CON"
    BY <1>2, EngineFacts DEF StartDiffuse, CompletedCodes
  <2> QED BY <2>1, <2>2, <2>3 DEF Resumed
<1>3. CASE ResumeDiffuse
  <2> DEFINE b == store["FLW"]
  <2>1. \/ UNCHANGED flow /\ pc' = "idle"
        \/ /\ pc' = "flow" /\ FlowCursorAccepted(b)
           /\ flow' = FlowStart(ResumedFlow(b), runtime'["flow"])
    BY <1>3 DEF ResumeDiffuse, CallDiffuse, EnterLease, EnsureFails, RefuseBoundary,
                LeaseFails, Fail, Return
  <2>2. \A c : /\ FlowStart(ResumedFlow(b), c).input = b
               /\ FlowStart(ResumedFlow(b), c).completed = b.completed
               /\ FlowStart(ResumedFlow(b), c).step = b.second
    BY DEF FlowStart, ResumedFlow
  <2>3. b \in PausedFlow
    BY <1>3, EngineFacts DEF ResumeDiffuse
  <2>4. b.completed \in Seq(Latent) /\ b.second \in Nat
    BY <2>3 DEF PausedFlow
  <2>5. IsPrefix(b.completed, b.completed)
    BY <2>4 DEF IsPrefix
  <2> HIDE DEF b
  <2> QED BY <2>1, <2>2, <2>4, <2>5 DEF Resumed, FlowCursorAccepted
<1> QED BY <1>2, <1>3 DEF DiffuseCall

\* An update adds one to the step, and a new window is none of the input's.
LEMMA LoopResumed ==
  ASSUME EngineInv, Resumed(flow), EulerStep \/ FinishWindow
  PROVE  pc' = "flow" /\ Resumed(flow')
<1>1. pc = "flow" /\ pc' = "flow"
  BY DEF EulerStep, Denoising, FinishWindow
<1>2. flow \in FlowState /\ flow.step \in Nat
  BY <1>1, FlowFacts
<1>3. CASE EulerStep
  <2>1. /\ flow'.input = flow.input /\ flow'.completed = flow.completed
        /\ flow'.step = flow.step + 1
    BY <1>2, <1>3 DEF EulerStep, FlowState
  <2> QED BY <1>1, <1>2, <2>1, InputFacts DEF Resumed
<1>4. CASE FinishWindow
  <2>1. flow'.input = flow.input /\ flow'.completed = FinishedWindows
    BY <1>2, <1>4 DEF FinishWindow, FlowState
  <2> QED BY <1>1, <2>1, FinishedAfter DEF Resumed
<1> QED BY <1>3, <1>4

LEMMA ResumedNext ==
  ASSUME EngineInv, ResumedInv, [Next]_vars
  PROVE  ResumedInv'
<1>1. ASSUME flow' = None, pc' = "idle"
      PROVE  ResumedInv'
  BY <1>1 DEF ResumedInv
<1>2. ASSUME flow' = flow, (pc # "flow" /\ pc' # "flow") \/ pc' = pc
      PROVE  ResumedInv'
  BY <1>2 DEF ResumedInv
<1>3. ASSUME pc' = "flow", Resumed(flow')
      PROVE  ResumedInv'
  BY <1>3 DEF ResumedInv
<1>4. CASE StageCodes \/ StageDecode
  BY <1>2, <1>4, ElsewhereIdle
<1>5. CASE StageDiffuse
  <2>1. CASE DiffuseCall
    BY <1>2, <1>3, <2>1, BeginsResumed
  <2>2. CASE EulerStep \/ FinishWindow
    BY <1>3, <2>2, LoopResumed DEF ResumedInv, EulerStep, Denoising, FinishWindow
  <2>3. CASE CompleteFlow \/ PauseFlow \/ FlowFault
    BY <1>1, <2>3 DEF CompleteFlow, PauseFlow, FlowFault, LeasedFault, Emit, Fail, Return
  <2> QED BY <1>5, <2>1, <2>2, <2>3 DEF StageDiffuse, DiffuseStep, DiffuseInterrupted
<1>6. CASE RejectedInput \/ Load \/ Free \/ Crash \/ ReplaceFiles
  BY <1>1, <1>2, <1>6 DEF RejectedInput, Load, Free, Crash,
     ReplaceFiles, locals, Fail, Return
<1>7. CASE InvalidArguments \/ UNCHANGED vars
  BY <1>2, <1>7 DEF InvalidArguments, vars
<1> QED BY <1>4, <1>5, <1>6, <1>7 DEF Next

(***************************************************************************)
(* What a call in progress saves is no less than what it was resumed from. *)
(***************************************************************************)
\* A boundary is stored under its own kind, and nothing else is touched.
LEMMA StoredKind ==
  ASSUME StoreOK, NEW stage, NEW status, NEW error, NEW out,
         Return(stage, status, error, out), NEW k \in Kinds, store'[k] # store[k]
  PROVE  out # None /\ k = out.kind /\ store'[k] = out
  BY DEF Return, StoreOK

LEMMA ProgressStep ==
  ASSUME EngineInv, ResumedInv, [Next]_vars, NEW k \in {"FLW", "LAT"},
         store'[k] # store[k], flow # None, flow.input.kind = "FLW"
  PROVE  FlowProgress(flow.input, store'[k])
<1>1. pc = "flow" /\ Resumed(flow) /\ StoreOK /\ k \in Kinds
  BY EngineFacts DEF ResumedInv, Kinds
<1>2. CASE PauseFlow
  <2>1. Return("DIFFUSE", "PAUSED", "CANCEL", PausedFlowBoundary)
    BY <1>2 DEF PauseFlow, Emit, Fail, Return
  <2>2. store'[k] = PausedFlowBoundary
    BY <1>1, <2>1, StoredKind
  <2>3. /\ PausedFlowBoundary.completed = flow.completed
        /\ PausedFlowBoundary.first = Len(flow.completed)
        /\ PausedFlowBoundary.second = flow.step
    BY DEF PausedFlowBoundary
  <2> QED BY <1>1, <2>2, <2>3 DEF Resumed, FlowProgress
<1>3. CASE CompleteFlow
  <2> DEFINE out == CompletedFlowBoundary(FinishedWindows)
  <2>1. Return("DIFFUSE", "DONE", "OK", out)
    BY <1>3 DEF CompleteFlow, Emit, Fail, Return
  <2>2. out.completed = FinishedWindows /\ out.kind = "LAT"
    BY DEF CompletedFlowBoundary
  <2> HIDE DEF out
  <2>3. store'[k] = out
    BY <1>1, <2>1, StoredKind
  <2> QED BY <1>1, <2>2, <2>3, FinishedAfter DEF FlowProgress
<1>4. store' # store /\ pc # "idle"
  BY <1>1
<1>5. CASE StageCodes \/ StageDecode
  BY <1>1, <1>5, ElsewhereIdle
<1>6. CASE StageDiffuse
  <2>1. PauseFlow \/ CompleteFlow
    BY <1>4, <1>6 DEF StageDiffuse, DiffuseCall, StartDiffuse, ResumeDiffuse,
       CallDiffuse, DiffuseStep, EulerStep, FinishWindow, DiffuseInterrupted,
       FlowFault, LeasedFault, Fail, Return
  <2> QED BY <1>2, <1>3, <2>1
<1> QED BY <1>2, <1>3, <1>4, <1>5, <1>6 DEF Next, vars, InvalidArguments,
           RejectedInput, Load, Free, Crash, ReplaceFiles

(***************************************************************************)
(* No DIFFUSE call that resumed a paused boundary ever saves fewer         *)
(* finished windows, others, or fewer updates of the same window.          *)
(***************************************************************************)
THEOREM FlowProgresses == Spec => FlowProgressKept
<1>1. Init => ResumedInv
  BY DEF Init, ResumedInv
<1>2. EngineInv /\ ResumedInv /\ [Next]_vars => ResumedInv'
  BY ResumedNext
<1>3. EngineInv /\ ResumedInv /\ [Next]_vars =>
        [\A k \in {"FLW", "LAT"} :
           store'[k] # store[k] /\ flow # None /\ flow.input.kind = "FLW"
             => FlowProgress(flow.input, store'[k])]_vars
  BY ProgressStep
<1> QED BY <1>1, <1>2, <1>3, Inductive, PTL DEF Spec, FlowProgressKept
=============================================================================
