---------------------------- MODULE EngineState ----------------------------
(***************************************************************************)
(* The state the three stages of the Cantor engine share: one context      *)
(* (cantor_ctx), its model runtimes and their leases, the outcome of the   *)
(* last call of run_stage, and the boundaries the host has saved.          *)
(*                                                                         *)
(* A context runs one stage call at a time, so the call in progress is a   *)
(* program counter and a record of the call's locals (in the module of its *)
(* stage).  The points where control leaves the engine are the polls of    *)
(* should_cancel; everything between two polls is one step.                *)
(***************************************************************************)
EXTENDS Boundaries

CONSTANTS
  KeepOptions,     \* the keep_loaded values a host may load with
  FilesMayChange,  \* whether component files are replaced under a live context
  ComputeErrors    \* what computations throw: std::bad_alloc, other exceptions

ASSUME OptionsAssumption ==
  /\ KeepOptions \subseteq BOOLEAN
  /\ FilesMayChange \in BOOLEAN
  /\ ComputeErrors \subseteq {"OOM", "OTHER"}

VARIABLES
  disk,     \* the component mix the five paths name now
  ctx,      \* the context, None when the host holds none
  runtime,  \* runtime[m]: the weights a live runtime slot was loaded from
  graphs,   \* runtimes that hold request graphs or KV state
  pc,       \* where the call in progress is; "idle" between calls
  ret,      \* what the last call that run_stage dispatched returned
  store     \* the host's saved boundary of each kind

Modules == {"ar", "condition", "flow", "vocoder"}

Absent == [m \in Modules |-> None]

Song == [req : Requests, pieces : Seq(Piece)]

Context ==
  [keep : BOOLEAN,
   identities : Components \cup {None},   \* hashed once per context
   assets : BOOLEAN,
   opened : [Modules -> Components \cup {None}],  \* bytes the assets hold
   execution : BOOLEAN,
   duration : Requests \cup {None},       \* whose duration the context reports
   audio : Song \cup {None}]

FreshContext(keep) ==
  [keep |-> keep, identities |-> None, assets |-> FALSE, opened |-> Absent,
   execution |-> FALSE, duration |-> None, audio |-> None]

Stages == {"CODES", "DIFFUSE", "DECODE"}
Statuses == {"DONE", "PAUSED", "ERR"}
Errors == {"OK", "OOM", "MODEL", "BACKEND", "CANCEL", "OTHER"}

Outcome ==
  [stage : Stages, status : Statuses, error : Errors, out : Kinds \cup {None}]

\* The absent value is no context, no outcome, no boundary and no latent.
ASSUME NoneAssumption ==
  None \notin Context \cup Outcome \cup Boundary \cup Latent

-----------------------------------------------------------------------------
(***************************************************************************)
(* Where the weights of a runtime come from.  Opening the assets maps all  *)
(* files; building a runtime of m drops the mapping of m's file, so a      *)
(* later build reads the path again.  While files cannot change, what is   *)
(* mapped is what the path names, and nothing needs to be recorded.        *)
(***************************************************************************)
Recorded(bytes) == IF FilesMayChange THEN bytes ELSE None

Opened == [m \in Modules |-> Recorded(disk)]

BytesOf(c, m) == IF c.opened[m] = None THEN disk ELSE c.opened[m]

(***************************************************************************)
(* runtime_lease in context c: the constructor fills an empty slot,        *)
(* finish() releases the request graphs and, unless weights are kept, the  *)
(* runtime; leaving by an exception discards the runtime in either case.   *)
(***************************************************************************)
Lease(c, m) ==
  /\ \/ /\ runtime[m] = None
        /\ runtime' = [runtime EXCEPT ![m] = BytesOf(c, m)]
        /\ ctx' = [c EXCEPT !.opened[m] = None]
     \/ /\ runtime[m] # None
        /\ ctx' = c
        /\ UNCHANGED runtime
  /\ graphs' = graphs \cup {m}

\* Mutant: a kept runtime keeps its graphs.
FinishLeaseKeepsGraphs(m) ==
  /\ runtime' = IF ctx.keep THEN runtime ELSE [runtime EXCEPT ![m] = None]
  /\ graphs' = IF ctx.keep THEN graphs ELSE graphs \ {m}

FinishLease(m) ==
  /\ runtime' = IF ctx.keep THEN runtime ELSE [runtime EXCEPT ![m] = None]
  /\ graphs' = graphs \ {m}

UnwindLease(m) ==
  /\ runtime' = [runtime EXCEPT ![m] = None]
  /\ graphs' = graphs \ {m}

-----------------------------------------------------------------------------
(***************************************************************************)
(* ensure_components keeps whatever it completed before it failed: the     *)
(* digests, then the assets, then the execution backend.                   *)
(***************************************************************************)
Ensured(c, reached) ==
  [c EXCEPT !.identities = IF @ = None /\ reached # "hash" THEN disk ELSE @,
            !.assets = @ \/ reached \in {"backend", "ready"},
            !.opened = IF ~c.assets /\ reached \in {"backend", "ready"}
                       THEN Opened ELSE @,
            !.execution = @ \/ reached = "ready"]

CanFail(c, at) ==
  \/ at = "hash" /\ c.identities = None
  \/ at = "assets" /\ ~c.assets
  \/ at = "backend" /\ ~c.execution

\* Mutant: only a successful DECODE replaces the song.
EnteredWithSong(c) == c

\* run_stage drops the previous song before it dispatches to a stage.
Entered(c) == [c EXCEPT !.audio = None]

Return(stage, status, error, out) ==
  /\ pc' = "idle"
  /\ ret' = [stage |-> stage, status |-> status, error |-> error,
             out |-> IF out = None THEN None ELSE out.kind]
  /\ store' = IF out = None THEN store ELSE [store EXCEPT ![out.kind] = out]

Fail(stage, error) == Return(stage, "ERR", error, None)

\* Encoding or allocating the output may fail; the caller then gets no blob.
Emit(stage, status, error, out) ==
  \/ Return(stage, status, error, out)
  \/ \E e \in ComputeErrors : Fail(stage, e)

EnsureFails(stage, entered) ==
  \E at \in {"hash", "assets", "backend"} :
    /\ CanFail(entered, at)
    /\ ctx' = Ensured(entered, at)
    /\ Fail(stage, IF at = "backend" THEN "BACKEND" ELSE "MODEL")
    /\ UNCHANGED <<runtime, graphs>>

\* A boundary of another mix is a model error; a bad cursor is not.
RefuseBoundary(stage, sameMix) ==
  /\ Fail(stage, IF sameMix THEN "OTHER" ELSE "MODEL")
  /\ UNCHANGED <<runtime, graphs>>

\* The factory of a lease throws: the slot stays empty, the file mapped or not.
LeaseFails(c, stage, m) ==
  /\ runtime[m] = None
  /\ \E bytes \in {None, Recorded(BytesOf(c, m))} :
       ctx' = [c EXCEPT !.opened[m] = bytes]
  /\ \E e \in ComputeErrors : Fail(stage, e)
  /\ UNCHANGED <<runtime, graphs>>

EnterLease(c, m, next) ==
  /\ Lease(c, m)
  /\ pc' = next
  /\ ret' = None
  /\ UNCHANGED store

\* An exception while module m is leased.
LeasedFault(stage, m) ==
  /\ UnwindLease(m)
  /\ \E e \in ComputeErrors : Fail(stage, e)
=============================================================================
