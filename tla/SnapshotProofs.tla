--------------------------- MODULE SnapshotProofs ---------------------------
(***************************************************************************)
(* The downloader keeps its types and its pool, never asks again for bytes *)
(* it has, and its manifest is true, for every inventory, every pool and   *)
(* every sequence of runs.                                                 *)
(*                                                                         *)
(* That a file which is written is there (Streaming) is needed to know     *)
(* that its .part keeps its type; that a verified file stays verified      *)
(* (KeptWhole) is what makes an old manifest still true.                   *)
(***************************************************************************)
EXTENDS Snapshot, FiniteSetTheorems, TLAPS

Tasks == {"none", "queued", "request", "stream", "check", "done", "failed", "lost"}
Busy == {"request", "stream", "check"}

Streaming == \A f \in Files : task[f] = "stream" => part[f] \in Content

SnapshotInv == TypeOK /\ Streaming

\* The conjuncts of TypeOK that a task of the pool can disturb.
FilesTyped ==
  /\ dest \in [Files -> Content \cup {None}]
  /\ part \in [Files -> Content \cup {None}]

PoolTyped == task \in [Files -> Tasks] /\ Cardinality(Active) <= Jobs

MainTyped ==
  /\ run \in {"idle", "killed", "pool", "manifest"}
  /\ selected \subseteq Files
  /\ manifest \in [complete : BOOLEAN, verified : SUBSET Files] \cup {None}

LEMMA TypeParts == TypeOK <=> MainTyped /\ FilesTyped /\ PoolTyped
  BY DEF TypeOK, MainTyped, FilesTyped, PoolTyped, Tasks

-----------------------------------------------------------------------------
(***************************************************************************)
(* The pool.  The active files are finitely many; a task that moves on     *)
(* adds none, and one that starts adds itself.                             *)
(***************************************************************************)
LEMMA ActiveFinite ==
  ASSUME NEW S \in SUBSET Files
  PROVE  IsFiniteSet(S) /\ Cardinality(S) \in Nat
  BY SnapshotAssumption, FS_Subset, FS_CardinalityType

LEMMA NoneActive ==
  ASSUME \A f \in Files : task'[f] \notin Busy
  PROVE  Cardinality(Active') <= Jobs
<1>1. Active' = {}
  BY DEF Active, Busy
<1> QED BY <1>1, FS_EmptySet, SnapshotAssumption

LEMMA TaskMoves ==
  ASSUME PoolTyped, NEW f \in Files, NEW t \in Tasks,
         task' = [task EXCEPT ![f] = t], t \in Busy => task[f] \in Busy
  PROVE  PoolTyped'
<1>1. Active' \subseteq Active /\ Active \in SUBSET Files
  BY DEF PoolTyped, Active, Busy
<1>2. Cardinality(Active') <= Cardinality(Active)
  BY <1>1, ActiveFinite, FS_Subset
<1>3. Cardinality(Active') \in Nat /\ Cardinality(Active) \in Nat
  BY <1>1, ActiveFinite
<1> QED BY <1>2, <1>3, SnapshotAssumption DEF PoolTyped

LEMMA TaskStarts ==
  ASSUME PoolTyped, NEW f \in Files, Cardinality(Active) < Jobs,
         task' = [task EXCEPT ![f] = "request"]
  PROVE  PoolTyped'
<1>1. Active' \subseteq Active \cup {f} /\ Active \in SUBSET Files
  BY DEF PoolTyped, Active
<1>2. /\ Cardinality(Active) \in Nat /\ IsFiniteSet(Active)
      /\ IsFiniteSet(Active \cup {f}) /\ Cardinality(Active \cup {f}) \in Nat
      /\ Cardinality(Active') \in Nat
  BY <1>1, ActiveFinite
<1>3. Cardinality(Active \cup {f}) <= Cardinality(Active) + 1
  BY <1>2, FS_AddElement
<1>4. Cardinality(Active') <= Cardinality(Active \cup {f})
  BY <1>1, <1>2, FS_Subset
<1>5. Jobs \in Nat
  BY SnapshotAssumption
<1>6. Cardinality(Active') <= Jobs
  BY <1>2, <1>3, <1>4, <1>5
<1> QED BY <1>6 DEF PoolTyped, Tasks

-----------------------------------------------------------------------------
(***************************************************************************)
(* What a task does to the files.                                          *)
(***************************************************************************)
\* A part is dropped, begun, grown by a unit, or left; a file becomes whole.
PartMoves(f) ==
  \/ part' = part
  \/ part' = [part EXCEPT ![f] = None]
  \/ part' = [part EXCEPT ![f] = Empty]
  \/ \E good \in BOOLEAN :
       /\ part[f] \in Content
       /\ part' = [part EXCEPT ![f] =
                     [size |-> @.size + 1, intact |-> @.intact /\ good]]

DestMoves(f) == dest' = dest \/ dest' = [dest EXCEPT ![f] = Whole(f)]

LEMMA ContentTyped ==
  /\ Empty \in Content
  /\ \A f \in Files : Whole(f) \in Content
  /\ \A c \in Content, good \in BOOLEAN :
       [size |-> c.size + 1, intact |-> c.intact /\ good] \in Content
<1>1. \A c \in Content : c.size + 1 \in Nat /\ c.intact \in BOOLEAN
  BY DEF Content
<1>2. \A f \in Files : SizeOf[f] \in Nat
  BY SnapshotAssumption
<1>3. ASSUME NEW c \in Content, NEW good \in BOOLEAN
      PROVE  [size |-> c.size + 1, intact |-> c.intact /\ good] \in Content
  <2>1. (c.intact /\ good) \in BOOLEAN
    OBVIOUS
  <2> QED BY <1>1, <2>1 DEF Content
<1> QED BY <1>2, <1>3 DEF Content, Empty, Whole

LEMMA FilesMove ==
  ASSUME FilesTyped, NEW f \in Files, PartMoves(f), DestMoves(f)
  PROVE  FilesTyped'
<1>1. dest' \in [Files -> Content \cup {None}]
  BY ContentTyped DEF FilesTyped, DestMoves
<1>2. CASE \/ part' = part \/ part' = [part EXCEPT ![f] = None]
           \/ part' = [part EXCEPT ![f] = Empty]
  BY <1>1, <1>2, ContentTyped DEF FilesTyped
<1>3. ASSUME NEW good \in BOOLEAN, part[f] \in Content,
             part' = [part EXCEPT ![f] =
                        [size |-> @.size + 1, intact |-> @.intact /\ good]]
      PROVE  FilesTyped'
  <2>1. [size |-> part[f].size + 1, intact |-> part[f].intact /\ good] \in Content
    BY <1>3, ContentTyped
  <2> QED BY <1>1, <1>3, <2>1 DEF FilesTyped
<1> QED BY <1>2, <1>3 DEF PartMoves

\* No other file is touched by a task.
LEMMA OthersStay ==
  ASSUME FilesTyped, NEW f \in Files, PartMoves(f), DestMoves(f),
         NEW g \in Files, g # f
  PROVE  part'[g] = part[g] /\ dest'[g] = dest[g]
  BY DEF FilesTyped, PartMoves, DestMoves

-----------------------------------------------------------------------------
(***************************************************************************)
(* Every step of a task, and what it keeps.                                *)
(***************************************************************************)
TaskStep(f) ==
  /\ UNCHANGED <<run, selected, manifest>>
  /\ PartMoves(f) /\ DestMoves(f)
  /\ PoolTyped'
  /\ \A g \in Files : g # f => task'[g] = task[g]
  /\ task'[f] = "stream" => part'[f] \in Content

LEMMA FilePart ==
  ASSUME FilesTyped, NEW f \in Files
  PROVE  /\ part[f] # None => part[f] \in Content /\ part[f].size \in Nat
         /\ SizeOf[f] \in Nat \ {0}
  BY SnapshotAssumption DEF FilesTyped, Content

LEMMA OpenStep ==
  ASSUME SnapshotInv, NEW f \in Files, Open(f)
  PROVE  TaskStep(f)
<1>1. PoolTyped /\ FilesTyped
  BY TypeParts DEF SnapshotInv
<1>2. CASE Verified(f) /\ task' = [task EXCEPT ![f] = "done"] /\ UNCHANGED part
  <2>1. PoolTyped'
    BY <1>1, <1>2, TaskMoves DEF Tasks, Busy
  <2> QED BY <1>1, <1>2, <2>1 DEF Open, TaskStep, PartMoves, DestMoves, PoolTyped
<1>3. CASE task' = [task EXCEPT ![f] = "request"]
  <2>1. PoolTyped'
    BY <1>1, <1>3, TaskStarts DEF Open
  <2>2. part' = part \/ part' = [part EXCEPT ![f] = None]
    BY <1>1, <1>3 DEF Open, PoolTyped
  <2> QED BY <1>1, <1>3, <2>1, <2>2
          DEF Open, TaskStep, PartMoves, DestMoves, PoolTyped
<1> QED BY <1>2, <1>3 DEF Open

LEMMA AnswerStep ==
  ASSUME SnapshotInv, NEW f \in Files,
         AnswerRest(f) \/ AnswerWhole(f) \/ AnswerNothing(f)
  PROVE  TaskStep(f)
<1>1. PoolTyped /\ FilesTyped
  BY TypeParts DEF SnapshotInv
<1>2. CASE AnswerRest(f)
  <2>1. PoolTyped'
    BY <1>1, <1>2, TaskMoves DEF AnswerRest, Tasks, Busy
  <2>2. part[f] \in Content
    BY <1>1, <1>2, FilePart DEF AnswerRest, Offset
  <2> QED BY <1>1, <1>2, <2>1, <2>2
          DEF AnswerRest, TaskStep, PartMoves, DestMoves, PoolTyped
<1>3. CASE AnswerWhole(f)
  <2>1. PoolTyped'
    BY <1>1, <1>3, TaskMoves DEF AnswerWhole, Tasks, Busy
  <2>2. part'[f] \in Content
    BY <1>1, <1>3, ContentTyped DEF AnswerWhole, FilesTyped
  <2> QED BY <1>1, <1>3, <2>1, <2>2
          DEF AnswerWhole, TaskStep, PartMoves, DestMoves, PoolTyped
<1>4. CASE AnswerNothing(f)
  <2>1. PoolTyped'
    BY <1>1, <1>4, TaskMoves DEF AnswerNothing, Tasks, Busy
  <2> QED BY <1>1, <1>4, <2>1
          DEF AnswerNothing, TaskStep, PartMoves, DestMoves, PoolTyped
<1> QED BY <1>2, <1>3, <1>4

LEMMA ReceiveStep ==
  ASSUME SnapshotInv, NEW f \in Files, NEW good \in BOOLEAN, Receive(f, good)
  PROVE  TaskStep(f)
<1>1. PoolTyped /\ FilesTyped /\ part[f] \in Content
  BY TypeParts DEF SnapshotInv, Streaming, Receive
<1>2. PoolTyped'
  BY <1>1 DEF Receive, PoolTyped, Active
<1>3. PartMoves(f)
  BY <1>1 DEF Receive, PartMoves
<1>4. part'[f] = [size |-> part[f].size + 1, intact |-> part[f].intact /\ good]
  BY <1>1 DEF Receive, FilesTyped
<1>5. part'[f] \in Content
  BY <1>1, <1>4, ContentTyped
<1> QED BY <1>2, <1>3, <1>5 DEF Receive, TaskStep, DestMoves

LEMMA EndStep ==
  ASSUME SnapshotInv, NEW f \in Files,
         EndOfBody(f) \/ Truncated(f) \/ ConnectionFails(f) \/ Check(f)
  PROVE  TaskStep(f)
<1>1. PoolTyped /\ FilesTyped
  BY TypeParts DEF SnapshotInv
<1>2. CASE EndOfBody(f) \/ Truncated(f) \/ ConnectionFails(f)
  <2>1. PoolTyped'
    BY <1>1, <1>2, TaskMoves DEF EndOfBody, Truncated, ConnectionFails, Tasks, Busy
  <2> QED BY <1>1, <1>2, <2>1 DEF EndOfBody, Truncated, ConnectionFails,
             TaskStep, PartMoves, DestMoves, PoolTyped
<1>3. CASE Check(f)
  <2>1. PoolTyped'
    BY <1>1, <1>3, TaskMoves DEF Check, Tasks, Busy
  <2>2. DestMoves(f) /\ PartMoves(f)
    BY <1>3 DEF Check, DestMoves, PartMoves
  <2> QED BY <1>1, <1>3, <2>1, <2>2 DEF Check, TaskStep, PoolTyped
<1> QED BY <1>2, <1>3

LEMMA EveryTaskStep ==
  ASSUME SnapshotInv, NEW f \in Files, Work(f) \/ Faults(f)
  PROVE  TaskStep(f)
  BY OpenStep, AnswerStep, ReceiveStep, EndStep DEF Work, Faults

-----------------------------------------------------------------------------
LEMMA TaskStepInv ==
  ASSUME SnapshotInv, NEW f \in Files, TaskStep(f)
  PROVE  SnapshotInv'
<1>1. MainTyped /\ FilesTyped
  BY TypeParts DEF SnapshotInv
<1>2. MainTyped' /\ FilesTyped' /\ PoolTyped'
  BY <1>1, FilesMove DEF TaskStep, MainTyped
<1>3. Streaming'
  <2> SUFFICES ASSUME NEW g \in Files, task'[g] = "stream"
               PROVE  part'[g] \in Content
    BY DEF Streaming
  <2>1. CASE g = f
    BY <2>1 DEF TaskStep
  <2>2. CASE g # f
    BY <1>1, <2>2, OthersStay DEF TaskStep, SnapshotInv, Streaming
  <2> QED BY <2>1, <2>2
<1>4. TypeOK'
  BY <1>2, TypeParts DEF TypeOK, MainTyped, FilesTyped, PoolTyped, Tasks
<1> QED BY <1>3, <1>4 DEF SnapshotInv

LEMMA MainInv ==
  ASSUME SnapshotInv,
         \/ \E files \in {Files, Files \ Weights}, verifyOnly \in BOOLEAN :
              Begin(files, verifyOnly)
         \/ PoolEnds \/ WriteManifest \/ Killed
  PROVE  SnapshotInv'
<1>1. MainTyped /\ FilesTyped /\ PoolTyped
  BY TypeParts DEF SnapshotInv
<1>2. UNCHANGED <<dest, part>>
  BY DEF Begin, PoolEnds, WriteManifest, Killed
<1>3. MainTyped'
  <2>1. CASE WriteManifest
    <3>1. /\ (\A f \in Files : Verified(f)) \in BOOLEAN
          /\ { f \in Files : Verified(f) } \in SUBSET Files
      OBVIOUS
    <3>2. manifest' \in [complete : BOOLEAN, verified : SUBSET Files]
      BY <2>1, <3>1 DEF WriteManifest
    <3> QED BY <1>1, <2>1, <3>2 DEF MainTyped, WriteManifest
  <2>2. CASE manifest' = manifest
    BY <1>1, <2>2 DEF MainTyped, Begin, PoolEnds, WriteManifest, Killed
  <2> QED BY <2>1, <2>2 DEF Begin, PoolEnds, Killed
<1>4. CASE UNCHANGED task
  <2>1. PoolTyped' /\ Streaming'
    BY <1>1, <1>2, <1>4 DEF PoolTyped, Active, SnapshotInv, Streaming
  <2> QED BY <1>1, <1>2, <1>3, <2>1
          DEF SnapshotInv, TypeOK, MainTyped, FilesTyped, PoolTyped, Tasks
<1>5. CASE task' \in [Files -> {"none", "queued"}]
  <2>1. Cardinality(Active') <= Jobs
    BY <1>5, NoneActive DEF Busy
  <2>2. PoolTyped' /\ Streaming'
    BY <1>5, <2>1 DEF PoolTyped, Tasks, Streaming
  <2> QED BY <1>1, <1>2, <1>3, <2>2
          DEF SnapshotInv, TypeOK, MainTyped, FilesTyped, PoolTyped, Tasks
<1> QED BY <1>4, <1>5 DEF Begin, PoolEnds, WriteManifest, Killed

LEMMA SnapshotInit ==
  ASSUME Init
  PROVE  SnapshotInv
<1>1. PoolTyped
  <2>1. Active = {}
    BY DEF Init, Active
  <2>2. Cardinality(Active) <= Jobs
    BY <2>1, FS_EmptySet, SnapshotAssumption
  <2> QED BY <2>2 DEF Init, PoolTyped, Tasks
<1>2. FilesTyped
  <2>1. \A g \in Files : [size |-> SizeOf[g], intact |-> FALSE] \in Content
    BY SnapshotAssumption DEF Content
  <2> QED BY <2>1 DEF Init, FilesTyped
<1>3. MainTyped /\ Streaming
  BY DEF Init, MainTyped, Streaming
<1> QED BY <1>1, <1>2, <1>3, TypeParts DEF SnapshotInv

LEMMA SnapshotNext ==
  ASSUME SnapshotInv, [Next]_vars
  PROVE  SnapshotInv'
<1>1. CASE \E f \in Files : Work(f) \/ Faults(f)
  BY <1>1, EveryTaskStep, TaskStepInv
<1>2. CASE UNCHANGED vars
  BY <1>2 DEF vars, SnapshotInv, TypeOK, Active, Streaming
<1> QED BY <1>1, <1>2, MainInv DEF Next

(***************************************************************************)
(* Every state has its types, and the pool never has more files in         *)
(* progress than it has jobs.                                              *)
(***************************************************************************)
THEOREM SnapshotTyping == Spec => []TypeOK
<1>1. SnapshotInv => TypeOK
  BY DEF SnapshotInv
<1>2. Init => SnapshotInv
  BY SnapshotInit
<1>3. SnapshotInv /\ [Next]_vars => SnapshotInv'
  BY SnapshotNext
<1> QED BY <1>1, <1>2, <1>3, PTL DEF Spec

-----------------------------------------------------------------------------
(***************************************************************************)
(* A file that is whole stays whole, whatever run touches it again.        *)
(***************************************************************************)
LEMMA KeptWhole ==
  ASSUME SnapshotInv, [Next]_vars, NEW f \in Files, dest[f] = Whole(f)
  PROVE  dest'[f] = Whole(f)
<1>1. FilesTyped
  BY TypeParts DEF SnapshotInv
<1>2. CASE \E g \in Files : Work(g) \/ Faults(g)
  <2>1. PICK g \in Files : DestMoves(g)
    BY <1>2, EveryTaskStep DEF TaskStep
  <2> QED BY <1>1, <2>1 DEF DestMoves, FilesTyped
<1>3. CASE ~ \E g \in Files : Work(g) \/ Faults(g)
  BY <1>3 DEF Next, vars, Begin, PoolEnds, WriteManifest, Killed
<1> QED BY <1>2, <1>3

LEMMA TruthKept ==
  ASSUME SnapshotInv, ManifestTruthful, [Next]_vars
  PROVE  ManifestTruthful'
<1>1. CASE WriteManifest
  <2>1. /\ manifest'.complete = (\A f \in Files : Verified(f))
        /\ manifest'.verified = { f \in Files : Verified(f) }
        /\ dest' = dest
    BY <1>1 DEF WriteManifest
  <2>2. manifest'.complete <=> manifest'.verified = Files
    BY <2>1
  <2>3. \A f \in manifest'.verified : dest'[f] = Whole(f)
    BY <2>1 DEF Verified
  <2> QED BY <2>2, <2>3 DEF ManifestTruthful
<1>2. CASE manifest' = manifest
  <2>1. manifest # None => manifest.verified \subseteq Files
    BY DEF SnapshotInv, TypeOK
  <2> QED BY <1>2, <2>1, KeptWhole DEF ManifestTruthful
<1>3. WriteManifest \/ manifest' = manifest
  <2>1. CASE \E f \in Files : Work(f) \/ Faults(f)
    BY <2>1, EveryTaskStep DEF TaskStep
  <2> QED BY <2>1 DEF Next, vars, Begin, PoolEnds, Killed
<1> QED BY <1>1, <1>2, <1>3

(***************************************************************************)
(* What the manifest calls verified is whole on the disk, also long after  *)
(* it was written, and it is complete exactly when it names every file.    *)
(***************************************************************************)
THEOREM ManifestIsTrue == Spec => []ManifestTruthful
<1>1. Init => SnapshotInv /\ ManifestTruthful
  BY SnapshotInit DEF Init, ManifestTruthful
<1>2. SnapshotInv /\ ManifestTruthful /\ [Next]_vars
        => SnapshotInv' /\ ManifestTruthful'
  BY SnapshotNext, TruthKept
<1> QED BY <1>1, <1>2, PTL DEF Spec

-----------------------------------------------------------------------------
(***************************************************************************)
(* What happens to a .part that is there.                                  *)
(***************************************************************************)
GrowsOrEnds(f) ==
  \/ dest'[f] = Whole(f) /\ part'[f] = None
  \/ part'[f] # None /\ part'[f].size >= part[f].size
  \/ AnswerWhole(f)
  \/ part[f].size > SizeOf[f]

LEMMA UntouchedGrows ==
  ASSUME FilesTyped, NEW f \in Files, part[f] # None, part'[f] = part[f]
  PROVE  GrowsOrEnds(f)
  BY FilePart DEF GrowsOrEnds

LEMMA TaskGrows ==
  ASSUME SnapshotInv, NEW f \in Files, Work(f) \/ Faults(f), part[f] # None
  PROVE  GrowsOrEnds(f)
<1>1. FilesTyped /\ part[f] \in Content /\ part[f].size \in Nat
  BY TypeParts, FilePart DEF SnapshotInv
<1>2. CASE UNCHANGED part
  BY <1>1, <1>2, UntouchedGrows
<1>3. CASE Open(f)
  BY <1>1, <1>3, <1>2 DEF Open, Offset, GrowsOrEnds
<1>4. CASE Check(f)
  BY <1>1, <1>2, <1>4 DEF Check, GrowsOrEnds, FilesTyped
<1>5. ASSUME NEW good \in BOOLEAN, Receive(f, good)
      PROVE  GrowsOrEnds(f)
  <2>1. part'[f] = [size |-> part[f].size + 1, intact |-> part[f].intact /\ good]
    BY <1>1, <1>5 DEF Receive, FilesTyped
  <2>2. part'[f] \in Content
    BY <1>1, <2>1, ContentTyped
  <2>3. part'[f] # None /\ part'[f].size >= part[f].size
    BY <1>1, <2>1, <2>2, NoneAssumption
  <2> QED BY <2>3 DEF GrowsOrEnds
<1>6. CASE AnswerWhole(f)
  BY <1>6 DEF GrowsOrEnds
<1> QED BY <1>2, <1>3, <1>4, <1>5, <1>6 DEF Work, Faults, AnswerRest, AnswerNothing,
           EndOfBody, Truncated, ConnectionFails

(***************************************************************************)
(* Bytes that arrived are not asked for again, except by the server's      *)
(* choice or when there are too many of them.                              *)
(***************************************************************************)
THEOREM PartsGrow == Spec => PartsOnlyGrow
<1>1. ASSUME SnapshotInv, [Next]_vars, NEW f \in Files, part[f] # None
      PROVE  GrowsOrEnds(f)
  <2>1. FilesTyped
    BY <1>1, TypeParts DEF SnapshotInv
  <2>2. CASE \E g \in Files : Work(g) \/ Faults(g)
    <3>1. PICK g \in Files : Work(g) \/ Faults(g)
      BY <2>2
    <3>2. CASE g = f
      BY <1>1, <3>1, <3>2, TaskGrows
    <3>3. CASE g # f
      <4>1. part'[f] = part[f]
        BY <1>1, <2>1, <3>1, <3>3, EveryTaskStep, OthersStay DEF TaskStep
      <4> QED BY <1>1, <2>1, <4>1, UntouchedGrows
    <3> QED BY <3>2, <3>3
  <2>3. CASE ~ \E g \in Files : Work(g) \/ Faults(g)
    <3>1. part' = part
      BY <1>1, <2>3 DEF Next, vars, Begin, PoolEnds, WriteManifest, Killed
    <3> QED BY <1>1, <2>1, <3>1, UntouchedGrows
  <2> QED BY <2>2, <2>3
<1>2. SnapshotInv /\ [Next]_vars => [\A f \in Files : part[f] # None =>
         \/ dest'[f] = Whole(f) /\ part'[f] = None
         \/ part'[f] # None /\ part'[f].size >= part[f].size
         \/ AnswerWhole(f)
         \/ part[f].size > SizeOf[f]]_vars
  BY <1>1 DEF GrowsOrEnds
<1>3. Init => SnapshotInv
  BY SnapshotInit
<1>4. SnapshotInv /\ [Next]_vars => SnapshotInv'
  BY SnapshotNext
<1> QED BY <1>2, <1>3, <1>4, PTL DEF Spec, PartsOnlyGrow
=============================================================================
