--------------------------- MODULE RequestTravels ---------------------------
(***************************************************************************)
(* One request document on its two ways through the program.               *)
(*                                                                         *)
(* On the staged way a host gives the document to CODES and from then on   *)
(* only files: each call of a stage reads the file the last one wrote.     *)
(* CantorEngine models what happens inside a call and between contexts;    *)
(* here a call is one step whose results are those of an uninterrupted     *)
(* run, and the files themselves are in sight: how they are laid out, what *)
(* becomes of the request on the way, and what happens to a file that was  *)
(* damaged in storage or laid out by another program.                      *)
(*                                                                         *)
(* On the blocking way the command line parses the document and asks for   *)
(* the song (BlockingPipeline).                                            *)
(***************************************************************************)
EXTENDS BoundaryFiles, BlockingPipeline

CONSTANT Documents   \* the documents clients send

(***************************************************************************)
(* What the documents ask for is among the requests, also as the session   *)
(* reads it, and a request has the target its duration gives.              *)
(***************************************************************************)
ASSUME RequestsAssumption ==
  /\ \A d \in Documents :
       Accepts(d) => Read(d) \in Requests /\ NativeRequest(Read(d)) \in Requests
  /\ \A r \in Requests : r.duration \in Nat /\ Target[r] = StagedFrames(r.duration)

(***************************************************************************)
(* A scale is a float.  Below four its rounding is too small to take a     *)
(* third of a millionth past the middle between two millionths; from four  *)
(* on, no request has more than six decimals.                              *)
(***************************************************************************)
ASSUME ScaleAssumption ==
  \A r \in Requests : \A scale \in {r.ar_cfg_scale, r.flow_cfg_scale} :
    scale % 3 = 0 \/ scale < 40 * Tenth

\* Documents are made of JSON values.
ASSUME DocumentsAssumption == \A d \in Documents : JsonDocument(d)

(***************************************************************************)
(* The longest song, 300 s, is 7500 frames: no list of windows, and no     *)
(* file, comes near its limit.                                             *)
(***************************************************************************)
ASSUME SizeAssumption ==
  /\ MaxBlob \in Nat
  /\ \A r \in Requests : Target[r] <= 7500 /\ Target[r] + 300 <= MaxBlob

VARIABLES
  doc,      \* the client's document
  file,     \* the file the host holds, None while it has only the document
  origin,   \* whose bytes those are
  saved,    \* the boundary the engine wrote last
  answer    \* how the last stage call ended, None before the first

fileVars == <<doc, file, origin, saved, answer>>
vars == <<fileVars, blockingVars>>

Origins == {"client", "engine", "damaged", "foreign"}

Answer ==
  [stage : DOMAIN StageNumber, verdict : {"saved", "refused", "empty", "played"},
   req : Requests \cup {None}]

TravelsInit ==
  /\ doc \in Documents
  /\ file = None
  /\ origin = "client"
  /\ saved = None
  /\ answer = None

-----------------------------------------------------------------------------
Answered(stage, verdict, r) ==
  answer' = [stage |-> stage, verdict |-> verdict, req |-> r]

\* A call that read request r ends by saving boundary b.
Save(stage, r, b, source, finite) ==
  /\ file' = FileOf(b, source, finite)
  /\ saved' = b
  /\ origin' = IF origin = "client" THEN "engine" ELSE origin
  /\ Answered(stage, "saved", r)
  /\ UNCHANGED doc

NothingSaved(stage, verdict, r) ==
  /\ Answered(stage, verdict, r)
  /\ UNCHANGED <<doc, file, origin, saved>>

IdentifiedBy(c, f) == Metadata(f).digests = c

-----------------------------------------------------------------------------
(***************************************************************************)
(* CODES takes a paused CODES file, by its magic; anything else is read as *)
(* a request document, and a file is none.                                 *)
(***************************************************************************)
CodesTakes(c) ==
  IF file = None
  THEN Accepts(doc)
  ELSE /\ ReadablePausedCodes(file)
       /\ IdentifiedBy(c, file)
       /\ CodesCursorAccepted(PausedCodesIn(file))

CodesRequest == IF file = None THEN Read(doc) ELSE RequestIn(file)

PausedCodesAfter(c, r, n) ==
  [kind |-> "COD", comps |-> c, first |-> Target[r], second |-> n, req |-> r,
   codes |-> RefCodes(c, r, n)]

CompletedCodesOf(c, r) ==
  [kind |-> "CON", comps |-> c, first |-> RefGenerated(c, r),
   second |-> WindowCount(RefGenerated(c, r)), req |-> r,
   conditions |-> RefConditions(c, r)]

\* A poll may end the call at any frame, also while frames are replayed.
PauseCodes(c) ==
  /\ CodesTakes(c)
  /\ \E n \in 0 .. RefLength(c, CodesRequest) :
       Save("CODES", CodesRequest, PausedCodesAfter(c, CodesRequest, n), None, TRUE)

CompleteCodes(c) ==
  /\ CodesTakes(c)
  /\ RefGenerated(c, CodesRequest) > 0
  /\ Save("CODES", CodesRequest, CompletedCodesOf(c, CodesRequest), None, TRUE)

\* Audio end at once, or no frame asked for: there is nothing to window.
EmptyCodes(c) ==
  /\ CodesTakes(c)
  /\ RefGenerated(c, CodesRequest) = 0
  /\ NothingSaved("CODES", "empty", CodesRequest)

RefuseCodes(c) == ~CodesTakes(c) /\ NothingSaved("CODES", "refused", None)

-----------------------------------------------------------------------------
(***************************************************************************)
(* DIFFUSE takes a paused DIFFUSE file, by its magic; anything else is     *)
(* read as a completed CODES file.                                         *)
(***************************************************************************)
ResumesFlow == file.magic = "FLW"

DiffuseSource == IF ResumesFlow THEN SourceIn(file) ELSE file

SourceTaken(c, f) ==
  IdentifiedBy(c, f) /\ ConditionWindowsAccepted(CompletedCodesIn(f))

DiffuseTakes(c) ==
  IF ResumesFlow
  THEN /\ ReadablePausedFlow(file)
       /\ SourceTaken(c, SourceIn(file))
       /\ IdentifiedBy(c, file)
       /\ FlowCursorAccepted(PausedFlowIn(file))
  ELSE ReadableCompletedCodes(file) /\ SourceTaken(c, file)

DiffuseRequest == RequestIn(DiffuseSource)

WindowsOf(c, r) == WindowCount(RefGenerated(c, r))

\* Windows finished, and updates made to the next one, when a call begins.
FlowCursor ==
  IF ResumesFlow THEN <<Metadata(file).first, Metadata(file).second>> ELSE <<0, 0>>

PausedFlowAt(c, r, w, step) ==
  [kind |-> "FLW", comps |-> c, first |-> w, second |-> step,
   source |-> CompletedCodesOf(c, r), completed |-> RefLatents(c, r, w),
   active |-> RefEuler(c, r, w + 1, step), carry |-> RefInputs(c, r, w + 1).prompt]

CompletedFlowOf(c, r) ==
  [kind |-> "LAT", comps |-> c, first |-> WindowsOf(c, r), second |-> 0,
   source |-> CompletedCodesOf(c, r),
   completed |-> RefLatents(c, r, WindowsOf(c, r))]

\* A float that is not finite is written like any other.
PauseDiffuse(c) ==
  LET r == DiffuseRequest
      from == FlowCursor
  IN  /\ file # None
      /\ DiffuseTakes(c)
      /\ \E w \in from[1] .. WindowsOf(c, r) - 1, step \in 0 .. EulerSteps[r] - 1,
            finite \in BOOLEAN :
           /\ w = from[1] => step >= from[2]
           /\ Save("DIFFUSE", r, PausedFlowAt(c, r, w, step), DiffuseSource, finite)

CompleteDiffuse(c) ==
  /\ file # None
  /\ DiffuseTakes(c)
  /\ \E finite \in BOOLEAN :
       Save("DIFFUSE", DiffuseRequest, CompletedFlowOf(c, DiffuseRequest),
            DiffuseSource, finite)

RefuseDiffuse(c) ==
  /\ file # None
  /\ ~DiffuseTakes(c)
  /\ NothingSaved("DIFFUSE", "refused", None)

-----------------------------------------------------------------------------
DecodeTakes(c) ==
  /\ ReadableFlow(file, "LAT")
  /\ IdentifiedBy(c, file)
  /\ SourceTaken(c, SourceIn(file))
  /\ LatentsAccepted(CompletedFlowIn(file))

\* The song is resampled to the rate of the request stored two files deep.
PlaySong(c) ==
  /\ file # None
  /\ DecodeTakes(c)
  /\ NothingSaved("DECODE", "played", RequestIn(SourceIn(file)))

RefuseDecode(c) ==
  /\ file # None
  /\ ~DecodeTakes(c)
  /\ NothingSaved("DECODE", "refused", None)

StageCall(c) ==
  \/ PauseCodes(c) \/ CompleteCodes(c) \/ EmptyCodes(c) \/ RefuseCodes(c)
  \/ PauseDiffuse(c) \/ CompleteDiffuse(c) \/ RefuseDiffuse(c)
  \/ PlaySong(c) \/ RefuseDecode(c)

-----------------------------------------------------------------------------
(***************************************************************************)
(* Storage.  One field of a file, or one item of its payload, is not what  *)
(* was written, its end is missing, or something follows it.               *)
(***************************************************************************)
HeaderDamage(f) ==
  {[f EXCEPT !.magic = k] : k \in Kinds}
    \cup {[f EXCEPT !.version = 2], [f EXCEPT !.digest = Zeroed]}
    \cup {[f EXCEPT !.stage = s] : s \in 0 .. 3}
    \cup {[f EXCEPT !.count = @ - 1], [f EXCEPT !.header = @ - EntryBytes]}
    \cup {[f EXCEPT !.total = @ + d] : d \in {-1, 1}}

DirectoryDamage(f) ==
  UNION {{[f EXCEPT !.directory[i].kind = k] : k \in {NoKind, "metadata"}}
           \cup {[f EXCEPT !.directory[i].offset = @ + 1],
                 [f EXCEPT !.directory[i].size = @ - 1]}
           : i \in 1 .. Len(f.directory)}

PayloadDamage(f) ==
  {[f EXCEPT !.payload[i] = f.payload[j]] : i, j \in 1 .. Len(f.payload)}
    \cup {[f EXCEPT !.payload = Front(@)],
          [f EXCEPT !.payload = Append(@, f.payload[Len(@)])]}

Damage ==
  /\ origin = "engine"
  /\ \E f \in HeaderDamage(file) \cup DirectoryDamage(file) \cup PayloadDamage(file) :
       f # file /\ file' = f
  /\ origin' = "damaged"
  /\ answer' = None
  /\ UNCHANGED <<doc, saved>>

(***************************************************************************)
(* Another program writes the payload under a directory of its own, with a *)
(* digest that is right: one section is anywhere in, before or after it.   *)
(***************************************************************************)
Placed(f, i, at, size) ==
  Sealed([f EXCEPT !.directory[i].offset = f.header + at,
                   !.directory[i].size = size])

LaidOutAgain(f) ==
  {Placed(f, i, at, size)
     : i \in 1 .. Len(f.directory), at \in -1 .. Len(f.payload), size \in 0 .. 2}

LayOut ==
  /\ origin = "engine"
  /\ file' \in LaidOutAgain(file)
  /\ origin' = "foreign"
  /\ answer' = None
  /\ UNCHANGED <<doc, saved>>

-----------------------------------------------------------------------------
Staged ==
  /\ phase = "idle"
  /\ \/ \E c \in Components : StageCall(c)
     \/ Damage
     \/ LayOut
  /\ UNCHANGED blockingVars

\* The command line parses the document before it looks at anything else.
Blocking ==
  /\ answer = None
  /\ file = None
  /\ \/ Accepts(doc) /\ GenerateWav(Read(doc))
     \/ RefuseWav
     \/ BlockingStep
  /\ UNCHANGED fileVars

Init == TravelsInit /\ BlockingInit
Next == Staged \/ Blocking
Spec == Init /\ [][Next]_vars

-----------------------------------------------------------------------------
(***************************************************************************)
(* A file is a header and a directory of numbers, an answer names a        *)
(* request that was asked for, and the blocking call has its locals        *)
(* exactly while it runs.                                                  *)
(***************************************************************************)
TypeOK ==
  /\ doc \in Documents
  /\ file = None \/ Parsed(file)
  /\ origin \in Origins
  /\ file = None <=> origin = "client"
  /\ saved = None \/ saved.kind \in Kinds
  /\ answer = None \/ answer \in Answer
  /\ phase \in Phases
  /\ resident \subseteq UNION {Needs[p] : p \in Phases}
  /\ song = None \/ song \in SongState
  /\ song = None <=> phase \in {"idle", "failed", "done"}
  /\ wav = None \/ wav \in Wav

(***************************************************************************)
(* Every stage works with the request the client sent, whether it read the *)
(* document itself or found the request inside a file, or inside a file    *)
(* stored in a file, also when another program laid the file out again:    *)
(* the canonical text loses nothing and adds nothing, not even a flow seed *)
(* that was left to follow the seed.                                       *)
(***************************************************************************)
RequestSurvives ==
  answer # None /\ answer.req # None => answer.req = Read(doc)

(***************************************************************************)
(* A file of the engine that was changed anywhere is refused by every      *)
(* stage, also when the change makes one kind of file look like another.   *)
(***************************************************************************)
DamageIsRefused ==
  origin = "damaged"
    => \A c \in Components : ~CodesTakes(c) /\ ~DiffuseTakes(c) /\ ~DecodeTakes(c)

(***************************************************************************)
(* Whatever directory a file with a right digest has, decode accepts it    *)
(* only if all sections lie in the payload and no two share a byte,        *)
(* although it compares only neighbours of a sorted list.                  *)
(***************************************************************************)
AcceptedSectionsDisjoint ==
  file # None /\ Decodes(file, file.magic) => DisjointSections(file)

(***************************************************************************)
(* A file the engine wrote is read by the stage it is for, and the         *)
(* boundary found in it is the one that was written.  Two kinds of file    *)
(* are written that cannot be read: with a latent that is not finite, and  *)
(* with a request whose canonical text is longer than a document may be.   *)
(***************************************************************************)
CanonicalFits == Bytes(Canonical(Read(doc))) <= MaxBytes

FiniteFile(f) ==
  \A i \in 1 .. Len(f.payload) :
    "finite" \in DOMAIN f.payload[i] => f.payload[i].finite

Taken(c) ==
  \/ file.magic = "COD" /\ CodesTakes(c)
  \/ file.magic \in {"CON", "FLW"} /\ DiffuseTakes(c)
  \/ file.magic = "LAT" /\ DecodeTakes(c)

WrittenIsRead ==
  origin = "engine" /\ CanonicalFits /\ FiniteFile(file)
    => Taken(saved.comps) /\ BoundaryIn(file) = saved

(***************************************************************************)
(* The song of the blocking path is, sample for sample, the one the stages *)
(* make of a request that differs from the client's in three numbers at    *)
(* most.  A scale is the nearest of six decimals, so it is the client's if *)
(* that has no more.  The duration is the client's, unless on its way      *)
(* through six decimals and a float it gained or lost a frame; it is never *)
(* more than one.                                                          *)
(***************************************************************************)
NearestOfSix(scale, x) == scale % 3 = 0 /\ scale - x \in -1 .. 1

BlockingSongExact ==
  wav # None =>
    LET asked == Read(doc)
        got == wav.req
        gained == Target[got] - Target[asked]
    IN  /\ \E c \in Components : wav.pieces = RefSong(c, got)
        /\ got = [asked EXCEPT !.duration = got.duration,
                               !.ar_cfg_scale = got.ar_cfg_scale,
                               !.flow_cfg_scale = got.flow_cfg_scale]
        /\ NearestOfSix(got.ar_cfg_scale, asked.ar_cfg_scale)
        /\ NearestOfSix(got.flow_cfg_scale, asked.flow_cfg_scale)
        /\ gained \in -1 .. 1
        /\ gained = 0 => got.duration = asked.duration
        /\ wav.rate = asked.output_sample_rate

(***************************************************************************)
(* The blocking path never holds the weights of two phases at once, and    *)
(* holds none when it has returned, however it returned.                   *)
(***************************************************************************)
BlockingMemory == resident \subseteq Needs[phase]
=============================================================================
