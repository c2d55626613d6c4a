-------------------------- MODULE BlockingPipeline --------------------------
(***************************************************************************)
(* The blocking path: generate_wav of minimax-native.cpp, which asks one   *)
(* session of the vendored pipeline for a whole song and writes it as WAV. *)
(*                                                                         *)
(* generate_wav always asks for the memory saver, so a phase builds its    *)
(* runtimes when it begins and destroys them when it ends.  Nothing is     *)
(* saved on the way; an exception anywhere destroys the session with all   *)
(* it holds, and no file is written.                                       *)
(***************************************************************************)
EXTENDS Boundaries, RequestForm, Sequences

VARIABLES
  phase,      \* where generate_wav stands
  resident,   \* the runtimes of the session that exist
  song,       \* the locals of the call in progress, None otherwise
  wav         \* the audio file written last, None if there is none

blockingVars == <<phase, resident, song, wav>>

Phases ==
  {"idle", "loaded", "ar", "arDone", "denoise", "denoiseDone", "decode",
   "decodeDone", "failed", "done"}

\* The modules whose weights a phase needs.
Needs ==
  [p \in Phases |-> IF p = "ar" THEN {"ar"}
                    ELSE IF p = "denoise" THEN {"condition", "flow"}
                    ELSE IF p = "decode" THEN {"vocoder"} ELSE {}]

(***************************************************************************)
(* The request as the session reads it.  Durations and scales cross as     *)
(* strings of six decimals and come back as floats.  For a scale that is   *)
(* all (a float of four or more has no finer decimals to lose, and one     *)
(* reads its own six back).  A duration is only made into frames, in       *)
(* float: where these are more or fewer than the stages make of it, the    *)
(* request is one that asks the stages for as many.                        *)
(***************************************************************************)
NativeDuration(n) ==
  LET frames == BlockingFrames(SixDecimals(n))
  IN  IF frames = StagedFrames(n) THEN n ELSE 120000 * frames + 1

NativeRequest(r) ==
  [r EXCEPT !.duration = NativeDuration(@),
            !.ar_cfg_scale = 3 * SixDecimals(@),
            !.flow_cfg_scale = 3 * SixDecimals(@)]

SongState ==
  [comps : Components, req : Requests, codes : Seq(CodeFrame),
   hiddens : Seq(Hidden), completed : Seq(Latent), active : Latent \cup {None},
   carry : Nat, pieces : Seq(Piece)]

ASSUME NoSongAssumption == None \notin SongState

Wav == [req : Requests, pieces : Seq(Piece), rate : {44100, 32000}]

BlockingInit ==
  /\ phase = "idle"
  /\ resident = {}
  /\ song = None
  /\ wav = None

-----------------------------------------------------------------------------
\* The process may be started again after it has returned.
CanGenerate == phase \in {"idle", "failed", "done"}

\* The pipeline refuses a duration that became zero (RefuseWav).
GenerateWav(r) ==
  /\ CanGenerate
  /\ SixDecimals(r.duration) > 0
  /\ \E c \in Components :
       song' = [comps |-> c, req |-> NativeRequest(r), codes |-> <<>>,
                hiddens |-> <<>>, completed |-> <<>>, active |-> None,
                carry |-> 0, pieces |-> <<>>]
  /\ phase' = "loaded"
  /\ UNCHANGED <<resident, wav>>

\* The request or the options are refused, or the command line is.
RefuseWav ==
  /\ CanGenerate
  /\ phase' = "failed"
  /\ UNCHANGED <<resident, song, wav>>

\* Mutant: the request of a failed call is left behind.
AbandonKeepsSong ==
  /\ song # None
  /\ phase' = "failed"
  /\ resident' = {}
  /\ UNCHANGED <<song, wav>>

\* An exception, from loading the model to writing the file.
Abandon ==
  /\ song # None
  /\ phase' = "failed"
  /\ resident' = {}
  /\ song' = None
  /\ UNCHANGED wav

\* ensure_*: a phase begins by building the runtimes it needs.
EnterPhase(from, to) ==
  /\ phase = from
  /\ phase' = to
  /\ resident' = resident \cup Needs[to]

\* Mutant: the graphs of a phase are released and its runtimes stay.
LeavePhaseResident(from, to) ==
  /\ phase = from
  /\ phase' = to
  /\ UNCHANGED resident

\* release_*_after_phase, with the memory saver.
LeavePhase(from, to) ==
  /\ phase = from
  /\ phase' = to
  /\ resident' = resident \ Needs[from]

-----------------------------------------------------------------------------
(***************************************************************************)
(* The AR loop, with nothing to replay and no poll.                        *)
(***************************************************************************)
BeginAr == EnterPhase("loaded", "ar") /\ UNCHANGED <<song, wav>>

FrameNow == Len(song.codes)

FramesEnd ==
  \/ FrameNow = EosFrame[song.comps][song.req]
  \/ FrameNow > Target[song.req]

GenerateFrame ==
  LET frame == SampledFrame(song.comps, song.req, Codebooks * FrameNow, FrameNow)
      hidden == HiddenOf(song.comps, FrameNow, frame)
  IN  /\ phase = "ar"
      /\ ~FramesEnd
      /\ song' = [song EXCEPT
           !.codes = Append(@, frame),
           !.hiddens = IF FrameNow > 0 THEN Append(@, hidden) ELSE @]
      /\ UNCHANGED <<phase, resident, wav>>

EndAr ==
  /\ LeavePhase("ar", "arDone")
  /\ FramesEnd
  /\ UNCHANGED <<song, wav>>

-----------------------------------------------------------------------------
(***************************************************************************)
(* Condition and flow, window by window.  A result of no frames has been   *)
(* refused; the condition of a window is projected just before the window  *)
(* is denoised, and the carries of one window prompt the next.             *)
(***************************************************************************)
FramesMade == Len(song.hiddens)

BeginDenoising ==
  /\ EnterPhase("arDone", "denoise")
  /\ FramesMade > 0
  /\ UNCHANGED <<song, wav>>

\* Mutant: the frames of a window are counted from the song's start.
ConditionOfPrefix(w) ==
  Projected(song.comps, song.hiddens, 0, FramesOf(FramesMade, w))

ConditionOf(w) ==
  Projected(song.comps, song.hiddens, WindowStart(w), FramesOf(FramesMade, w))

WindowNow == Len(song.completed) + 1

InputsNow ==
  [comps |-> song.comps, cond |-> ConditionOf(WindowNow), seed |-> WindowNow - 1,
   prompt |-> song.carry]

StartWindow ==
  /\ phase = "denoise"
  /\ song.active = None
  /\ WindowNow <= WindowCount(FramesMade)
  /\ song' = [song EXCEPT !.active = InitialNoise(InputsNow)]
  /\ UNCHANGED <<phase, resident, wav>>

StepsApplied == Len(song.active.applied)

UpdateWindow ==
  /\ phase = "denoise"
  /\ song.active # None
  /\ StepsApplied < EulerSteps[song.req]
  /\ song' = [song EXCEPT
       !.active = EulerUpdate(@, song.active.inputs, StepsApplied)]
  /\ UNCHANGED <<phase, resident, wav>>

\* The carried latents are pasted over the front of the finished window.
FinishWindow ==
  /\ phase = "denoise"
  /\ song.active # None
  /\ StepsApplied = EulerSteps[song.req]
  /\ song' = [song EXCEPT
       !.completed = Append(@, [song.active EXCEPT !.head = song.active.inputs.prompt]),
       !.carry = CarryOf(WindowNow, FramesOf(FramesMade, WindowNow)),
       !.active = None]
  /\ UNCHANGED <<phase, resident, wav>>

EndDenoising ==
  /\ LeavePhase("denoise", "denoiseDone")
  /\ song.active = None
  /\ Len(song.completed) = WindowCount(FramesMade)
  /\ UNCHANGED <<song, wav>>

-----------------------------------------------------------------------------
(***************************************************************************)
(* The vocoder, window by window, and the file.                            *)
(***************************************************************************)
BeginDecoding ==
  EnterPhase("denoiseDone", "decode") /\ UNCHANGED <<song, wav>>

DecodeWindow ==
  LET w == Len(song.pieces) + 1
      latent == song.completed[w]
      n == LatentFrames(latent.inputs.cond.frames)
      piece == [comps |-> song.comps, latent |-> latent, from |-> KeptFrom(w, n),
                to |-> KeptTo(w, Len(song.completed), n)]
  IN  /\ phase = "decode"
      /\ w <= Len(song.completed)
      /\ song' = [song EXCEPT !.pieces = Append(@, piece)]
      /\ UNCHANGED <<phase, resident, wav>>

EndDecoding ==
  /\ LeavePhase("decode", "decodeDone")
  /\ Len(song.pieces) = Len(song.completed)
  /\ UNCHANGED <<song, wav>>

\* The windows are joined, clamped, resampled and written; the session ends.
WriteWav ==
  /\ phase = "decodeDone"
  /\ wav' = [req |-> song.req, pieces |-> song.pieces,
             rate |-> song.req.output_sample_rate]
  /\ song' = None
  /\ phase' = "done"
  /\ UNCHANGED resident

-----------------------------------------------------------------------------
BlockingStep ==
  \/ BeginAr \/ GenerateFrame \/ EndAr
  \/ BeginDenoising \/ StartWindow \/ UpdateWindow \/ FinishWindow \/ EndDenoising
  \/ BeginDecoding \/ DecodeWindow \/ EndDecoding
  \/ WriteWav \/ Abandon
=============================================================================
