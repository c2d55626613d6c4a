# minimax-music3.cpp in TLA+

TLA+ models of minimax-music3.cpp: the staged engine behind the Cantor ABI
(`src/src/cantor-abi.cpp`), the request documents and files that travel through
it, the blocking path of the command line, and the release tools under
`src/convert/`. TLC
checks the models on small instances; TLAPS proves a part of the properties for
every value of the constants.

`PROJECT.json` is the index: which module models which component, what each run
checks, for every definition the source lines it stands for, for every checked
property a plausible bug (a "mutant" operator next to the definition it would
replace) that violates it, the hazards of the code, and the theorems.

Contents: 1 inventory, 2 modelling decisions, 3 modules, 4 runs, 5 bounds,
6 fairness, 7 proofs, 8 where code and documents differ, 9 not modelled,
10 plan.

## 1. Inventory

### Engine (modelled)

The engine turns a request (lyrics, description, duration, seeds) into a song in
three stages. A host calls `cantor_engine_run_stage` with a stage and an input;
the call returns DONE, PAUSED or ERR and, except for DECODE, a *boundary*: a
self-contained blob the host keeps and passes to a later call, possibly of
another context in another process.

| Component | State it keeps | Operations | What makes it correct |
| --- | --- | --- | --- |
| context and dispatch (`cantor-abi.cpp`, `cantor_engine.h`) | `cantor_ctx`: options, component digests, assets, execution backend, duration, song | load, free, run_stage, ensure_components | the previous song is dropped on entry; a boundary is only used with the weights it was made with |
| runtime residency (`cantor-residency.h`) | one slot for each of ar, condition, flow, vocoder | lease, finish, unwind | no request state between calls; one model in memory at a time unless weights are kept |
| CODES (`run_codes`, `ar_runtime.cpp`, `depth_decoder.cpp`) | codes, hidden states, KV caches, position of the random draws; condition windows | start, resume (replays the stored codes), sample a frame, audio end, project a window, pause, complete | a resumed run yields the codes and conditions of an uninterrupted one |
| DIFFUSE (`run_flow`, `flow_sampler.cpp`, `flow_sampler_runtime.cpp`) | finished windows, Euler latent, overlap carry, cursor | start, resume, Euler step, finish window, pause, complete | the same of the latents; finished windows are not computed again |
| DECODE (`run_decode`) | decoded windows | start, decode and crop a window, pause (nothing is kept), complete | the song appears whole or not at all, its windows joined without a gap |
| acoustic windowing (`chunk_starts`, `minimax-chunking.cpp`, `pipeline.cpp`) | none | windows, overlaps, crops | windows tile the song, overlaps are whole, seams meet |

Interactions. The stages share nothing but the context; results travel only in
boundaries. Control leaves the engine at the polls of `should_cancel`: before
every AR frame, condition window, Euler step and decoded window. Weights are
read from the five component paths, at other times than their digests are.

Hard behaviours: cancellation at any poll, also in the middle of a replay or
between two projected windows; an exception at any computation, under a lease
or after the lease was finished; the death of the process; boundaries submitted
in any order, to a context with another quantization mix; results that end
early or are empty; rerun and retained runtimes.

### Release tools (modelled)

| Component | State | Operations | What makes it correct |
| --- | --- | --- | --- |
| download (`download_model.py`) | files, `.part` files, source manifest, a pool of jobs | download or verify a file, resume, write manifest | the manifest is truthful; reruns end with the snapshot |
| conversion (`convert_model.py`) and Hub publication (`publish_hf.py`) | sidecars, temporary files, GGUFs, records, checksums; the repository | copy sidecars, convert, record; validate, stage, upload, verify | only a whole matrix is published; reruns finish |
| R2 publication (`publish_r2.py`) | local files, the bucket, puts under way | validate, look up, copy, verify, check public URLs | the manifest is last and complete; nothing stored is replaced (while operators take turns) |

They interact through directories: the downloader's manifest admits the
converter, the converter's records and checksums admit the publishers. Hard
behaviours: kills between any two file operations, cut and damaged transfers,
retries, puts that land late, several publishers, runs of several releases.

### Requests, files and the blocking path (modelled)

| Component | State it keeps | Operations | What makes it correct |
| --- | --- | --- | --- |
| request form (`minimax-request.cpp`) | none | parse, validate, serialize | a request read from its canonical text is the request that was accepted |
| checkpoint envelope (`minimax-checkpoint.cpp`) | none | encode, decode | a changed file is refused; the sections of an accepted one share no byte |
| boundary files (the codecs of `cantor-abi.cpp`) | files the host stores | write and read each kind, a file inside a file | what a stage wrote the next one reads, and as what it was |
| blocking path (`minimax-cli.cpp --generate`, `minimax-native.cpp`, `pipeline.cpp`, `session.cpp`) | the session: runtimes and locals of one call | three phases, failure anywhere, the WAV file | the song is the staged one; one phase's weights at a time |

Interactions: a client's document is parsed by CODES or by the command line.
On the staged way only its canonical text goes on, inside the CODES file, which
is stored byte for byte inside the DIFFUSE files; each stage parses it again.

### Components without a model of their own

| Component | Why |
| --- | --- |
| prompt and tokenizer | stateless text functions; a request's text is a model value |
| parity and smoke tools, tensor listing, the listing commands of the command line | drivers that print; the smoke tool's comparison of a resumed with a direct run is what the exactness invariants generalise |
| tensor runtimes, vendored framework | numerical kernels and third-party code, taken to be deterministic |

The hazards of the modelled and unmodelled parts, each at its line, are in
`PROJECT.json`; those without a property say why.

## 2. Modelling decisions

*Numbers are provenance.* No tensor is computed. A code frame, hidden state,
latent or piece of audio is a record of what it was computed from: the mix of
weights, the request, the position of the random draws, the number of frames in
the KV cache, the seed and prompt of a window, the schedule positions applied.
Every sampler of the engine is a deterministic function of these (the AR
sampler is position addressed, flow noise is derived from a seed per window),
so "the same bytes" is "the same provenance", and anything that breaks it - a
draw index that is not advanced by a replayed frame, an Euler step applied
twice, a window seeded like another - is visible.

*A mix is one value.* The five component files change together in the model;
their five digests are one value. What a runtime slot holds is the mix it was
built from. Opening the assets maps all files, and building a runtime drops the
mapping, so a second build reads the path again; this is recorded (`opened`)
only when files may change under a live context, since otherwise both readings
give the same.

*Steps.* A step of the engine is what happens between two polls. Computations
that the code does before the next poll are in the same step, including the
release of leases and the encoding of the output. A failure of a computation is
a step of its own at each point where control is inside a lease, a failure to
build a runtime is one where the lease is taken, and the allocation of the
output may fail after the lease is over (`Emit`).

*The host* keeps the newest boundary of each kind and may submit any of them at
any time. Older boundaries would be states the model has already visited with
the same contents, since every saved boundary is a function of a mix, a request
and a position; what they would add is a host that goes back.

*Durations are frames.* `WindowLoop` uses the real geometry (200 frames every
100, 172 latents of overlap, 86 and 258 of crop); the engine uses windows of
two frames every frame with the same proportions between window and hop. The
closed forms that connect the two are proved. `RequestTravels` takes durations and
scales in thirds of a millionth, so that a value can lie off the six decimals of
`std::to_string`, and models the truncation to frames: from a double on the staged
way (`StagedFrames`), and on the blocking way from the float that the session reads
in six decimals (`SixDecimals`, `FloatBelow`, `BlockingFrames`).

*A file is a header, a directory of numbers and a payload of cells.* A cell is
what a codec writes as one item: a count, the codes of a frame, the latents of a
window, the metadata, the request text, a whole file. Offsets and sizes count
cells. SHA-256 is taken to be injective: the digest of a file is its contents
with the digest field zeroed. `decode` sorts the ranges with `std::sort`, which
keeps ranges that begin together in their order as long as there are at most
sixteen; the engine's files have three or five.

*A document is a function from keys to values* with a flag for a repeated key;
characters, escapes and UTF-8 are not modelled, a document's length is that of
its strings and one unit for each member. Whole numbers are exact; scales and
durations are thirds of a millionth. From 4.0 on, where a third of a millionth is
less than a float can tell from its neighbour, scales are taken to have no more
than six decimals (`ScaleAssumption`).

*A stage call in `RequestTravels` is one step* with the results of an
uninterrupted run, cut at any poll. That the calls of the engine do give these
results is what `EngineMixes` and `EngineRequests` check.

*Files* of the release tools are units or states (missing, partial, whole) with
a flag for damage, not bytes. Python's buffering, page cache and `fsync` are not
modelled: a kill is a kill of the process, not of the machine.

## 3. Modules

Engine, from the bottom:

- `AcousticWindows` - the geometry as closed forms: `WindowCount`,
  `WindowStart`, `FramesOf`, `LatentFrames`, carry and crop bounds.
- `WindowLoop` - `chunk_starts` and the assembly of the song as the code's
  loops, checked and proved against the closed forms.
- `Boundaries` - provenance types, the four durable boundaries by magic
  (`COD`, `CON`, `FLW`, `LAT`), the checks a stage makes of one
  (`CodesCursorAccepted`, `ConditionWindowsAccepted`, `FlowCursorAccepted`,
  `LatentsAccepted`), and the uninterrupted results (`RefCodes` ... `RefSong`).
- `EngineState` - what the stages share: the context, runtime slots and leases,
  `ensure_components` with its partial progress, and the ways a call returns.
- `CodesStage`, `DiffuseStage`, `DecodeStage` - one action per step of
  `run_codes`, `run_flow`, `run_decode`, with every poll and fault. Each has one
  variable for the locals of the call in progress.
- `CantorEngine` - the stages composed with load, free, a crash of the process,
  rejected input and the replacement of component files; the safety properties.
- `SongService` - the abstract specification: what a host is promised. Results
  appear whole, each made of an earlier result of the same song and mix.
- `CantorRefinement` - the mapping under which `CantorEngine` implements it. A
  boundary whose contents are not those of an uninterrupted run maps to a
  result no step of the service yields, so the refinement includes exactness.
- `CantorLiveness` - the fairness and the liveness properties.
- `CantorClaims` - a sentence of `docs/cantor.md` that the code does not keep.

Requests, files and the blocking path:

- `RequestForm` - documents, `Accepts`, `Read`, `Canonical`, and the frames of a
  duration on both ways (`StagedFrames`, `BlockingFrames`).
- `Checkpoint` - `Encode` and `Decodes`, with the overlap check as written: only
  neighbours of the sorted ranges are compared.
- `BoundaryFiles` - the sections of the four kinds of file (`FileOf`), what makes
  one readable, and the boundary found in it (`BoundaryIn`).
- `BlockingPipeline` - `generate_wav` and `generate`: enter a phase, work, leave
  it, from the document to the WAV file, with an exception anywhere.
- `RequestTravels` - the composition: a document goes through the stages as files
  which a host may store damaged or another program may lay out differently, or
  through the blocking path.

Release tools:

- `Snapshot` - `download_model.py`: the pool, the answers 200, 206 and 416, cut
  and damaged bodies, the manifest.
- `Conversion` - `convert_model.py` with `publish_hf.py` beside it.
- `R2Release` - `publish_r2.py`, any number of publishers and releases. `aws s3 cp`
  is a child process, so whoever is killed or gives up during a copy leaves its
  put in `late`, from where it is stored at any time, several times if several
  equal ones were left, or never. `turns` records whether the operators have
  taken turns so far: a run begins only when no run of another release goes on
  (`InTurn`) and no put of another release is still under way.

State and code: `ctx` is `cantor_ctx`, `runtime` its four `unique_ptr` slots,
`graphs` the modules with request graphs or KV state, `pc` and `ar`, `flow`,
`decode` the point and the locals of the call in progress, `ret` what the last
dispatched call returned, `store` what the host saved, `disk` what the component paths
name. In `RequestTravels`, `doc` is the client's document, `file` the bytes the
host holds and `origin` whose they are, `saved` the boundary written last and
`answer` the end of the last call; `phase` and `resident` are where
`generate` stands and the runtimes of its session, `song` its locals, `wav` the
file it wrote.

`MC_*` modules only give values to constants. `*Proofs` modules hold the proofs
of the module they are named for; the engine's proofs are `CantorEngineProofs`
(memory and progress) and `CantorExactProofs` (files, digests, songs and the
abstract service), and `BoundariesProofs` holds the facts about windows.

## 4. Runs

Passing runs (`tlc -config <run>.cfg <module>.tla`):

- `WindowLoop` (MC_WindowLoop). The real geometry for 1 to 450 frames and the
  longest results. The loop ends with the closed-form windows
  (`LoopMatchesClosedForm`); they tile the result (`WindowsTile`); every carry
  is a whole overlap (`CarryIsFull`); the kept parts meet inside the overlap
  (`SeamsMeet`); the song outgrows its frames by less than one latent per window
  (`DriftBounded`, 345 latents standing for 344.53).
- `EngineMixes` (MC_CantorEngine). One request and three mixes whose songs have
  two windows, one window and no sound, both values of `keep_loaded`, both
  exceptions. Every interleaving of calls, polls, faults, crashes and changes
  of mix between contexts: weights are those whose digests are stamped
  (`WeightsMatchDigests`); codes, conditions, flow and song are those of an
  uninterrupted run (`SavedCodesExact`, `SavedFlowExact`, `SongExact`); what the
  engine saves it accepts (`SavedBoundariesAccepted`); a resumed flow only moves
  forward (`FlowProgressKept`); a song is there only between calls, and only if the
  last call that was dispatched is a DECODE that completed (`SongOnlyAfterDecode`:
  a call in progress, cancelled, failed or of another stage has dropped it);
  memory is released on every way out (`ReleasedBetweenCalls`) and holds one model
  (`OneModelAtATime`).
- `EngineRequests` (MC_CantorEngine). Two requests of different length through
  one host, whose boundaries of different stages may belong to different songs:
  `ImplementsSongService`, the refinement, which includes exactness.
- `EngineLive` (MC_CantorLiveness). `SongDelivered`: from whatever interruptions
  left behind, the song arrives once they stop. `CallReturns`: no call runs for
  ever, also when the process may die and any poll may cancel.
- `RequestTravels` (MC_RequestTravels). Forty-four documents through parsing,
  canonical text and the files of every stage, stored well or badly, and through
  the blocking path. Each stage works with the request the client sent
  (`RequestSurvives`); a file changed in any one place is refused by every stage
  (`DamageIsRefused`); of the files laid out again with a right digest, only those
  with disjoint sections are accepted (`AcceptedSectionsDisjoint`); what the
  engine writes it reads, and as what was written (`WrittenIsRead`, with two
  exceptions, section 8); the blocking song is the staged
  reference of the same request, its scales rounded to six decimals and its duration
  the same unless it gained or lost a frame (`BlockingSongExact`), in the memory of
  one phase (`BlockingMemory`).
- `Snapshot`. Whatever runs failed, were killed or skipped the weights, the
  manifest is truthful (`ManifestTruthful`), what arrived is not asked for again
  (`PartsOnlyGrow`), and reruns end with the snapshot
  (`SnapshotArrivesUnlessStuck`) unless in the end there is always a `.part` of full
  length with wrong bytes. A `.part` that is damaged and short is resumed and becomes
  one, which only a server that ignores the range replaces.
- `Conversion`. Only a whole matrix is published (`PublishedIsWhole`), and asking for
  the missing artifacts again publishes it (`ReleaseFinishes`) once kills, failures
  and refusals of the release matrix end, unless a kill left an artifact without
  record or checksum.
- `R2Releases` (MC_R2Release). Two publishers and two releases. While operators take
  turns, whoever reads a manifest finds all it lists (`ManifestIsComplete`), nothing
  that is stored is replaced (`TurnsKeepObjects`) and a pass means a whole release
  (`PassMeansPublished`): with two publishers of one release at once, with runs that
  fail or are killed anywhere, and with their copies stored later, also in the
  middle of the next run. Whatever the operators do, an object is safe as soon as no
  other put for its key is under way (`SettledObjectsStay`), and its recorded digest
  is that of its bytes (`RecordedShaIsOfTheObject`).
- `R2OneRelease` (MC_R2Release). Two publishers of one release: once nothing fails and
  nobody is killed, a run passes, whatever puts were left behind
  (`ReleasePublished`).

Runs that TLC finds violated, each a disagreement recorded under "findings":
`EngineFilesChange`, `R2LatePut`, `SnapshotStuck` (section 8).

## 5. Bounds and why they are enough

- *Windows of two frames every frame, a target of three frames, two Euler
  steps.* Songs have no, one or two windows. With two windows there is a first
  one (not cropped in front, no prompt) that is not the last, and a last one
  that has a prompt. Two steps give a pause before the first, between and after
  updates. Longer songs repeat the step from one window to the next, whose state
  is one carry and one cursor; the arithmetic of more windows is `WindowLoop`'s.
- *Three mixes, one request; one mix, two requests.* A property that compares a
  boundary with a mix or a request needs a second value to be confused with; the
  third mix is there for the song without sound. Mixes and requests together
  multiply the states without relating them: provenance keeps them apart in
  separate fields, and only digests relate a boundary to a context.
- *One Euler step in `EngineRequests`*, where positions inside a window do not
  matter; two in `EngineMixes`, where they do.
- *Boundaries and calls are unbounded*: the models have no counter of calls,
  pauses, crashes or reruns. The state space is finite because what is saved is
  overwritten.
- *`Snapshot`*: a metadata file of one unit and two payloads of two, so a
  `.part` is absent, empty, partial, complete or overlong, and a pool of two
  jobs has three files to take. *`Conversion`*: two artifacts and two sidecars,
  so there is a before, a between and an after. *`R2Release`*: two objects and
  the manifest, one object shared by both releases, the other of equal length in
  both, since the publisher compares lengths and recorded digests.

- *`RequestTravels`*: documents with every field in each of its spellings and
  with what overrides what, and documents with one thing wrong each; durations of
  at most four frames, so no, one, two or three windows, some of which are not a
  whole number of frames: one of which six decimals leave nothing, one just
  above two frames, and one just below five, which is four frames on the staged way
  and five on the blocking way; scales that six decimals
  change, one of which becomes 0; one, two or three Euler steps. A text as long as
  a document may be makes the canonical form too long. Damage changes one header
  field, one directory entry or one cell, or shortens or lengthens the file;
  another layout moves one section anywhere in, before or after the payload,
  also on top of others and with no bytes. One component mix is enough here: that
  another mix refuses a boundary is shown by `EngineMixes`. On the blocking way
  some whole numbers of frames lose one to the float; on the staged way the first
  to lose one is 29 frames, beyond this instance, so that case is covered by the
  proof of `BlockingSongHolds` only.

No state constraints and no symmetry are used.

## 6. Fairness

- *Engine* (`CantorLiveness`). The steps of a call are weakly fair: a call
  computes on the host's thread without waiting for anybody. The host is assumed
  to load an engine when it has none and to submit its most advanced boundary
  (weakly fair). No fairness is assumed of polls, faults, crashes or other
  calls. `SongDelivered` is conditional on these ending: the code guarantees no
  progress to a host that cancels every call at its first poll, which comes
  before the first Euler update and before the first frame.
- *Snapshot*. The pool's threads run and the server answers (weak fairness); the
  user starts the downloader again and again (strong fairness, because a run
  disables starting another). The conclusion is conditional on cut, damaged and
  failing transfers and kills ending.
- *Conversion*. Processes run (weak); the operator asks for each artifact again
  and again (strong).
- *R2*. A publisher that runs keeps running and the store answers the copy it waits
  for (weak); the operator starts it again (weak: nothing else is done meanwhile in
  the run of one release). Puts that were left behind need not ever be stored.

Failures carry outcomes of their own (`lost`, `killed`, `error`), so that "no
more failures" in a liveness property does not also exclude the ordinary steps
that would look the same.

## 7. What is proved

All with TLAPS, for every value of the constants that satisfies the named
assumptions.

*Geometry* (`BoundariesProofs`, `WindowLoopProofs`): `LoopTyping`, `ClosedForm`,
`Tiling`, `FullCarry`, `Seams`, `Drift`, from `WindowAssumption` (windows overlap by
half), `LatentAssumption` (a full window is longer than two overlaps, the
shortest follower takes one, and the crops meet) and, for `Drift` only,
`StrideAssumption` (what every window but the last adds to the song is the
latents of one hop, rounded up); all hold of the real numbers and of the small ones, and
TLC evaluates them in every run. `LoopInv` says where the loop is: so many
starts, each `WindowStart(i)`, and the crops of the windows assembled so far.
It gives `ClosedForm`; `Tiling`, `FullCarry` and `Seams` follow from it and from
lemmas on quotients. `Drift` is about a sum over all windows: the sum is a
recursive function, which is unfolded one window at a time, and the least window
where the bound fails has a predecessor where it holds.

*Engine, memory and progress* (`CantorEngineProofs`): `Typing`, `Released`,
`OneModel`, `SongOnlyThen`, `FlowProgresses`, from `ModelAssumption`,
`OptionsAssumption` and `NoneAssumption`. None of the invariants is inductive: that
graphs are gone when a call returns needs to know which module was leased while
it ran. `EngineInv` conjoins `TypeOK`, `CallInv` (the program counter implies the
locals of its stage; a flow call always has a condition window left, a
projection at least one hidden state) and `ResidencyInv` (graphs exist exactly
while their module is leased, and without `keep_loaded` no other runtime does).
Every way of entering a call (`EnteredInv`, `RefusedInv`), moving in it (`LoopInv`)
and leaving it (`ReturnedInv`) is one lemma, used by all stages; `Inductive`
combines them. `FilesMayChange` is not restricted: memory does not depend on the
files.

*Engine, what is computed* (`CantorExactProofs`), the same assumptions and
`FilesStay` (nobody replaces files under a live context); `EngineFilesChange` shows
what happens without it.

- `WeightsMatch`. `MixInv` says more than the property: a context that is not
  hashed yet has no runtime, one that is hashed has the digests of what is on
  disk, and no mapping kept by an asset object is of other files. `CallStep` says
  what any step of a call may do to digests and slots; every action of the three
  stages is shown to be one, and `CallStepInv` does the rest.
- `CodesExact`, `FlowIsExact`, `SongIsExact`. What the host saved cannot be exact
  unless the locals of the call that produced it were: `ExactInv` says of each
  program counter how much of the stage's result exists and that it is that part
  of the result of an uninterrupted run, frame for frame, update for update and
  piece for piece, with the carry of the window before. It holds of whatever a
  call resumes from because every boundary of the store is a prefix of such a
  run.
- `SavedAccepted`. `HeldInv` adds that the indices of every saved boundary are the
  sizes of what it contains, which is what the readers check.
- `EngineImplementsService`, `Spec => Service!Spec`. Each engine step is the step
  of the abstract service of the same name, or a stutter; `ExactInv` identifies the
  song the engine plays with the one the service promises.

*R2* (`R2ReleaseProofs`), all from `ReleaseAssumption` alone: any number of
publishers, of releases and of objects, publishers that die anywhere and copies
that are stored whenever they like. `RecordInv` says that a publisher at work is at
a key of one release whose files it holds, and that whatever is under way or stored
carries the digest of its own contents. It gives `PublishersTyped` and
`RecordedSha`. `StoreSteps` sorts the steps by what they do to the store: puts under
way only go, one of them is stored, or a copy begins over nothing. So no new put
appears for an occupied key, which is `SettledStay`.

`ManifestComplete`, `TurnsKeep` and `Published` speak of the behaviours, and the parts
of behaviours, in which operators take turns. `TurnInv` holds as long as `turns` is
"taken": all that publish publish one release (`OneRelease`), every put under way is
of it and over nothing or over its like (`LateOfTurn`, `OverNothing`, `Agreed`), what a
publisher has behind it is stored (`BehindHeld`), and a manifest that is stored or
under way has its objects stored (`ManifestLast`). That a run which begins finds this
true of itself is what `InTurn` asks, and `R2LatePut` is what happens without.

*Checkpoint download* (`SnapshotProofs`): `SnapshotTyping`, `ManifestIsTrue`,
`PartsGrow`, from `SnapshotAssumption` (finitely many files of at least one unit,
a pool of 1 to 16) and `NoneAssumption`. `SnapshotInv` adds to the types that a file being
written is there (`Streaming`). The manifest stays true because no task ever
takes a verified file away: `KeptWhole`, shown for every step, is what lets a
manifest written by an earlier run be believed.

*Conversion* (`ConversionProofs`): `ConversionTyping` and `PublishedWhole`, from
`MatrixAssumption`. The publisher looks at the sidecars by name only and uploads
long after its check, so `ConversionInv` says where an interrupted conversion may
have left things (an artifact has the files of the steps taken for it, and
there is none before every sidecar is whole) and that from the check to the
upload the directory is whole, because no run of the converter touches a whole
directory.

*Files and requests* (`RequestTravelsProofs`). The directory: `DecodedDisjoint`
says that comparing neighbours is enough. For two sections, of which one comes
first, either nothing lies between and the check speaks of them, or the last
section before the later one does (a finite set of positions has a last member),
and begins no earlier than the first; a section that begins together with its
successor must be empty. The canonical text: `CanonicalFaithful`, from
`LengthAssumption` and `LimitAssumption`, by cases on which fields a document
gives.

The files: `RequestArrives`, `DamageRefused`, `AcceptedDisjoint` and `TravelsTyping`
follow from `TravelsInv`. It says of a file by whom it was left and what that
means. One of the engine or of another program is `Sound`: every request in its
payload, and in the payload of the file inside it, is the canonical form of the
client's; that is about cells, wherever a directory says they are, so it does
not matter how another program lays them out. One of the engine is also
`Uninjured`: its digest is that of its contents and no section is empty. A damaged
one is `Injured`: no stage opens it. One lemma for each part of the file shows
that damage makes an uninjured file an injured one: a changed magic, version,
stage, header size or total, a changed entry and a changed payload change what
the digest covers, and a changed count or digest does not match it.

`WrittenReadBack` needs the layout itself. `Runs` is the list of what the sections
amount to joined one by one (`FlattenSeq` is a fold, of which these are the
stages); from it `EncodeLaid` has where every section begins and ends, that they
do not overlap and that its bytes are found there, `OneSection` that a kind is
found again, and the lemmas named `*Back` that a list of codes, conditions,
latents, and so on is read as it was written. `EngineInv` says that a file of the
engine is one of the four kinds, made of the client's request and some weights;
by kind, its sections and sizes are those the reader of the kind asks for. It is
of files whose canonical request fits and whose numbers are finite, which are the
two exceptions of section 8.

These theorems rest on `RequestsAssumption` (what documents ask for is a request,
and its target is the frames of its duration), `DocumentsAssumption` (documents
are JSON values), `SizeAssumption` (300 s are 7500 frames, and files of so many
are within the limit of 2 GiB), `NoSongAssumption` and the assumptions about windows
and the model, all evaluated by TLC; and on the hypothesis `NoneIsNoFile`, that
the value that stands for "no file" has no field `magic`. It is a hypothesis of
the theorems and not an assumption of a module because TLC does not evaluate the
domain of a model value.

*Blocking path* (`RequestTravelsProofs`): `BlockingMemoryHolds` from the invariant
that the runtimes are exactly those of the phase; `BlockingSongHolds` from
`RequestsAssumption`, `ScaleAssumption`, `ModelAssumption` and `WindowAssumption`. That
a duration gains or loses one frame at most is arithmetic: `StagedBetween` and
`BlockingBetween` bound the frames of each way by the seconds asked for, with the
rounding errors of the double, of the six decimals and of the float, and `OneFrame`
compares them. `SongInv` says of
each phase what of the song exists: so many frames, finished windows, updates of
the window at work and decoded pieces, each the one of the reference, with the
carry of the window before, and how many of them the phase has to have reached
when it ends.

Each of these invariants was checked by TLC as an invariant of the run of its
module before it was proved: `LoopInv` on *WindowLoop*, `EngineInv`, `MixInv`,
`ExactInv` and `HeldInv` on *EngineMixes*, all but `HeldInv` also on
*EngineRequests*, `TurnInv` on *R2Releases*, `SnapshotInv` on *Snapshot*,
`ConversionInv` on *Conversion*, and
`TravelsInv` and the `EngineInv` of files on *RequestTravels* (with finite sets for
the two quantifiers over all values in their definitions).

*Only model-checked*: everything about liveness, which the prover does not treat,
and the counterexamples of the runs that expect one. Every invariant and every
action property of the passing runs is a theorem.

## 8. Where code and documents differ

Shown by a run:

- `EngineFilesChange`: `docs/cantor.md:21` says a state cannot silently resume
  against another mix. Digests are computed once per context and files are
  opened later, again for every further runtime of a module.
- `R2LatePut`: `docs/releasing.md:61` says a mismatching object is not replaced.
  The look-up and the copy are two requests, and the copy is a child process that
  outlives its publisher: with one publisher at a time, the put of a killed run
  is stored after the run of another release has verified its own object. Two
  publishers of two releases at once end the same way. The code has no lock and
  no conditional put; that operators take turns, and wait for copies that a killed
  run may have left, is the assumption `turns` stands for.
- `SnapshotStuck`: `README.md:35` says `.part` files are resumed and every byte
  is verified. A `.part` of full length with a wrong digest is kept, every later
  run is answered 416 and fails again, until somebody deletes the file.

Noticed, without a run:

- `docs/cantor.md:80` says a stage exception also discards that stage's runtime.
  An exception after the lease was finished, while the output is encoded or
  allocated (`cantor-abi.cpp:740`), leaves a kept runtime resident.
- `docs/architecture.md:61` says `duration_seconds` is required; the parser and
  `docs/cantor.md:95` make it optional, with 20 seconds.
- A duration of 0.04 s passes validation (`tests/test-request.cpp:36`). It is one
  frame on the staged way and none on the blocking way, where it always fails.
  Of the 7500 durations of a whole number of frames, 3602 lose a frame on the
  blocking way and 463 on the staged way (`BlockingFrames`, `StagedFrames`); one
  microsecond below them, 2768 give a frame more on the blocking way (1.9999999 s is
  49 frames staged and 50 blocking). Farther than 15 microseconds from a whole
  number of frames both ways agree.
- The blocking way passes both scales with six decimals (`minimax-native.cpp:98`):
  a scale below half a millionth becomes 0, on the staged way it is used as it is.
- Latents that are not finite are written as a DONE boundary that DECODE refuses;
  the host learns of it after DIFFUSE. The canonical form of an accepted request
  may exceed the 1 MiB a document may have (it spells out every default, and
  escapes), so a boundary with it cannot be resumed. `WrittenIsRead` says that
  these are the only two.
- The loop over neighbouring sections (`minimax-checkpoint.cpp:292`) has no case
  for a file of no sections; the engine writes none.
- `docs/cantor.md:50` says a complete CODES boundary of maximum duration has 89
  windows; the limit of 300 s is 7500 frames, which are 74 windows.
- `docs/cantor.md:53` says DIFFUSE cancellation occurs after an Euler update;
  the poll is before each update, also before the first one of a call.
- `docs/releasing.md:60` says each SHA-256 is recorded with its object; the file
  is read by the copy, long after it was hashed, so an artifact edited in
  between is stored under another digest. `R2Release` assumes files are not
  edited while a publisher runs or a copy it left behind reads them.

## 9. Not modelled, and why

Small things left out of modelled parts: calls with null arguments or an unknown
stage answer an error and change nothing (`InvalidArguments`), so they are not the
last call `ret` speaks of; a failure while the song is allocated leaves
`sample_count` and `sample_rate` set, which nothing shows without samples
(`CompleteDecode`); the release matrix of `publish_hf.py` is approved or not, whatever
its gates say (`HubGated`).

Numerical results, GGML backends and threads inside a computation; the characters
of requests and the bytes of boundary items (formats without control); two
threads calling one context, which the ABI does not allow; a blocking session
that is used again, and the path without the memory saver, which nothing under
`src/src` or `src/tools` reaches; the limit of 2 GiB in `encode`, far beyond the
longest song; a converter child that outlives its killed parent; two downloaders
or two conversions in one directory; the positions of the language model's KV
cache, whose limit depends on the number of prompt tokens; loss of power; GitHub
release workflows, which are configuration.

## 10. Plan

Done: windows, engine, abstract service, liveness, release tools, request
documents, files and the blocking path. Proved: every safety property the runs
check.

Next, in this order:

1. `Conversion` with two processes on one artifact: `README.md:37` says existing
   GGUFs are never overwritten, and the converter removes an existing output
   before it renames its own.
2. Prompt plus target frames against the 10,240 positions of the language model.

The number of runs and properties stays small: new questions are added to the
existing instances where these reach them.
