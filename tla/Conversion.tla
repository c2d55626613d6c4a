----------------------------- MODULE Conversion -----------------------------
(***************************************************************************)
(* From the snapshot to the Hub: convert/convert_model.py turns it into    *)
(* GGUF artifacts, each with a manifest and a checksum file, and           *)
(* convert/publish_hf.py publishes the directory once it is the whole      *)
(* matrix.  Both are run again and again by an operator, and may be killed *)
(* at any step.  A file is missing, partly written, or whole.              *)
(***************************************************************************)
EXTENDS Naturals, Sequences

CONSTANTS
  Artifacts,  \* the component and profile pairs, in the order of the loops
  Sidecars,   \* configs, tokenizer and license, in the order of SIDECARS
  None

Matrix == { Artifacts[i] : i \in 1 .. Len(Artifacts) }
Extras == { Sidecars[i] : i \in 1 .. Len(Sidecars) }

ASSUME MatrixAssumption ==
  /\ Artifacts \in Seq(Matrix) /\ Sidecars \in Seq(Extras)
  /\ Len(Artifacts) > 0 /\ Len(Sidecars) > 0
  /\ \A i, j \in 1 .. Len(Artifacts) : Artifacts[i] = Artifacts[j] => i = j
  /\ \A i, j \in 1 .. Len(Sidecars) : Sidecars[i] = Sidecars[j] => i = j

VARIABLES
  source,    \* what source-manifest.json says of the snapshot
  extra,     \* the sidecars of the output directory
  temp,      \* artifacts whose .gguf.tmp exists
  gguf,      \* artifacts whose .gguf exists: it is renamed into place
  record,    \* the .manifest.json of each artifact
  checksum,  \* the .sha256 of each artifact
  conv,      \* convert_model.py
  hub,       \* publish_hf.py
  remote     \* the published repository: None, or the files as uploaded
dirVars == <<extra, temp, gguf, record, checksum>>
vars == <<source, dirVars, conv, hub, remote>>

States == {"missing", "partial", "whole"}
Stopped(how) == [pc |-> "idle", todo |-> {}, at |-> 1, ended |-> how]

(* What an operator may ask for: everything, or one artifact.              *)
Plans == {Matrix} \cup { {a} : a \in Matrix }

(* The files of the directory, as the publisher stages them.               *)
Staged == [gguf |-> gguf, record |-> record, checksum |-> checksum,
           extra |-> extra]

TypeOK ==
  /\ source \in {"missing", "incomplete", "complete"}
  /\ extra \in [Extras -> States]
  /\ temp \subseteq Matrix /\ gguf \subseteq Matrix
  /\ record \in [Matrix -> States] /\ checksum \in [Matrix -> States]
  /\ conv.pc \in {"idle", "sidecars", "copying", "next", "converter",
                  "record", "recording", "checksum", "summing"}
  /\ conv.todo \subseteq Matrix
  /\ conv.at \in 1 .. Len(Artifacts) + Len(Sidecars) + 1
  /\ conv.ended \in {"not yet", "exit", "failed", "killed"}
  /\ hub \in {"idle", "failed", "validated", "listed", "uploaded"}
  /\ remote = None \/ remote \in [gguf : SUBSET Matrix,
       record : [Matrix -> States], checksum : [Matrix -> States],
       extra : [Extras -> States]]
  \* A record or checksum is only ever written for a finished artifact.
  /\ \A a \in Matrix : record[a] # "missing" => a \in gguf
  /\ \A a \in Matrix : checksum[a] # "missing" => record[a] = "whole"

Init ==
  /\ source \in {"missing", "incomplete"}
  /\ extra = [s \in Extras |-> "missing"]
  /\ temp = {} /\ gguf = {}
  /\ record = [a \in Matrix |-> "missing"]
  /\ checksum = [a \in Matrix |-> "missing"]
  /\ conv = Stopped("not yet") /\ hub = "idle" /\ remote = None

(* The downloader finishes.                                                *)
SourceArrives ==
  /\ source # "complete"
  /\ source' = "complete"
  /\ UNCHANGED <<dirVars, conv, hub, remote>>

-----------------------------------------------------------------------------
(* convert_model.py, main: validate_source refuses a snapshot whose        *)
(* manifest is missing or incomplete.                                      *)
Convert(plan) ==
  /\ conv.pc = "idle"
  /\ source = "complete"
  /\ conv' = [pc |-> "sidecars", todo |-> plan, at |-> 1,
              ended |-> "not yet"]
  /\ UNCHANGED <<source, dirVars, hub, remote>>

(* Mutant: a sidecar that is there is not compared with its source.        *)
CheckSidecarExists ==
  /\ conv.pc = "sidecars"
  /\ LET s == Sidecars[conv.at]
         following == IF conv.at = Len(Sidecars)
                      THEN [conv EXCEPT !.pc = "next", !.at = 1]
                      ELSE [conv EXCEPT !.at = conv.at + 1]
     IN \/ extra[s] # "missing" /\ conv' = following /\ UNCHANGED extra
        \/ /\ extra[s] = "missing"
           /\ extra' = [extra EXCEPT ![s] = "partial"]
           /\ conv' = [conv EXCEPT !.pc = "copying"]
  /\ UNCHANGED <<source, temp, gguf, record, checksum, hub, remote>>

(* copy_sidecars: a sidecar that is there and whole is left alone; one     *)
(* that differs from its source ends the run.                              *)
CheckSidecar ==
  /\ conv.pc = "sidecars"
  /\ LET s == Sidecars[conv.at]
         following == IF conv.at = Len(Sidecars)
                      THEN [conv EXCEPT !.pc = "next", !.at = 1]
                      ELSE [conv EXCEPT !.at = conv.at + 1]
     IN \/ extra[s] = "whole" /\ conv' = following /\ UNCHANGED extra
        \/ extra[s] = "partial" /\ conv' = Stopped("exit") /\ UNCHANGED extra
        \/ /\ extra[s] = "missing"
           /\ extra' = [extra EXCEPT ![s] = "partial"]
           /\ conv' = [conv EXCEPT !.pc = "copying"]
  /\ UNCHANGED <<source, temp, gguf, record, checksum, hub, remote>>

(* shutil.copy2 writes to the final name.                                  *)
CopySidecar ==
  /\ conv.pc = "copying"
  /\ extra' = [extra EXCEPT ![Sidecars[conv.at]] = "whole"]
  /\ conv' = [conv EXCEPT !.pc = "sidecars"]
  /\ UNCHANGED <<source, temp, gguf, record, checksum, hub, remote>>

(* Mutant: the temporary file of an earlier run is in the way too.         *)
ExistsWithTemp(a) == a \in gguf \cup temp

(* convert_one: output_path.exists().                                      *)
Exists(a) == a \in gguf

(* The loops over components and profiles.  convert_one refuses an         *)
(* artifact that exists, which ends the run; else the converter is started *)
(* and begins a temporary file.                                            *)
NextArtifact ==
  /\ conv.pc = "next"
  /\ \/ /\ conv.at > Len(Artifacts)
        /\ conv' = Stopped("exit") /\ UNCHANGED temp
     \/ /\ conv.at <= Len(Artifacts) /\ Artifacts[conv.at] \notin conv.todo
        /\ conv' = [conv EXCEPT !.at = conv.at + 1] /\ UNCHANGED temp
     \/ /\ conv.at <= Len(Artifacts) /\ Artifacts[conv.at] \in conv.todo
        /\ Exists(Artifacts[conv.at])
        /\ conv' = Stopped("exit") /\ UNCHANGED temp
     \/ /\ conv.at <= Len(Artifacts) /\ Artifacts[conv.at] \in conv.todo
        /\ ~Exists(Artifacts[conv.at])
        /\ temp' = temp \cup {Artifacts[conv.at]}
        /\ conv' = [conv EXCEPT !.pc = "converter"]
  /\ UNCHANGED <<source, extra, gguf, record, checksum, hub, remote>>

(* Mutant: the checksum is written before the record.                      *)
ConverterReturnsToChecksum ==
  /\ conv.pc = "converter"
  /\ gguf' = gguf \cup {Artifacts[conv.at]}
  /\ temp' = temp \ {Artifacts[conv.at]}
  /\ conv' = [conv EXCEPT !.pc = "checksum"]
  /\ UNCHANGED <<source, extra, record, checksum, hub, remote>>

(* The converter renames its temporary file into place.                    *)
ConverterReturns ==
  /\ conv.pc = "converter"
  /\ gguf' = gguf \cup {Artifacts[conv.at]}
  /\ temp' = temp \ {Artifacts[conv.at]}
  /\ conv' = [conv EXCEPT !.pc = "record"]
  /\ UNCHANGED <<source, extra, record, checksum, hub, remote>>

(* It fails.  Its temporary file is removed, unless it was the metadata    *)
(* that could not be written.                                              *)
ConverterFails ==
  /\ conv.pc = "converter"
  /\ temp' \in {temp, temp \ {Artifacts[conv.at]}}
  /\ conv' = Stopped("failed")
  /\ UNCHANGED <<source, extra, gguf, record, checksum, hub, remote>>

(* write_text of the manifest, then of the checksum: opened and truncated, *)
(* then written.                                                           *)
WriteRecord ==
  /\ \/ /\ conv.pc = "record"
        /\ record' = [record EXCEPT ![Artifacts[conv.at]] = "partial"]
        /\ conv' = [conv EXCEPT !.pc = "recording"]
     \/ /\ conv.pc = "recording"
        /\ record' = [record EXCEPT ![Artifacts[conv.at]] = "whole"]
        /\ conv' = [conv EXCEPT !.pc = "checksum"]
  /\ UNCHANGED <<source, extra, temp, gguf, checksum, hub, remote>>

WriteChecksum ==
  /\ \/ /\ conv.pc = "checksum"
        /\ checksum' = [checksum EXCEPT ![Artifacts[conv.at]] = "partial"]
        /\ conv' = [conv EXCEPT !.pc = "summing"]
     \/ /\ conv.pc = "summing"
        /\ checksum' = [checksum EXCEPT ![Artifacts[conv.at]] = "whole"]
        /\ conv' = [conv EXCEPT !.pc = "next", !.at = conv.at + 1]
  /\ UNCHANGED <<source, extra, temp, gguf, record, hub, remote>>

(* convert_model.py is killed, the converter with it.                      *)
ConvertKilled ==
  /\ conv.pc # "idle"
  /\ conv' = Stopped("killed")
  /\ UNCHANGED <<source, dirVars, hub, remote>>

-----------------------------------------------------------------------------
(* validate_artifacts: exactly the matrix, no temporary file, every record *)
(* and checksum file agreeing with the bytes, and sidecars that exist.     *)
Complete ==
  /\ gguf = Matrix
  /\ temp = {}
  /\ \A a \in Matrix : record[a] = "whole" /\ checksum[a] = "whole"
  /\ \A s \in Extras : extra[s] # "missing"

(* publish_hf.py, main: the artifacts are validated, and then the release  *)
(* matrix: either its gates are approved or the run ends.                  *)
HubValidate ==
  /\ hub \in {"idle", "failed"}
  /\ Complete
  /\ hub' = "validated"
  /\ UNCHANGED <<source, dirVars, conv, remote>>

HubGated ==
  /\ hub \in {"idle", "failed"}
  /\ Complete
  /\ hub' = "failed"
  /\ UNCHANGED <<source, dirVars, conv, remote>>

(* list_repo_files, staging, and the refusal of any name that exists.      *)
HubList ==
  /\ hub = "validated"
  /\ hub' = IF remote = None THEN "listed" ELSE "idle"
  /\ UNCHANGED <<source, dirVars, conv, remote>>

(* upload_folder is one commit.                                            *)
HubUpload ==
  /\ hub = "listed"
  /\ remote' = Staged
  /\ hub' = "uploaded"
  /\ UNCHANGED <<source, dirVars, conv>>

(* verify_remote reads everything back.  Whatever it finds stays published.*)
HubVerify ==
  /\ hub = "uploaded"
  /\ hub' = "idle"
  /\ UNCHANGED <<source, dirVars, conv, remote>>

(* A request fails or the publisher is killed.                             *)
HubFails ==
  /\ hub \notin {"idle", "failed"}
  /\ hub' = "failed"
  /\ UNCHANGED <<source, dirVars, conv, remote>>

Converting ==
  \/ CheckSidecar \/ CopySidecar \/ NextArtifact \/ ConverterReturns
  \/ WriteRecord \/ WriteChecksum
Publishing == HubValidate \/ HubList \/ HubUpload \/ HubVerify

Next ==
  \/ SourceArrives
  \/ \E plan \in Plans : Convert(plan)
  \/ Converting \/ ConverterFails \/ ConvertKilled
  \/ Publishing \/ HubGated \/ HubFails

Spec == Init /\ [][Next]_vars

(* Processes run, and the operator asks for every artifact again and again.*)
FairSpec ==
  /\ Spec
  /\ WF_vars(SourceArrives) /\ WF_vars(Converting) /\ WF_vars(Publishing)
  /\ \A a \in Matrix : SF_vars(Convert({a}))

-----------------------------------------------------------------------------
(* What is published is whole: every artifact with a record and a checksum *)
(* of its bytes, and whole sidecars, although the publisher only looks for *)
(* sidecars by name and conversions are interrupted anywhere, also while   *)
(* it runs.                                                                *)
PublishedIsWhole ==
  remote # None =>
    /\ remote.gguf = Matrix
    /\ \A a \in Matrix :
         remote.record[a] = "whole" /\ remote.checksum[a] = "whole"
    /\ \A s \in Extras : remote.extra[s] = "whole"

(* A kill after the converter, or while a sidecar is copied, leaves a file *)
(* every later run refuses.                                                *)
Orphaned ==
  \/ \E a \in gguf : /\ checksum[a] # "whole"
                     /\ conv.pc \notin {"record", "recording",
                                       "checksum", "summing"}
  \/ \E s \in Extras : extra[s] = "partial" /\ conv.pc # "copying"

(* Any other interruption is survived: temporary files of a killed or      *)
(* failed converter, failed uploads and a late snapshot delay the release. *)
(* Asking for the missing artifacts again is enough to get it published,   *)
(* once the gates of the release matrix stay approved.                     *)
ReleaseFinishes ==
  /\ []<>~Orphaned
  /\ <>[][~ConvertKilled /\ ~ConverterFails /\ ~HubGated /\ ~HubFails]_vars
  => <>(remote # None)
=============================================================================
