------------------------------ MODULE Snapshot ------------------------------
(***************************************************************************)
(* convert/download_model.py: the pinned checkpoint is fetched file by     *)
(* file by a pool of jobs, into .part files that a later run resumes, and  *)
(* a manifest says which files are verified.  A file is how many units it  *)
(* has and whether all of them are right.                                  *)
(***************************************************************************)
EXTENDS Naturals, FiniteSets

CONSTANTS
  Files,         \* the inventory
  Weights,       \* the SafeTensors payloads, skipped by --metadata-only
  SizeOf,        \* units of each file
  Jobs,          \* --jobs
  WholeAnswers,  \* the server may answer a range with the whole file
  BadBytes,      \* a unit may arrive, or end up on the disk, damaged
  None

ASSUME SnapshotAssumption ==
  /\ IsFiniteSet(Files)
  /\ Weights \subseteq Files
  /\ SizeOf \in [Files -> Nat \ {0}]
  /\ Jobs \in 1 .. 16
  /\ WholeAnswers \in BOOLEAN /\ BadBytes \in BOOLEAN

VARIABLES
  run,       \* what main() is doing
  selected,  \* the files of this run
  task,      \* download_one of each file
  dest,      \* the files under their names
  part,      \* the .part files
  manifest   \* source-manifest.json
vars == <<run, selected, task, dest, part, manifest>>

Content == [size : Nat, intact : BOOLEAN]
Whole(f) == [size |-> SizeOf[f], intact |-> TRUE]
Empty == [size |-> 0, intact |-> TRUE]

(* The absent value is no file.                                            *)
ASSUME NoneAssumption == None \notin Content

(* Mutant: only the length is looked at.                                   *)
VerifiedLength(f) == dest[f] # None /\ dest[f].size = SizeOf[f]

(* verified: the file is there, with its length and its digest.            *)
Verified(f) == dest[f] = Whole(f)

(* The bytes a request asks the server to skip.                            *)
Offset(f) == IF part[f] = None THEN 0 ELSE part[f].size

Active == { f \in Files : task[f] \in {"request", "stream", "check"} }

TypeOK ==
  /\ run \in {"idle", "killed", "pool", "manifest"}
  /\ selected \subseteq Files
  /\ task \in [Files -> {"none", "queued", "request", "stream", "check",
                         "done", "failed", "lost"}]
  /\ dest \in [Files -> Content \cup {None}]
  /\ part \in [Files -> Content \cup {None}]
  /\ manifest \in
       [complete : BOOLEAN, verified : SUBSET Files] \cup {None}
  /\ Cardinality(Active) <= Jobs

(* The output directory may hold files somebody put there.                 *)
Init ==
  /\ run = "idle" /\ selected = {}
  /\ task = [f \in Files |-> "none"]
  /\ dest \in [Files -> {None}] \cup
       { [f \in Files |-> IF f = g THEN [size |-> SizeOf[g], intact |-> FALSE]
                          ELSE None] : g \in Files }
  /\ part = [f \in Files |-> None]
  /\ manifest = None

-----------------------------------------------------------------------------
(* main: the selected files are submitted to the pool, or only verified.   *)
Begin(files, verifyOnly) ==
  /\ run \in {"idle", "killed"}
  /\ run' = IF verifyOnly THEN "manifest" ELSE "pool"
  /\ selected' = files
  /\ task' = [f \in Files |->
       IF f \in files /\ ~verifyOnly THEN "queued" ELSE "none"]
  /\ UNCHANGED <<dest, part, manifest>>

(* Mutant: every file gets a thread.                                       *)
OpenAtOnce(f) ==
  /\ task[f] = "queued"
  /\ task' = [task EXCEPT ![f] = IF Verified(f) THEN "done" ELSE "request"]
  /\ part' = IF ~Verified(f) /\ Offset(f) > SizeOf[f]
             THEN [part EXCEPT ![f] = None] ELSE part
  /\ UNCHANGED <<run, selected, dest, manifest>>

(* A free job takes a file.  A .part that is too long is dropped.          *)
Open(f) ==
  /\ task[f] = "queued"
  /\ Cardinality(Active) < Jobs
  /\ \/ /\ Verified(f)
        /\ task' = [task EXCEPT ![f] = "done"]
        /\ UNCHANGED part
     \/ /\ ~Verified(f)
        /\ task' = [task EXCEPT ![f] = "request"]
        /\ part' = IF Offset(f) > SizeOf[f]
                   THEN [part EXCEPT ![f] = None] ELSE part
  /\ UNCHANGED <<run, selected, dest, manifest>>

(* 206: the rest of the file, which is appended.                           *)
AnswerRest(f) ==
  /\ task[f] = "request"
  /\ Offset(f) \in 1 .. SizeOf[f] - 1
  /\ task' = [task EXCEPT ![f] = "stream"]
  /\ UNCHANGED <<run, selected, dest, part, manifest>>

(* 200: the file from its start, to an offset of zero or regardless of the *)
(* range.                                                                  *)
AnswerWhole(f) ==
  /\ task[f] = "request"
  /\ Offset(f) = 0 \/ WholeAnswers
  /\ task' = [task EXCEPT ![f] = "stream"]
  /\ part' = [part EXCEPT ![f] = Empty]
  /\ UNCHANGED <<run, selected, dest, manifest>>

(* 416: there is nothing after the offset, so the .part has its length.    *)
(* The mutant raises every HTTP error.                                     *)
AnswerNothingRaises(f) ==
  /\ task[f] = "request"
  /\ Offset(f) = SizeOf[f]
  /\ task' = [task EXCEPT ![f] = "failed"]
  /\ UNCHANGED <<run, selected, dest, part, manifest>>
AnswerNothing(f) ==
  /\ task[f] = "request"
  /\ Offset(f) = SizeOf[f]
  /\ task' = [task EXCEPT ![f] = "check"]
  /\ UNCHANGED <<run, selected, dest, part, manifest>>

(* A unit of the body is written.  It is a bad one if the .part was right  *)
(* before it, or had its length: appended to a .part that is damaged       *)
(* already, a unit makes it longer and no better, whatever its bytes are.  *)
Receive(f, good) ==
  /\ task[f] = "stream"
  /\ IF good THEN part[f].size < SizeOf[f]
     ELSE \/ part[f].intact /\ part[f].size < SizeOf[f]
          \/ part[f].size = SizeOf[f]
  /\ part' = [part EXCEPT ![f] =
       [size |-> @.size + 1, intact |-> @.intact /\ good]]
  /\ UNCHANGED <<run, selected, task, dest, manifest>>

EndOfBody(f) ==
  /\ task[f] = "stream"
  /\ part[f].size >= SizeOf[f]
  /\ task' = [task EXCEPT ![f] = "check"]
  /\ UNCHANGED <<run, selected, dest, part, manifest>>

(* The body ends early, which only the length shows.                       *)
Truncated(f) ==
  /\ task[f] = "stream"
  /\ part[f].size < SizeOf[f]
  /\ task' = [task EXCEPT ![f] = "check"]
  /\ UNCHANGED <<run, selected, dest, part, manifest>>

(* Mutant: a mismatching .part is thrown away.                             *)
CheckDropsPart(f) ==
  /\ task[f] = "check"
  /\ part' = [part EXCEPT ![f] = None]
  /\ IF part[f] = Whole(f)
     THEN /\ dest' = [dest EXCEPT ![f] = part[f]]
          /\ task' = [task EXCEPT ![f] = "done"]
     ELSE /\ task' = [task EXCEPT ![f] = "failed"]
          /\ UNCHANGED dest
  /\ UNCHANGED <<run, selected, manifest>>

(* Length, then digest, then the .part takes the place of the file.  When  *)
(* either is wrong an error is raised and the .part stays.                 *)
Check(f) ==
  /\ task[f] = "check"
  /\ IF part[f] = Whole(f)
     THEN /\ dest' = [dest EXCEPT ![f] = part[f]]
          /\ part' = [part EXCEPT ![f] = None]
          /\ task' = [task EXCEPT ![f] = "done"]
     ELSE /\ task' = [task EXCEPT ![f] = "failed"]
          /\ UNCHANGED <<dest, part>>
  /\ UNCHANGED <<run, selected, manifest>>

(* The request fails, or the connection does while the body is read.       *)
ConnectionFails(f) ==
  /\ task[f] \in {"request", "stream"}
  /\ task' = [task EXCEPT ![f] = "lost"]
  /\ UNCHANGED <<run, selected, dest, part, manifest>>

(* An exception of one file is raised only when the pool has shut down,    *)
(* which lets every submitted file finish; then no manifest is written.    *)
PoolEnds ==
  /\ run = "pool"
  /\ \A f \in selected : task[f] \in {"done", "failed", "lost"}
  /\ run' = IF \A f \in selected : task[f] = "done" THEN "manifest" ELSE "idle"
  /\ UNCHANGED <<selected, task, dest, part, manifest>>

(* write_manifest verifies the whole inventory, selected or not.           *)
WriteManifest ==
  /\ run = "manifest"
  /\ run' = "idle"
  /\ manifest' = [complete |-> \A f \in Files : Verified(f),
                  verified |-> { f \in Files : Verified(f) }]
  /\ UNCHANGED <<selected, task, dest, part>>

Killed ==
  /\ run \in {"pool", "manifest"}
  /\ run' = "killed"
  /\ task' = [f \in Files |-> "none"]
  /\ UNCHANGED <<selected, dest, part, manifest>>

Faults(f) == Truncated(f) \/ ConnectionFails(f)
           \/ (BadBytes /\ Receive(f, FALSE))

Work(f) ==
  \/ Open(f) \/ AnswerRest(f) \/ AnswerWhole(f) \/ AnswerNothing(f)
  \/ Receive(f, TRUE) \/ EndOfBody(f) \/ Check(f)

Next ==
  \/ \E files \in {Files, Files \ Weights}, verifyOnly \in BOOLEAN :
       Begin(files, verifyOnly)
  \/ \E f \in Files : Work(f) \/ Faults(f)
  \/ PoolEnds \/ WriteManifest \/ Killed

Spec == Init /\ [][Next]_vars

(* The process runs, the server answers, the user starts it again.         *)
FairSpec ==
  /\ Spec
  /\ WF_vars(PoolEnds) /\ WF_vars(WriteManifest)
  /\ \A f \in Files : WF_vars(Work(f))
  /\ SF_vars(Begin(Files, FALSE))

-----------------------------------------------------------------------------
(* The converter trusts the manifest without reading the files again: what *)
(* it calls verified is on disk, whole, and "complete" is the whole        *)
(* inventory, whatever runs failed, were killed or skipped the weights.    *)
ManifestTruthful ==
  manifest # None =>
    /\ \A f \in manifest.verified : dest[f] = Whole(f)
    /\ manifest.complete <=> manifest.verified = Files

(* The downloader "resumes .part files": bytes that arrived are not asked  *)
(* for again, from run to run, unless the server sends the whole file or   *)
(* the .part has more bytes than the file.                                 *)
PartsOnlyGrow ==
  [][\A f \in Files : part[f] # None =>
       \/ dest'[f] = Whole(f) /\ part'[f] = None
       \/ part'[f] # None /\ part'[f].size >= part[f].size
       \/ AnswerWhole(f)
       \/ part[f].size > SizeOf[f]]_vars

FaultsEnd ==
  <>[][~Killed /\ \A f \in Files : ~Faults(f)]_vars

(* Running the downloader again is enough to get the snapshot, once        *)
(* connections stop failing.                                               *)
SnapshotArrives ==
  FaultsEnd => <>(manifest # None /\ manifest.complete)

(* A .part that the checksum refuses although its length is right.         *)
Stuck(f) == Offset(f) = SizeOf[f] /\ part[f] # Whole(f)

(* The same, unless in the end a .part with its length and wrong bytes is  *)
(* always there.  Later runs drop a .part that is too long, rename one     *)
(* that is whole and resume one that is too short; one that is short and   *)
(* damaged is resumed too and becomes such a .part, which only a server    *)
(* that answers with the whole file replaces.                              *)
SnapshotArrivesUnlessStuck ==
  FaultsEnd /\ []<>(\A f \in Files : ~Stuck(f))
    => <>(manifest # None /\ manifest.complete)
=============================================================================
