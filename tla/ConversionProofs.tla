-------------------------- MODULE ConversionProofs --------------------------
(***************************************************************************)
(* Conversion and publication keep their types, and what is published is   *)
(* whole, for every matrix of artifacts and every list of sidecars.        *)
(*                                                                         *)
(* The publisher checks sidecars by name only, and its check is long past  *)
(* when it uploads.  So ConversionInv says where an interrupted conversion *)
(* may have left things (an artifact has the files of the steps taken for  *)
(* it, and none exists before every sidecar is whole), and that from the   *)
(* publisher's check to its upload the directory is whole, because no run  *)
(* of the converter touches a whole directory.                             *)
(***************************************************************************)
EXTENDS Conversion, TLAPS

Places == 1 .. Len(Artifacts) + Len(Sidecars) + 1

ConvState ==
  [pc : {"idle", "sidecars", "copying", "next", "converter",
         "record", "recording", "checksum", "summing"},
   todo : SUBSET Matrix,
   at : Places,
   ended : {"not yet", "exit", "failed", "killed"}]

\* Where the converter is: on a sidecar, before an artifact, or on one.
Copying == conv.pc \in {"sidecars", "copying"}
Working == conv.pc \in {"converter", "record", "recording", "checksum", "summing"}

Here == Artifacts[conv.at]

PlaceInv ==
  /\ conv \in ConvState
  /\ Copying => conv.at \in 1 .. Len(Sidecars)
  /\ conv.pc = "next" => conv.at \in 1 .. Len(Artifacts) + 1
  /\ Working => conv.at \in 1 .. Len(Artifacts)

(***************************************************************************)
(* The files of an artifact follow one another, and the artifact in hand   *)
(* has those of the steps taken.                                           *)
(***************************************************************************)
FilesInv ==
  /\ \A a \in Matrix : record[a] # "missing" => a \in gguf
  /\ \A a \in Matrix : checksum[a] # "missing" => record[a] = "whole"
  /\ conv.pc = "converter" => Here \notin gguf
  /\ conv.pc \in {"record", "recording", "checksum", "summing"} => Here \in gguf
  /\ conv.pc \in {"record", "recording", "checksum"} => checksum[Here] = "missing"
  /\ conv.pc \in {"checksum", "summing"} => record[Here] = "whole"

\* No artifact is begun before every sidecar is whole.
ExtrasWhole == \A s \in Extras : extra[s] = "whole"

SidecarsInv ==
  /\ Copying => \A i \in 1 .. conv.at - 1 : extra[Sidecars[i]] = "whole"
  /\ conv.pc = "next" \/ Working \/ gguf # {} => ExtrasWhole

AllWhole ==
  /\ gguf = Matrix
  /\ \A a \in Matrix : record[a] = "whole" /\ checksum[a] = "whole"
  /\ ExtrasWhole

HubInv == hub \in {"validated", "listed"} => AllWhole

ConversionInv ==
  TypeOK /\ PlaceInv /\ FilesInv /\ SidecarsInv /\ HubInv /\ PublishedIsWhole

-----------------------------------------------------------------------------
LEMMA LenFacts ==
  /\ Len(Artifacts) \in Nat /\ Len(Sidecars) \in Nat
  /\ Len(Artifacts) >= 1 /\ Len(Sidecars) >= 1
<1>1. Len(Artifacts) \in Nat /\ Len(Sidecars) \in Nat
  BY MatrixAssumption
<1> QED BY <1>1, MatrixAssumption

LEMMA MatrixFacts ==
  /\ \A i \in 1 .. Len(Artifacts) : Artifacts[i] \in Matrix
  /\ \A i \in 1 .. Len(Sidecars) : Sidecars[i] \in Extras
  /\ \A s \in Extras : \E i \in 1 .. Len(Sidecars) : s = Sidecars[i]
  BY DEF Matrix, Extras

LEMMA MatrixNotEmpty == Matrix # {}
<1>1. 1 \in 1 .. Len(Artifacts)
  BY LenFacts
<1> QED BY <1>1, MatrixFacts

\* Where the loops over sidecars and over artifacts may be.
LEMMA PlacesFacts ==
  /\ 1 \in Places /\ 1 \in 1 .. Len(Sidecars) /\ 1 \in 1 .. Len(Artifacts) + 1
  /\ \A i \in Places : i \in Nat
  /\ \A i \in 1 .. Len(Sidecars) :
       i # Len(Sidecars) =>
         i + 1 \in 1 .. Len(Sidecars) /\ i + 1 \in Places
  /\ \A i \in 1 .. Len(Artifacts) :
       i \in 1 .. Len(Artifacts) + 1 /\ i + 1 \in 1 .. Len(Artifacts) + 1 /\ i + 1 \in Places
  BY LenFacts DEF Places

LEMMA StoppedFacts ==
  ASSUME NEW how \in {"not yet", "exit", "failed", "killed"}
  PROVE  Stopped(how) \in ConvState /\ Stopped(how).pc = "idle"
  BY PlacesFacts DEF Stopped, ConvState

\* What is known of the converter's state and of the artifact in hand.
LEMMA PlaceFacts ==
  ASSUME PlaceInv
  PROVE  /\ conv.todo \subseteq Matrix /\ conv.at \in Nat
         /\ Working => Here \in Matrix
         /\ Copying => Sidecars[conv.at] \in Extras
<1>1. conv.todo \subseteq Matrix /\ conv.at \in Nat
  BY PlacesFacts DEF PlaceInv, ConvState
<1> QED BY <1>1, MatrixFacts DEF PlaceInv, Here

\* The types, but for those of the converter's place and of the files.
DirTyped ==
  /\ extra \in [Extras -> States]
  /\ temp \subseteq Matrix /\ gguf \subseteq Matrix
  /\ record \in [Matrix -> States] /\ checksum \in [Matrix -> States]

OutsideTyped ==
  /\ source \in {"missing", "incomplete", "complete"}
  /\ hub \in {"idle", "failed", "validated", "listed", "uploaded"}
  /\ remote = None \/ remote \in [gguf : SUBSET Matrix,
       record : [Matrix -> States], checksum : [Matrix -> States],
       extra : [Extras -> States]]

LEMMA PartsFromType ==
  ASSUME ConversionInv
  PROVE  DirTyped /\ OutsideTyped /\ PlaceInv /\ FilesInv /\ SidecarsInv
  BY DEF ConversionInv, TypeOK, DirTyped, OutsideTyped

-----------------------------------------------------------------------------
(***************************************************************************)
(* A step of the converter leaves a whole directory whole, and what is     *)
(* published alone.                                                        *)
(***************************************************************************)
LEMMA ConverterKeeps ==
  ASSUME ConversionInv, UNCHANGED <<source, hub, remote>>,
         DirTyped', PlaceInv', FilesInv', SidecarsInv', AllWhole => AllWhole'
  PROVE  ConversionInv'
<1>1. OutsideTyped'
  BY PartsFromType DEF OutsideTyped
<1>2. TypeOK'
  BY <1>1 DEF TypeOK, DirTyped, OutsideTyped, PlaceInv, ConvState, Places, FilesInv
<1>3. HubInv' /\ PublishedIsWhole'
  BY DEF ConversionInv, HubInv, PublishedIsWhole
<1> QED BY <1>2, <1>3 DEF ConversionInv

\* A run that ends leaves every file as it is.
LEMMA RunEnds ==
  ASSUME ConversionInv, UNCHANGED <<source, extra, gguf, record, checksum, hub, remote>>,
         temp' \subseteq temp,
         NEW how \in {"not yet", "exit", "failed", "killed"}, conv' = Stopped(how)
  PROVE  ConversionInv'
<1>1. conv' \in ConvState /\ conv'.pc = "idle"
  BY StoppedFacts
<1>2. DirTyped'
  BY PartsFromType DEF DirTyped
<1>3. PlaceInv' /\ FilesInv' /\ SidecarsInv'
  BY <1>1, PartsFromType
     DEF PlaceInv, Copying, Working, FilesInv, SidecarsInv, ExtrasWhole
<1>4. AllWhole => AllWhole'
  BY DEF AllWhole, ExtrasWhole
<1> QED BY <1>2, <1>3, <1>4, ConverterKeeps

LEMMA ConvertInv ==
  ASSUME ConversionInv, NEW plan \in Plans, Convert(plan)
  PROVE  ConversionInv'
<1>1. plan \subseteq Matrix
  BY DEF Plans
<1>2. /\ conv' = [pc |-> "sidecars", todo |-> plan, at |-> 1, ended |-> "not yet"]
      /\ UNCHANGED <<source, dirVars, hub, remote>>
  BY DEF Convert
<1>3. conv' \in ConvState /\ conv'.pc = "sidecars" /\ conv'.at = 1
  BY <1>1, <1>2, PlacesFacts DEF ConvState
<1>4. PlaceInv'
  BY <1>3, PlacesFacts DEF PlaceInv, Copying, Working
<1>5. FilesInv'
  BY <1>2, <1>3, PartsFromType DEF dirVars, FilesInv
<1>6. SidecarsInv'
  <2>1. \A i \in 1 .. conv'.at - 1 : FALSE
    BY <1>3
  <2> QED
    BY <1>2, <1>3, <2>1, PartsFromType
       DEF dirVars, SidecarsInv, ExtrasWhole, Working, Copying
<1>7. DirTyped' /\ (AllWhole => AllWhole')
  BY <1>2, PartsFromType DEF dirVars, DirTyped, AllWhole, ExtrasWhole
<1> QED BY <1>2, <1>4, <1>5, <1>6, <1>7, ConverterKeeps

LEMMA CheckSidecarInv ==
  ASSUME ConversionInv, CheckSidecar
  PROVE  ConversionInv'
<1> DEFINE s == Sidecars[conv.at]
<1>1. /\ DirTyped /\ PlaceInv /\ FilesInv /\ SidecarsInv /\ conv \in ConvState
      /\ conv.pc = "sidecars" /\ conv.at \in 1 .. Len(Sidecars) /\ s \in Extras
      /\ UNCHANGED <<source, temp, gguf, record, checksum, hub, remote>>
  BY PartsFromType, PlaceFacts DEF CheckSidecar, PlaceInv, Copying
<1>2. \A i \in 1 .. conv.at - 1 : extra[Sidecars[i]] = "whole"
  BY <1>1 DEF SidecarsInv, Copying
<1>3. CASE /\ extra[s] = "whole" /\ conv.at = Len(Sidecars)
           /\ conv' = [conv EXCEPT !.pc = "next", !.at = 1] /\ UNCHANGED extra
  <2>1. conv' \in ConvState /\ conv'.pc = "next" /\ conv'.at = 1
    BY <1>1, <1>3, PlacesFacts DEF ConvState
  <2>2. ExtrasWhole
    <3>1. \A i \in 1 .. Len(Sidecars) : extra[Sidecars[i]] = "whole"
      BY <1>1, <1>2, <1>3
    <3> QED BY <3>1, MatrixFacts DEF ExtrasWhole
  <2>3. PlaceInv' /\ FilesInv' /\ SidecarsInv'
    BY <1>1, <1>3, <2>1, <2>2, MatrixFacts
       DEF PlaceInv, FilesInv, SidecarsInv, Copying, Working, ExtrasWhole
  <2>4. DirTyped' /\ (AllWhole => AllWhole')
    BY <1>1, <1>3 DEF DirTyped, AllWhole, ExtrasWhole
  <2> QED BY <1>1, <2>3, <2>4, ConverterKeeps
<1>4. CASE /\ extra[s] = "whole" /\ conv.at # Len(Sidecars)
           /\ conv' = [conv EXCEPT !.at = conv.at + 1] /\ UNCHANGED extra
  <2>1. /\ conv' \in ConvState /\ conv'.pc = "sidecars" /\ conv'.at = conv.at + 1
        /\ conv'.at \in 1 .. Len(Sidecars)
    BY <1>1, <1>4, PlacesFacts DEF ConvState
  <2>2. \A i \in 1 .. conv'.at - 1 : extra[Sidecars[i]] = "whole"
    BY <1>1, <1>2, <1>4, <2>1
  <2>3. PlaceInv' /\ FilesInv' /\ SidecarsInv'
    BY <1>1, <1>4, <2>1, <2>2
       DEF PlaceInv, FilesInv, SidecarsInv, Copying, Working, ExtrasWhole
  <2>4. DirTyped' /\ (AllWhole => AllWhole')
    BY <1>1, <1>4 DEF DirTyped, AllWhole, ExtrasWhole
  <2> QED BY <1>1, <2>3, <2>4, ConverterKeeps
<1>5. CASE conv' = Stopped("exit") /\ UNCHANGED extra
  BY <1>1, <1>5, RunEnds
<1>6. CASE /\ extra[s] = "missing"
           /\ extra' = [extra EXCEPT ![s] = "partial"]
           /\ conv' = [conv EXCEPT !.pc = "copying"]
  <2>1. conv' \in ConvState /\ conv'.pc = "copying" /\ conv'.at = conv.at
    BY <1>1, <1>6 DEF ConvState
  <2>2. ~ExtrasWhole /\ gguf = {}
    BY <1>1, <1>6 DEF ExtrasWhole, SidecarsInv
  <2>3. \A i \in 1 .. conv'.at - 1 : extra'[Sidecars[i]] = "whole"
    BY <1>1, <1>2, <1>6, <2>1, MatrixFacts DEF DirTyped
  <2>4. PlaceInv' /\ FilesInv' /\ SidecarsInv'
    BY <1>1, <2>1, <2>2, <2>3
       DEF PlaceInv, FilesInv, SidecarsInv, Copying, Working
  <2>5. DirTyped' /\ (AllWhole => AllWhole')
    BY <1>1, <1>6, <2>2 DEF DirTyped, AllWhole, States
  <2> QED BY <1>1, <2>4, <2>5, ConverterKeeps
<1> QED BY <1>3, <1>4, <1>5, <1>6 DEF CheckSidecar

LEMMA CopySidecarInv ==
  ASSUME ConversionInv, CopySidecar
  PROVE  ConversionInv'
<1> DEFINE s == Sidecars[conv.at]
<1>1. /\ DirTyped /\ PlaceInv /\ FilesInv /\ SidecarsInv /\ conv \in ConvState
      /\ conv.pc = "copying" /\ conv.at \in 1 .. Len(Sidecars) /\ s \in Extras
      /\ UNCHANGED <<source, temp, gguf, record, checksum, hub, remote>>
      /\ extra' = [extra EXCEPT ![s] = "whole"]
      /\ conv' = [conv EXCEPT !.pc = "sidecars"]
  BY PartsFromType, PlaceFacts DEF CopySidecar, PlaceInv, Copying
<1>2. conv' \in ConvState /\ conv'.pc = "sidecars" /\ conv'.at = conv.at
  BY <1>1 DEF ConvState
<1>3. \A t \in Extras : extra[t] = "whole" => extra'[t] = "whole"
  BY <1>1 DEF DirTyped
<1>4. \A i \in 1 .. conv'.at - 1 : extra'[Sidecars[i]] = "whole"
  BY <1>1, <1>2, <1>3, MatrixFacts DEF SidecarsInv, Copying
<1>5. PlaceInv' /\ FilesInv' /\ SidecarsInv'
  BY <1>1, <1>2, <1>3, <1>4
     DEF PlaceInv, FilesInv, SidecarsInv, Copying, Working, ExtrasWhole
<1>6. DirTyped' /\ (AllWhole => AllWhole')
  BY <1>1, <1>3 DEF DirTyped, AllWhole, ExtrasWhole, States
<1> QED BY <1>1, <1>5, <1>6, ConverterKeeps

LEMMA NextArtifactInv ==
  ASSUME ConversionInv, NextArtifact
  PROVE  ConversionInv'
<1>1. /\ DirTyped /\ PlaceInv /\ FilesInv /\ SidecarsInv /\ conv \in ConvState
      /\ conv.pc = "next" /\ conv.at \in 1 .. Len(Artifacts) + 1
      /\ UNCHANGED <<source, extra, gguf, record, checksum, hub, remote>>
      /\ ExtrasWhole
  BY PartsFromType DEF NextArtifact, PlaceInv, SidecarsInv
<1>2. CASE conv' = Stopped("exit") /\ UNCHANGED temp
  BY <1>1, <1>2, RunEnds
<1>3. CASE /\ conv.at <= Len(Artifacts)
           /\ conv' = [conv EXCEPT !.at = conv.at + 1] /\ UNCHANGED temp
  <2>1. conv.at \in 1 .. Len(Artifacts)
    BY <1>1, <1>3, LenFacts
  <2>2. /\ conv' \in ConvState /\ conv'.pc = "next"
        /\ conv'.at \in 1 .. Len(Artifacts) + 1
    BY <1>1, <1>3, <2>1, PlacesFacts DEF ConvState
  <2>3. PlaceInv' /\ FilesInv' /\ SidecarsInv'
    BY <1>1, <2>2 DEF PlaceInv, FilesInv, SidecarsInv, Copying, Working, ExtrasWhole
  <2>4. DirTyped' /\ (AllWhole => AllWhole')
    BY <1>1, <1>3 DEF DirTyped, AllWhole, ExtrasWhole
  <2> QED BY <1>1, <2>3, <2>4, ConverterKeeps
<1>4. CASE /\ conv.at <= Len(Artifacts) /\ ~Exists(Here)
           /\ temp' = temp \cup {Here}
           /\ conv' = [conv EXCEPT !.pc = "converter"]
  <2>1. conv.at \in 1 .. Len(Artifacts)
    BY <1>1, <1>4, LenFacts
  <2>2. Here \in Matrix /\ Here \notin gguf /\ ~AllWhole
    BY <1>4, <2>1, MatrixFacts DEF Here, Exists, AllWhole
  <2>3. conv' \in ConvState /\ conv'.pc = "converter" /\ conv'.at = conv.at
    BY <1>1, <1>4 DEF ConvState
  <2>4. PlaceInv' /\ SidecarsInv'
    BY <1>1, <2>1, <2>3 DEF PlaceInv, SidecarsInv, Copying, Working, ExtrasWhole
  <2>5. FilesInv'
    BY <1>1, <2>2, <2>3 DEF FilesInv, Here
  <2>6. DirTyped'
    BY <1>1, <1>4, <2>2 DEF DirTyped
  <2> QED BY <1>1, <2>2, <2>4, <2>5, <2>6, ConverterKeeps
<1> QED BY <1>2, <1>3, <1>4 DEF NextArtifact, Here

\* The artifact in hand, when a step of its conversion is taken.
LEMMA InHand ==
  ASSUME ConversionInv, Working
  PROVE  /\ DirTyped /\ PlaceInv /\ FilesInv /\ SidecarsInv /\ conv \in ConvState
         /\ conv.at \in 1 .. Len(Artifacts) /\ Here \in Matrix /\ ExtrasWhole
  BY PartsFromType, PlaceFacts DEF PlaceInv, SidecarsInv

LEMMA ConverterReturnsInv ==
  ASSUME ConversionInv, ConverterReturns
  PROVE  ConversionInv'
<1>1. /\ conv.pc = "converter" /\ Working
      /\ gguf' = gguf \cup {Here} /\ temp' = temp \ {Here}
      /\ conv' = [conv EXCEPT !.pc = "record"]
      /\ UNCHANGED <<source, extra, record, checksum, hub, remote>>
  BY DEF ConverterReturns, Here, Working
<1>2. /\ DirTyped /\ PlaceInv /\ FilesInv /\ conv \in ConvState
      /\ conv.at \in 1 .. Len(Artifacts) /\ Here \in Matrix /\ ExtrasWhole
  BY <1>1, InHand
<1>3. /\ conv' \in ConvState /\ conv'.pc = "record" /\ conv'.at = conv.at /\ Here' = Here
  BY <1>1, <1>2 DEF ConvState, Here
<1>4. Here \notin gguf /\ record[Here] = "missing" /\ checksum[Here] = "missing" /\ ~AllWhole
  BY <1>1, <1>2 DEF FilesInv, AllWhole
<1>5. FilesInv'
  BY <1>1, <1>2, <1>3, <1>4 DEF FilesInv
<1>6. PlaceInv' /\ SidecarsInv' /\ DirTyped'
  BY <1>1, <1>2, <1>3
     DEF PlaceInv, SidecarsInv, Copying, Working, ExtrasWhole, DirTyped
<1> QED BY <1>1, <1>4, <1>5, <1>6, ConverterKeeps

LEMMA WriteRecordInv ==
  ASSUME ConversionInv, WriteRecord
  PROVE  ConversionInv'
<1>1. /\ conv.pc \in {"record", "recording"} /\ Working
      /\ UNCHANGED <<source, extra, temp, gguf, checksum, hub, remote>>
  BY DEF WriteRecord, Working
<1>2. /\ DirTyped /\ PlaceInv /\ FilesInv /\ conv \in ConvState
      /\ conv.at \in 1 .. Len(Artifacts) /\ Here \in Matrix /\ ExtrasWhole
      /\ Here \in gguf /\ checksum[Here] = "missing" /\ ~AllWhole
  BY <1>1, InHand DEF FilesInv, AllWhole
<1>3. PICK v \in {"partial", "whole"}, t \in {"recording", "checksum"} :
        /\ record' = [record EXCEPT ![Here] = v] /\ conv' = [conv EXCEPT !.pc = t]
        /\ t = "checksum" => v = "whole"
  BY DEF WriteRecord, Here
<1>4. conv' \in ConvState /\ conv'.pc = t /\ conv'.at = conv.at /\ Here' = Here
  BY <1>2, <1>3 DEF ConvState, Here
<1>5. /\ record'[Here] = v /\ record' \in [Matrix -> States]
      /\ \A a \in Matrix : a # Here => record'[a] = record[a]
  BY <1>2, <1>3 DEF DirTyped, States
<1>6. FilesInv'
  BY <1>1, <1>2, <1>3, <1>4, <1>5 DEF FilesInv
<1>7. PlaceInv' /\ SidecarsInv' /\ DirTyped'
  BY <1>1, <1>2, <1>3, <1>4, <1>5
     DEF PlaceInv, SidecarsInv, Copying, Working, ExtrasWhole, DirTyped
<1> QED BY <1>1, <1>2, <1>6, <1>7, ConverterKeeps

LEMMA WriteChecksumInv ==
  ASSUME ConversionInv, WriteChecksum
  PROVE  ConversionInv'
<1>1. /\ conv.pc \in {"checksum", "summing"} /\ Working
      /\ UNCHANGED <<source, extra, temp, gguf, record, hub, remote>>
  BY DEF WriteChecksum, Working
<1>2. /\ DirTyped /\ PlaceInv /\ FilesInv /\ conv \in ConvState
      /\ conv.at \in 1 .. Len(Artifacts) /\ Here \in Matrix /\ ExtrasWhole
      /\ Here \in gguf /\ record[Here] = "whole"
  BY <1>1, InHand DEF FilesInv
<1>3. PICK v \in {"partial", "whole"} :
        /\ checksum' = [checksum EXCEPT ![Here] = v]
        /\ \/ /\ conv.pc = "checksum" /\ v = "partial"
              /\ conv' = [conv EXCEPT !.pc = "summing"]
           \/ /\ conv.pc = "summing" /\ v = "whole"
              /\ conv' = [conv EXCEPT !.pc = "next", !.at = conv.at + 1]
  BY DEF WriteChecksum, Here
<1>4. /\ checksum'[Here] = v /\ checksum' \in [Matrix -> States]
      /\ \A a \in Matrix : a # Here => checksum'[a] = checksum[a]
  BY <1>2, <1>3 DEF DirTyped, States
<1>5. /\ conv' \in ConvState
      /\ \/ conv'.pc = "summing" /\ conv'.at = conv.at /\ Here' = Here
         \/ conv'.pc = "next" /\ conv'.at \in 1 .. Len(Artifacts) + 1
  BY <1>2, <1>3, PlacesFacts DEF ConvState, Here
<1>6. FilesInv'
  BY <1>1, <1>2, <1>4, <1>5 DEF FilesInv
<1>7. PlaceInv' /\ SidecarsInv' /\ DirTyped'
  BY <1>1, <1>2, <1>4, <1>5
     DEF PlaceInv, SidecarsInv, Copying, Working, ExtrasWhole, DirTyped
<1>8. AllWhole => AllWhole'
  BY <1>1, <1>2, <1>3, <1>4 DEF AllWhole, ExtrasWhole, FilesInv
<1> QED BY <1>1, <1>6, <1>7, <1>8, ConverterKeeps

LEMMA ConverterStops ==
  ASSUME ConversionInv, ConverterFails \/ ConvertKilled
  PROVE  ConversionInv'
<1>1. CASE ConverterFails
  BY <1>1, RunEnds DEF ConverterFails
<1>2. CASE ConvertKilled
  BY <1>2, RunEnds DEF ConvertKilled, dirVars
<1> QED BY <1>1, <1>2

-----------------------------------------------------------------------------
(***************************************************************************)
(* The downloader and the publisher leave the directory and the converter  *)
(* alone.                                                                  *)
(***************************************************************************)
LEMMA OthersKeep ==
  ASSUME ConversionInv, UNCHANGED <<dirVars, conv>>, OutsideTyped', HubInv',
         PublishedIsWhole'
  PROVE  ConversionInv'
<1>1. DirTyped' /\ PlaceInv' /\ FilesInv' /\ SidecarsInv'
  BY PartsFromType
     DEF dirVars, DirTyped, PlaceInv, FilesInv, SidecarsInv, Copying, Working,
         Here, ExtrasWhole
<1>2. TypeOK'
  BY <1>1 DEF TypeOK, DirTyped, OutsideTyped, PlaceInv, ConvState, Places, FilesInv
<1> QED BY <1>1, <1>2 DEF ConversionInv

\* A complete directory is whole: the sidecars the check finds are whole,
\* for an artifact exists.
LEMMA CompleteIsWhole ==
  ASSUME ConversionInv, Complete
  PROVE  AllWhole
<1>1. ExtrasWhole
  BY PartsFromType, MatrixNotEmpty DEF Complete, SidecarsInv
<1> QED BY <1>1 DEF Complete, AllWhole

LEMMA OthersInv ==
  ASSUME ConversionInv, SourceArrives \/ Publishing \/ HubGated \/ HubFails
  PROVE  ConversionInv'
<1>1. OutsideTyped /\ DirTyped /\ PublishedIsWhole /\ HubInv
  BY PartsFromType DEF ConversionInv
<1>2. UNCHANGED <<dirVars, conv>> /\ (AllWhole => AllWhole')
  <2>1. UNCHANGED <<dirVars, conv>>
    BY DEF SourceArrives, Publishing, HubValidate, HubList, HubUpload, HubVerify,
           HubGated, HubFails
  <2> QED BY <2>1 DEF AllWhole, ExtrasWhole, dirVars
<1>3. OutsideTyped' /\ HubInv' /\ PublishedIsWhole'
  <2>1. CASE SourceArrives
    BY <1>1, <1>2, <2>1 DEF SourceArrives, OutsideTyped, HubInv, PublishedIsWhole
  <2>2. CASE HubValidate
    BY <1>1, <1>2, <2>2, CompleteIsWhole
       DEF HubValidate, OutsideTyped, HubInv, PublishedIsWhole
  <2>3. CASE HubList
    BY <1>1, <1>2, <2>3 DEF HubList, OutsideTyped, HubInv, PublishedIsWhole
  <2>4. CASE HubUpload
    <3>1. AllWhole /\ hub' = "uploaded" /\ UNCHANGED source /\ remote' = Staged
      BY <1>1, <2>4 DEF HubUpload, HubInv
    <3>2. remote' = [gguf |-> gguf, record |-> record, checksum |-> checksum,
                     extra |-> extra]
      BY <3>1 DEF Staged
    <3>3. PublishedIsWhole'
      BY <3>1, <3>2 DEF AllWhole, ExtrasWhole, PublishedIsWhole
    <3> QED BY <1>1, <3>1, <3>2, <3>3 DEF OutsideTyped, DirTyped, HubInv
  <2>5. CASE HubVerify
    BY <1>1, <1>2, <2>5 DEF HubVerify, OutsideTyped, HubInv, PublishedIsWhole
  <2>6. CASE HubGated \/ HubFails
    BY <1>1, <1>2, <2>6
       DEF HubGated, HubFails, OutsideTyped, HubInv, PublishedIsWhole
  <2> QED BY <2>1, <2>2, <2>3, <2>4, <2>5, <2>6 DEF Publishing
<1> QED BY <1>2, <1>3, OthersKeep

-----------------------------------------------------------------------------
LEMMA ConversionInvInit == Init => ConversionInv
<1> SUFFICES ASSUME Init PROVE ConversionInv
  OBVIOUS
<1>1. conv \in ConvState /\ conv.pc = "idle"
  BY StoppedFacts DEF Init
<1>2. DirTyped /\ OutsideTyped
  BY DEF Init, DirTyped, OutsideTyped, States
<1>3. PlaceInv /\ FilesInv /\ SidecarsInv
  BY <1>1 DEF Init, PlaceInv, FilesInv, SidecarsInv, Copying, Working
<1>4. TypeOK
  BY <1>1, <1>2, <1>3
     DEF TypeOK, DirTyped, OutsideTyped, PlaceInv, ConvState, Places, FilesInv
<1> QED BY <1>3, <1>4 DEF Init, ConversionInv, HubInv, PublishedIsWhole

LEMMA ConversionInvNext == ConversionInv /\ [Next]_vars => ConversionInv'
<1> SUFFICES ASSUME ConversionInv, [Next]_vars PROVE ConversionInv'
  OBVIOUS
<1>1. CASE SourceArrives \/ Publishing \/ HubGated \/ HubFails
  BY <1>1, OthersInv
<1>2. ASSUME NEW plan \in Plans, Convert(plan) PROVE ConversionInv'
  BY <1>2, ConvertInv
<1>3. CASE Converting
  BY <1>3, CheckSidecarInv, CopySidecarInv, NextArtifactInv, ConverterReturnsInv,
     WriteRecordInv, WriteChecksumInv DEF Converting
<1>4. CASE ConverterFails \/ ConvertKilled
  BY <1>4, ConverterStops
<1>5. CASE UNCHANGED vars
  <2>1. UNCHANGED <<dirVars, conv, source, hub, remote>>
    BY <1>5 DEF vars
  <2>2. OutsideTyped' /\ HubInv' /\ PublishedIsWhole'
    BY <2>1, PartsFromType
       DEF OutsideTyped, ConversionInv, HubInv, PublishedIsWhole, AllWhole,
           ExtrasWhole, dirVars
  <2> QED BY <2>1, <2>2, OthersKeep
<1> QED BY <1>1, <1>2, <1>3, <1>4, <1>5 DEF Next

LEMMA ConversionHolds == Spec => []ConversionInv
  BY ConversionInvInit, ConversionInvNext, PTL DEF Spec

(***************************************************************************)
(* The types hold, and with them that a record or a checksum is only ever  *)
(* written for a finished artifact.                                        *)
(***************************************************************************)
THEOREM ConversionTyping == Spec => []TypeOK
<1>1. ConversionInv => TypeOK
  BY DEF ConversionInv
<1> QED BY <1>1, ConversionHolds, PTL

(***************************************************************************)
(* What publish_hf.py publishes is the whole matrix with records and       *)
(* checksums of its bytes and whole sidecars, wherever conversions are     *)
(* killed and however often both programs are run.                         *)
(***************************************************************************)
THEOREM PublishedWhole == Spec => []PublishedIsWhole
<1>1. ConversionInv => PublishedIsWhole
  BY DEF ConversionInv
<1> QED BY <1>1, ConversionHolds, PTL
=============================================================================
