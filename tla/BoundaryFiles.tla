---------------------------- MODULE BoundaryFiles ----------------------------
(***************************************************************************)
(* The files of the staged engine: how cantor-abi.cpp lays the boundaries  *)
(* of Boundaries out in sections of a checkpoint, and what a stage asks of *)
(* a file before it takes a boundary from it.                              *)
(*                                                                         *)
(* A payload cell is what a codec writes as one item: a count, the eight   *)
(* codes of a frame, the values of a window, a vector, the metadata, the   *)
(* request text, or a whole file stored inside another one.                *)
(***************************************************************************)
EXTENDS Boundaries, RequestForm, Checkpoint

StageNumber == [CODES |-> 2, DIFFUSE |-> 3, DECODE |-> 4]

\* The stage that writes a kind of boundary, and the sections it writes.
WriterOf == [COD |-> "CODES", CON |-> "CODES", FLW |-> "DIFFUSE", LAT |-> "DIFFUSE"]

SectionsOf ==
  [COD |-> {"request_json", "ar_codes_i32", "metadata"},
   CON |-> {"request_json", "conditions_bf16", "metadata"},
   FLW |-> {"source_boundary", "completed_latents_f32", "euler_state_f32",
            "carry_f32", "metadata"},
   LAT |-> {"source_boundary", "completed_latents_f32", "metadata"}]

Section(kind, bytes) == [kind |-> kind, bytes |-> bytes]

-----------------------------------------------------------------------------
(***************************************************************************)
(* Writing.  A list is a count and its items.  Latents may hold a float    *)
(* that is not finite; the encoders do not look.                           *)
(***************************************************************************)
Counted(items) == <<[count |-> Len(items)]>> \o items

RequestSection(r) == Section("request_json", <<[document |-> Canonical(r)]>>)

CodesSection(codes) ==
  Section("ar_codes_i32", Counted([i \in 1 .. Len(codes) |-> [code |-> codes[i]]]))

ConditionsSection(conditions) ==
  Section("conditions_bf16",
          Counted([i \in 1 .. Len(conditions) |-> [condition |-> conditions[i]]]))

LatentsSection(completed, finite) ==
  Section("completed_latents_f32",
          Counted([i \in 1 .. Len(completed) |->
                     [latents |-> completed[i], finite |-> finite]]))

EulerSection(active, finite) ==
  Section("euler_state_f32", Counted(<<[euler |-> active, finite |-> finite]>>))

\* The carried condition and the carried latents, of the same window.
CarrySection(carry) ==
  Section("carry_f32", Counted(<<[carried |-> carry], [carried |-> carry]>>))

SourceSection(file) == Section("source_boundary", <<[inner |-> file]>>)

\* Mutant: the two halves of the cursor change places.
MetadataSectionSwapped(b) ==
  Section("metadata",
          <<[version |-> 1, first |-> b.second, second |-> b.first,
             digests |-> b.comps]>>)

MetadataSection(b) ==
  Section("metadata",
          <<[version |-> 1, first |-> b.first, second |-> b.second,
             digests |-> b.comps]>>)

(***************************************************************************)
(* The file of boundary b.  A DIFFUSE boundary holds the completed CODES   *)
(* file it was made from, byte for byte.                                   *)
(***************************************************************************)
SectionsWritten(b, source, finite) ==
  IF b.kind = "COD"
  THEN <<RequestSection(b.req), CodesSection(b.codes), MetadataSection(b)>>
  ELSE IF b.kind = "CON"
  THEN <<RequestSection(b.req), ConditionsSection(b.conditions),
         MetadataSection(b)>>
  ELSE IF b.kind = "FLW"
  THEN <<SourceSection(source), LatentsSection(b.completed, finite),
         EulerSection(b.active, finite), CarrySection(b.carry),
         MetadataSection(b)>>
  ELSE <<SourceSection(source), LatentsSection(b.completed, finite),
         MetadataSection(b)>>

FileOf(b, source, finite) ==
  Encode(b.kind, StageNumber[WriterOf[b.kind]], SectionsWritten(b, source, finite))

-----------------------------------------------------------------------------
(***************************************************************************)
(* Reading.  Every required section is there once, and nothing else.       *)
(***************************************************************************)
ExactSections(f, kinds) ==
  /\ f.count = Cardinality(kinds)
  /\ \A kind \in kinds :
       Cardinality({i \in Sections(f) : f.directory[i].kind = kind}) = 1

Held(f, kind) ==
  SectionBytes(f, CHOOSE i \in Sections(f) : f.directory[i].kind = kind)

OfForm(cell, fields) == DOMAIN cell = fields

SingleCell(cells, fields) == Len(cells) = 1 /\ OfForm(cells[1], fields)

\* A list that is as long as it says, of items of one form.
List(cells, fields) ==
  /\ Len(cells) > 0
  /\ OfForm(cells[1], {"count"})
  /\ cells[1].count = Len(cells) - 1
  /\ \A i \in 2 .. Len(cells) : OfForm(cells[i], fields)

Items(cells) == Tail(cells)

ReadableRequest(f) ==
  LET cells == Held(f, "request_json")
  IN  SingleCell(cells, {"document"}) /\ Accepts(cells[1].document)

RequestIn(f) == Read(Held(f, "request_json")[1].document)

ReadableMetadata(f) ==
  /\ SingleCell(Held(f, "metadata"), {"version", "first", "second", "digests"})
  /\ Held(f, "metadata")[1].version = 1

ReadableConditions(cells) ==
  List(cells, {"condition"}) /\ cells[1].count \in 1 .. 10000

\* take_f32 refuses what append_f32 wrote when it is not finite.
FiniteList(cells, fields, most) ==
  /\ List(cells, fields)
  /\ cells[1].count \in 0 .. most
  /\ \A i \in 2 .. Len(cells) : cells[i].finite

ReadableLatents(cells) == FiniteList(cells, {"latents", "finite"}, 10000)

ReadableEuler(cells) ==
  FiniteList(cells, {"euler", "finite"}, 8) /\ Len(Items(cells)) = 1

ReadableCarry(cells) ==
  List(cells, {"carried"}) /\ cells[1].count = 2

\* A file that decode accepts, of the right kind, stage and sections.
Opens(f, kind) ==
  /\ Decodes(f, kind)
  /\ f.stage = StageNumber[WriterOf[kind]]
  /\ ExactSections(f, SectionsOf[kind])

ReadablePausedCodes(f) ==
  /\ Opens(f, "COD")
  /\ ReadableRequest(f)
  /\ List(Held(f, "ar_codes_i32"), {"code"})
  /\ ReadableMetadata(f)

ReadableCompletedCodes(f) ==
  /\ Opens(f, "CON")
  /\ ReadableRequest(f)
  /\ ReadableConditions(Held(f, "conditions_bf16"))
  /\ ReadableMetadata(f)

SourceIn(f) == Held(f, "source_boundary")[1].inner

ReadableFlow(f, kind) ==
  /\ Opens(f, kind)
  /\ SingleCell(Held(f, "source_boundary"), {"inner"})
  /\ ReadableCompletedCodes(SourceIn(f))
  /\ ReadableLatents(Held(f, "completed_latents_f32"))
  /\ ReadableMetadata(f)

ReadablePausedFlow(f) ==
  /\ ReadableFlow(f, "FLW")
  /\ ReadableEuler(Held(f, "euler_state_f32"))
  /\ ReadableCarry(Held(f, "carry_f32"))

-----------------------------------------------------------------------------
(***************************************************************************)
(* The boundary a readable file holds.                                     *)
(***************************************************************************)
Metadata(f) == Held(f, "metadata")[1]

CodesIn(f) ==
  LET items == Items(Held(f, "ar_codes_i32"))
  IN  [i \in 1 .. Len(items) |-> items[i].code]

ConditionsIn(f) ==
  LET items == Items(Held(f, "conditions_bf16"))
  IN  [i \in 1 .. Len(items) |-> items[i].condition]

LatentsIn(f) ==
  LET items == Items(Held(f, "completed_latents_f32"))
  IN  [i \in 1 .. Len(items) |-> items[i].latents]

PausedCodesIn(f) ==
  [kind |-> "COD", comps |-> Metadata(f).digests, first |-> Metadata(f).first,
   second |-> Metadata(f).second, req |-> RequestIn(f), codes |-> CodesIn(f)]

CompletedCodesIn(f) ==
  [kind |-> "CON", comps |-> Metadata(f).digests, first |-> Metadata(f).first,
   second |-> Metadata(f).second, req |-> RequestIn(f),
   conditions |-> ConditionsIn(f)]

PausedFlowIn(f) ==
  [kind |-> "FLW", comps |-> Metadata(f).digests, first |-> Metadata(f).first,
   second |-> Metadata(f).second, source |-> CompletedCodesIn(SourceIn(f)),
   completed |-> LatentsIn(f),
   active |-> Items(Held(f, "euler_state_f32"))[1].euler,
   carry |-> Items(Held(f, "carry_f32"))[2].carried]

CompletedFlowIn(f) ==
  [kind |-> "LAT", comps |-> Metadata(f).digests, first |-> Metadata(f).first,
   second |-> Metadata(f).second, source |-> CompletedCodesIn(SourceIn(f)),
   completed |-> LatentsIn(f)]

BoundaryIn(f) ==
  IF f.magic = "COD" THEN PausedCodesIn(f)
  ELSE IF f.magic = "CON" THEN CompletedCodesIn(f)
  ELSE IF f.magic = "FLW" THEN PausedFlowIn(f)
  ELSE CompletedFlowIn(f)
=============================================================================
