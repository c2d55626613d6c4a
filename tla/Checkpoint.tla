----------------------------- MODULE Checkpoint -----------------------------
(***************************************************************************)
(* The envelope of a durable boundary: minimax-checkpoint.cpp.             *)
(*                                                                         *)
(* A blob is a fixed header, a directory of sections and a payload, a      *)
(* sequence of cells that stand for its bytes.  Its digest covers all of   *)
(* it with the digest field itself zeroed; SHA-256 is taken to tell any    *)
(* two contents apart, so the digest of a blob is that content.            *)
(***************************************************************************)
EXTENDS Integers, FiniteSets, FiniteSetsExt, SequencesExt

CONSTANT MaxBlob   \* largest blob written or read (2 GiB)

\* A digest field of zeros, which is the digest of no content.
Zeroed == <<>>

FixedHeader == 72
EntryBytes == 24
FormatVersion == 1

\* The kind numbered zero is no section.
NoKind == "none"
SectionKinds ==
  {"request_json", "ar_codes_i32", "conditions_bf16", "completed_latents_f32",
   "euler_state_f32", "metadata", "source_boundary", "carry_f32"}

Entry == [kind : SectionKinds \cup {NoKind}, offset : Nat, size : Nat]

\* The fields decode computes with are unsigned integers, right or wrong.
Parsed(b) == b.count \in Nat /\ b.directory \in Seq(Entry)

HeaderOf(count) == FixedHeader + EntryBytes * count

\* Bytes of the file that holds the blob, whatever its header says.
FileBytes(b) == HeaderOf(Len(b.directory)) + Len(b.payload)

\* Mutant: the digest is taken before the payload is in place.
DigestOfDirectory(b) == [b EXCEPT !.digest = Zeroed, !.payload = <<>>]

Digest(b) == [b EXCEPT !.digest = Zeroed]

Sealed(b) == [b EXCEPT !.digest = Digest(b)]

-----------------------------------------------------------------------------
(***************************************************************************)
(* encode: sections follow the directory, and each other, without gaps.    *)
(* It refuses stage zero, kind zero and more than MaxBlob bytes; the       *)
(* engine names its stages and kinds, and its longest file is far smaller. *)
(***************************************************************************)
BytesOf(sections) == [i \in 1 .. Len(sections) |-> sections[i].bytes]

Start(sections, i) ==
  HeaderOf(Len(sections)) + Len(FlattenSeq(SubSeq(BytesOf(sections), 1, i - 1)))

Total(sections) == Start(sections, Len(sections) + 1)

Encode(magic, stage, sections) ==
  Sealed([magic |-> magic, version |-> FormatVersion, stage |-> stage,
          count |-> Len(sections), header |-> HeaderOf(Len(sections)),
          total |-> Total(sections), digest |-> Zeroed,
          directory |-> [i \in 1 .. Len(sections) |->
                           [kind |-> sections[i].kind,
                            offset |-> Start(sections, i),
                            size |-> Len(sections[i].bytes)]],
          payload |-> FlattenSeq(BytesOf(sections))])

-----------------------------------------------------------------------------
(***************************************************************************)
(* decode.  The ranges are sorted by where they begin and only neighbours  *)
(* are compared; ranges that begin together keep their order.  (For a file *)
(* of no sections the loop of the code does not end; no file here is one.) *)
(***************************************************************************)
Begin(b, i) == b.directory[i].offset
End(b, i) == b.directory[i].offset + b.directory[i].size

InsideFile(b, i) ==
  /\ b.directory[i].kind # NoKind
  /\ Begin(b, i) >= b.header
  /\ End(b, i) <= b.total

Before(b, i, j) ==
  Begin(b, i) < Begin(b, j) \/ (Begin(b, i) = Begin(b, j) /\ i < j)

Sections(b) == 1 .. b.count

Neighbours(b, i, j) ==
  /\ Before(b, i, j)
  /\ ~ \E k \in Sections(b) : Before(b, i, k) /\ Before(b, k, j)

\* Mutant: neighbours are compared by where they begin.
NoOverlapByBegin(b) ==
  \A i, j \in Sections(b) : Neighbours(b, i, j) => Begin(b, i) <= Begin(b, j)

NoOverlap(b) ==
  \A i, j \in Sections(b) : Neighbours(b, i, j) => End(b, i) <= Begin(b, j)

Decodes(b, magic) ==
  /\ FileBytes(b) <= MaxBlob
  /\ b.magic = magic
  /\ b.version = FormatVersion
  /\ b.stage # 0
  /\ b.header = HeaderOf(b.count)
  /\ b.total = FileBytes(b)
  /\ b.digest = Digest(b)
  /\ b.count <= Len(b.directory)
  /\ \A i \in Sections(b) : InsideFile(b, i)
  /\ NoOverlap(b)

\* The sections lie in the payload, and no two share a byte.
DisjointSections(b) ==
  \A i, j \in Sections(b) :
    /\ Begin(b, i) >= b.header
    /\ End(b, i) <= FileBytes(b)
    /\ i # j => (Begin(b, i) .. End(b, i) - 1) \cap (Begin(b, j) .. End(b, j) - 1) = {}

SectionBytes(b, i) ==
  SubSeq(b.payload, Begin(b, i) - b.header + 1, End(b, i) - b.header)
=============================================================================
