------------------------ MODULE RequestTravelsProofs ------------------------
(***************************************************************************)
(* Proofs about RequestTravels: the directory decode accepts, the          *)
(* canonical request, the blocking path, and the files of the staged path, *)
(* from the layout of encode to the request that survives every one.       *)
(***************************************************************************)
EXTENDS RequestTravels, BoundariesProofs, FiniteSetTheorems

-----------------------------------------------------------------------------
(***************************************************************************)
(* The directory.  decode compares neighbours of the sorted ranges only.   *)
(***************************************************************************)
\* The numbers of a section are numbers, and it does not end before it begins.
LEMMA EntryTyped ==
  ASSUME NEW b, Parsed(b), b.count <= Len(b.directory), NEW i \in Sections(b)
  PROVE  /\ i \in Nat
         /\ Begin(b, i) \in Nat
         /\ End(b, i) \in Nat
         /\ Begin(b, i) <= End(b, i)
<1>1. i \in 1 .. Len(b.directory)
  BY DEF Parsed, Sections
<1>2. b.directory[i] \in Entry
  BY <1>1 DEF Parsed
<1> QED BY <1>1, <1>2 DEF Entry, Begin, End

(***************************************************************************)
(* What holds of neighbours holds of every pair: of the ranges after the   *)
(* i-th that begin before it ends, the first would be its neighbour.       *)
(***************************************************************************)
LEMMA NoOverlapBehind ==
  ASSUME NEW b, Parsed(b), b.count <= Len(b.directory), NoOverlap(b),
         NEW i \in Sections(b), NEW j \in Sections(b), Before(b, i, j)
  PROVE  End(b, i) <= Begin(b, j)
<1> DEFINE late == {k \in Sections(b) : Before(b, i, k) /\ End(b, i) > Begin(b, k)}
           starts == {Begin(b, k) : k \in late}
<1>1. SUFFICES ASSUME j \in late PROVE FALSE
  BY EntryTyped
<1>2. PICK m \in starts : \A n \in starts : m <= n
  <2>1. starts \in SUBSET Nat /\ starts # {}
    BY <1>1, EntryTyped
  <2> QED BY <2>1, LeastNumber
<1> DEFINE first == {k \in late : Begin(b, k) = m}
<1>3. PICK f \in first : \A k \in first : f <= k
  <2>1. first \in SUBSET Nat /\ first # {}
    BY <1>2, EntryTyped
  <2> QED BY <2>1, LeastNumber
<1>4. f \in Sections(b) /\ Before(b, i, f) /\ End(b, i) > Begin(b, f)
  BY <1>3
<1>5. PICK k \in Sections(b) : Before(b, i, k) /\ Before(b, k, f)
  BY <1>4, EntryTyped DEF NoOverlap, Neighbours
<1>6. Begin(b, k) <= Begin(b, f)
  BY <1>5, <1>4, EntryTyped DEF Before
<1>7. k \in late
  BY <1>4, <1>5, <1>6, EntryTyped
<1>8. m <= Begin(b, k)
  BY <1>2, <1>7
<1>9. Begin(b, k) = m /\ k < f
  BY <1>3, <1>5, <1>6, <1>8, <1>4, EntryTyped DEF Before
<1>10. f <= k
  BY <1>3, <1>7, <1>9
<1> QED BY <1>9, <1>10, <1>4, EntryTyped

(***************************************************************************)
(* Whatever directory a blob has, if decode accepts it then its sections   *)
(* lie in the payload and no two share a byte.                             *)
(***************************************************************************)
THEOREM DecodedDisjoint ==
  ASSUME NEW b, NEW magic, Parsed(b), Decodes(b, magic)
  PROVE  DisjointSections(b)
<1>1. /\ b.count <= Len(b.directory)
      /\ NoOverlap(b)
      /\ b.total = FileBytes(b)
      /\ \A i \in Sections(b) : InsideFile(b, i)
  BY DEF Decodes
<1>2. ASSUME NEW i \in Sections(b)
      PROVE  Begin(b, i) >= b.header /\ End(b, i) <= FileBytes(b)
  BY <1>1 DEF InsideFile
<1>3. ASSUME NEW i \in Sections(b), NEW j \in Sections(b), i # j,
             NEW x \in Begin(b, i) .. End(b, i) - 1,
             x \in Begin(b, j) .. End(b, j) - 1
      PROVE  FALSE
  <2>1. CASE Before(b, i, j)
    <3>1. End(b, i) <= Begin(b, j)
      BY <1>1, <2>1, NoOverlapBehind
    <3> QED BY <1>1, <1>3, <3>1, EntryTyped
  <2>2. CASE Before(b, j, i)
    <3>1. End(b, j) <= Begin(b, i)
      BY <1>1, <2>2, NoOverlapBehind
    <3> QED BY <1>1, <1>3, <3>1, EntryTyped
  <2>3. Before(b, i, j) \/ Before(b, j, i)
    BY <1>1, <1>3, EntryTyped DEF Before
  <2> QED BY <2>1, <2>2, <2>3
<1> QED BY <1>2, <1>3 DEF DisjointSections

-----------------------------------------------------------------------------
(***************************************************************************)
(* The canonical request.                                                  *)
(***************************************************************************)
RequestFields ==
  [lyrics : Texts, description : Texts, duration : Int,
   seed : 0 .. SeedLimit - 1, ar_cfg_scale : Int, top_k : Int,
   flow_seed : 0 .. SeedLimit - 1, flow_seed_present : BOOLEAN,
   euler_steps : Int, flow_cfg_scale : Int, output_sample_rate : Int]

\* A flow seed that was not given is zero.
Regular(r) == r \in RequestFields /\ (r.flow_seed_present \/ r.flow_seed = 0)

\* The members of a canonical document.
RootOf(root, r) ==
  /\ DOMAIN root = {"lyrics", "description", "duration_seconds", "seed",
                    "cfg_scale", "sampling", "flow", "output_sample_rate"}
  /\ root["lyrics"] = Text(r.lyrics)
  /\ root["description"] = Text(r.description)
  /\ root["duration_seconds"] = Number(r.duration, FALSE)
  /\ root["seed"] = Number(r.seed, TRUE)
  /\ root["cfg_scale"] = Number(r.ar_cfg_scale, FALSE)
  /\ root["sampling"] = Object([top_k |-> Number(r.top_k, TRUE)])
  /\ root["flow"] = Object(FlowMembers(r))
  /\ root["output_sample_rate"] = Number(r.output_sample_rate, TRUE)

\* serialize writes these eight members, and no key twice.
LEMMA RootShape ==
  ASSUME NEW r
  PROVE  Canonical(r).repeated = FALSE /\ RootOf(Canonical(r).root, r)
  BY DEF Canonical, RootOf

\* The flow object always holds the steps and the scale.
LEMMA FlowFields ==
  ASSUME NEW r
  PROVE  /\ "euler_steps" \in DOMAIN FlowMembers(r)
         /\ "cfg_scale" \in DOMAIN FlowMembers(r)
         /\ FlowMembers(r)["euler_steps"] = Number(r.euler_steps, TRUE)
         /\ FlowMembers(r)["cfg_scale"] = Number(r.flow_cfg_scale, FALSE)
  BY DEF FlowMembers

\* With a flow seed it holds three members,
LEMMA FlowSeeded ==
  ASSUME NEW r, r.flow_seed_present
  PROVE  /\ DOMAIN FlowMembers(r) = {"seed", "euler_steps", "cfg_scale"}
         /\ FlowMembers(r)["seed"] = Number(r.flow_seed, TRUE)
  BY DEF FlowMembers

\* without one, two.
LEMMA FlowUnseeded ==
  ASSUME NEW r, ~r.flow_seed_present
  PROVE  DOMAIN FlowMembers(r) = {"euler_steps", "cfg_scale"}
  BY DEF FlowMembers

\* So the seed is written if the request has one,
LEMMA FlowHasSeed ==
  ASSUME NEW r, r.flow_seed_present
  PROVE  "seed" \in DOMAIN FlowMembers(r)
  BY DEF FlowMembers

\* and only then.
LEMMA FlowHasNoSeed ==
  ASSUME NEW r, ~r.flow_seed_present
  PROVE  "seed" \notin DOMAIN FlowMembers(r)
  BY DEF FlowMembers

\* What is written there are the request's numbers.
LEMMA FlowNumbers ==
  ASSUME NEW r
  PROVE  /\ FlowMembers(r)["euler_steps"].number = r.euler_steps
         /\ FlowMembers(r)["cfg_scale"].number = r.flow_cfg_scale
         /\ FlowMembers(r)["cfg_scale"].type = "number"
<1>1. /\ Number(r.euler_steps, TRUE).number = r.euler_steps
      /\ Number(r.flow_cfg_scale, FALSE).number = r.flow_cfg_scale
      /\ Number(r.flow_cfg_scale, FALSE).type = "number"
  BY DEF Number
<1> QED BY <1>1, FlowFields

\* The flow seed, when it is written, is the request's.
LEMMA FlowSeedNumber ==
  ASSUME NEW r, r.flow_seed_present
  PROVE  FlowMembers(r)["seed"].number = r.flow_seed
<1>1. Number(r.flow_seed, TRUE).number = r.flow_seed
  BY DEF Number
<1> QED BY <1>1, FlowSeeded

\* A number of at most 64 bits, spelled with digits, is exact.
LEMMA ExactNumber ==
  ASSUME NEW n \in 0 .. SeedLimit - 1
  PROVE  Exact(Number(n, TRUE))
  BY DEF Exact, Number

\* A valid request has exact numbers wherever parse asks for them.
LEMMA ExactFields ==
  ASSUME NEW r, Regular(r), Valid(r)
  PROVE  /\ Exact(Number(r.seed, TRUE))
         /\ Exact(Number(r.top_k, TRUE))
         /\ Exact(Number(r.euler_steps, TRUE))
         /\ Exact(Number(r.flow_seed, TRUE))
         /\ Exact(Number(r.output_sample_rate, TRUE))
<1>1. r.seed \in 0 .. SeedLimit - 1 /\ r.flow_seed \in 0 .. SeedLimit - 1
  BY DEF Regular, RequestFields
<1>2. /\ r.top_k \in Int /\ 1 <= r.top_k /\ r.top_k <= 16384
      /\ r.euler_steps \in Int /\ 1 <= r.euler_steps /\ r.euler_steps <= 1000
      /\ r.output_sample_rate \in {44100, 32000}
  BY DEF Valid, Within, Regular, RequestFields
<1>3. /\ r.top_k \in 0 .. SeedLimit - 1
      /\ r.euler_steps \in 0 .. SeedLimit - 1
      /\ r.output_sample_rate \in 0 .. SeedLimit - 1
  BY <1>2, LimitAssumption
<1> QED BY <1>1, <1>3, ExactNumber

(***************************************************************************)
(* What serialize writes of a valid request, parse takes and reads as the  *)
(* same request.                                                           *)
(***************************************************************************)
LEMMA CanonicalWellFormed ==
  ASSUME NEW r, Regular(r), Valid(r)
  PROVE  WellFormed(Canonical(r))
<1> SUFFICES ASSUME NEW root, RootOf(root, r), root = Canonical(r).root,
                    Canonical(r).repeated = FALSE
             PROVE  WellFormed(Canonical(r))
  BY RootShape
<1> USE DEF RootOf
<1>1. DOMAIN root \subseteq RootKeys
  BY DEF RootKeys, TextKeys, DurationKeys, ScaleKeys, IntegerKeys, ScopeKeys
<1>2. TextKey(root) = "description"
  BY DEF TextKey
<1>3. root["lyrics"].type = "string" /\ root["description"].type = "string"
  BY DEF Text
<1>4. ~ (TextKeys \subseteq DOMAIN root) /\ ~ (DurationKeys \subseteq DOMAIN root)
  BY DEF TextKeys, DurationKeys
<1>5. \A key \in DOMAIN root \cap (DurationKeys \cup ScaleKeys) :
        root[key].type = "number"
  BY DEF DurationKeys, ScaleKeys, Number
<1>6. /\ Exact(Number(r.seed, TRUE))
      /\ Exact(Number(r.top_k, TRUE))
      /\ Exact(Number(r.euler_steps, TRUE))
      /\ Exact(Number(r.flow_seed, TRUE))
      /\ Exact(Number(r.output_sample_rate, TRUE))
  BY ExactFields
<1>7. \A key \in DOMAIN root \cap IntegerKeys : Exact(root[key])
  BY <1>6 DEF IntegerKeys
<1>8. WellFormedScope("sampling", root["sampling"])
  <2> DEFINE members == [top_k |-> Number(r.top_k, TRUE)]
  <2>1. root["sampling"].type = "object" /\ root["sampling"].members = members
    BY DEF Object
  <2>2. DOMAIN members = {"top_k"} /\ members["top_k"] = Number(r.top_k, TRUE)
    OBVIOUS
  <2> HIDE DEF members
  <2>3. DOMAIN members \subseteq ScopeMembers("sampling")
    BY <2>2 DEF ScopeMembers
  <2>4. \A key \in DOMAIN members : key # "cfg_scale" /\ Exact(members[key])
    BY <2>2, <1>6
  <2> QED BY <2>1, <2>3, <2>4 DEF WellFormedScope
<1>9. WellFormedScope("flow", root["flow"])
  <2>1. root["flow"].type = "object" /\ root["flow"].members = FlowMembers(r)
    BY DEF Object
  <2>2. DOMAIN FlowMembers(r) \subseteq ScopeMembers("flow")
    BY FlowSeeded, FlowUnseeded DEF ScopeMembers
  <2>3. \A key \in DOMAIN FlowMembers(r) :
          IF key = "cfg_scale" THEN FlowMembers(r)[key].type = "number"
                               ELSE Exact(FlowMembers(r)[key])
    <3>1. FlowMembers(r)["cfg_scale"].type = "number"
      BY FlowNumbers
    <3>2. \A key \in DOMAIN FlowMembers(r) :
            key # "cfg_scale" => Exact(FlowMembers(r)[key])
      <4>1. Exact(FlowMembers(r)["euler_steps"])
        BY FlowFields, <1>6
      <4>2. ASSUME r.flow_seed_present
            PROVE  Exact(FlowMembers(r)["seed"])
        BY <4>2, FlowSeeded, <1>6
      <4>3. ASSUME "seed" \in DOMAIN FlowMembers(r)
            PROVE  Exact(FlowMembers(r)["seed"])
        BY <4>2, <4>3, FlowHasNoSeed
      <4>4. \A key \in DOMAIN FlowMembers(r) :
              key \in {"seed", "euler_steps", "cfg_scale"}
        <5>1. CASE r.flow_seed_present
          BY <5>1, FlowSeeded
        <5>2. CASE ~r.flow_seed_present
          BY <5>2, FlowUnseeded
        <5> QED BY <5>1, <5>2
      <4> QED BY <4>1, <4>3, <4>4
    <3> QED BY <3>1, <3>2
  <2> QED BY <2>1, <2>2, <2>3 DEF WellFormedScope
<1>10. \A scope \in DOMAIN root \cap ScopeKeys : WellFormedScope(scope, root[scope])
  BY <1>8, <1>9 DEF ScopeKeys
<1> QED BY <1>1, <1>2, <1>3, <1>4, <1>5, <1>7, <1>10 DEF WellFormed

\* Every field is read back from where it was written.
LEMMA CanonicalReadBack ==
  ASSUME NEW r, Regular(r)
  PROVE  Read(Canonical(r)) = r
<1> SUFFICES ASSUME NEW root, RootOf(root, r), root = Canonical(r).root
             PROVE  Read(Canonical(r)) = r
  BY RootShape
<1> DEFINE sampling == Scope(root, "sampling")
           flow == Scope(root, "flow")
<1> USE DEF RootOf
<1>1. TextKey(root) = "description" /\ DurationKey(root) = "duration_seconds"
  BY DEF TextKey, DurationKey
<1>2. sampling = [top_k |-> Number(r.top_k, TRUE)] /\ flow = FlowMembers(r)
  BY DEF Scope, Object
<1>3. root["lyrics"].text = r.lyrics /\ root["description"].text = r.description
  BY DEF Text
<1>4. /\ NumberOr(root, "duration_seconds", 200 * Tenth) = r.duration
      /\ NumberOr(root, "seed", 0) = r.seed
      /\ NumberOr(root, "cfg_scale", 15 * Tenth) = r.ar_cfg_scale
      /\ NumberOr(root, "output_sample_rate", 44100) = r.output_sample_rate
  BY DEF NumberOr, Number
<1>5. NumberOr(sampling, "top_k", NumberOr(root, "top_k", 50)) = r.top_k
  BY <1>2 DEF NumberOr, Number
<1>6. /\ \A x : NumberOr(flow, "euler_steps", x) = r.euler_steps
      /\ \A x : NumberOr(flow, "cfg_scale", x) = r.flow_cfg_scale
  <2>1. flow = FlowMembers(r)
    BY <1>2
  <2> HIDE DEF flow, RootOf
  <2>2. "euler_steps" \in DOMAIN flow /\ "cfg_scale" \in DOMAIN flow
    BY <2>1, FlowFields
  <2>3. /\ flow["euler_steps"].number = r.euler_steps
        /\ flow["cfg_scale"].number = r.flow_cfg_scale
    BY <2>1, FlowNumbers
  <2> QED BY <2>2, <2>3 DEF NumberOr
<1>7. r.flow_seed_present \in BOOLEAN
  BY DEF Regular, RequestFields
<1>8. "seed" \in DOMAIN flow <=> r.flow_seed_present
  BY <1>2, FlowHasSeed, FlowHasNoSeed
<1>9. NumberOr(flow, "seed", 0) = r.flow_seed
  <2>1. flow = FlowMembers(r)
    BY <1>2
  <2> HIDE DEF flow, RootOf
  <2>2. CASE r.flow_seed_present
    <3>1. "seed" \in DOMAIN flow
      BY <2>2, <1>8
    <3>2. flow["seed"].number = r.flow_seed
      BY <2>1, <2>2, FlowSeedNumber
    <3> QED BY <3>1, <3>2 DEF NumberOr
  <2>3. CASE ~r.flow_seed_present
    <3>1. r.flow_seed = 0
      BY <2>3 DEF Regular
    <3>2. "seed" \notin DOMAIN flow
      BY <2>3, <1>8
    <3> QED BY <3>1, <3>2 DEF NumberOr
  <2> QED BY <2>2, <2>3
<1> HIDE DEF sampling, flow, RootOf
<1>10. Read(Canonical(r)) =
         [lyrics |-> r.lyrics, description |-> r.description,
          duration |-> r.duration, seed |-> r.seed,
          ar_cfg_scale |-> r.ar_cfg_scale, top_k |-> r.top_k,
          flow_seed |-> r.flow_seed, flow_seed_present |-> "seed" \in DOMAIN flow,
          euler_steps |-> r.euler_steps, flow_cfg_scale |-> r.flow_cfg_scale,
          output_sample_rate |-> r.output_sample_rate]
  BY <1>1, <1>3, <1>4, <1>5, <1>6, <1>9 DEF Read, sampling, flow
<1>11. ("seed" \in DOMAIN flow) = r.flow_seed_present
  BY <1>7, <1>8
<1> QED BY <1>10, <1>11 DEF Regular, RequestFields

-----------------------------------------------------------------------------
(***************************************************************************)
(* What parse reads of a document it accepts is a request of the form the  *)
(* two lemmas above take.                                                  *)
(***************************************************************************)
\* A field that is there is of the set, and so is the default: so is what is read.
LEMMA NumberOrIn ==
  ASSUME NEW members, NEW key, NEW S, NEW default \in S,
         key \in DOMAIN members => members[key].number \in S
  PROVE  NumberOr(members, key, default) \in S
  BY DEF NumberOr

\* A root field that must be a number is one.
LEMMA RootNumbers ==
  ASSUME NEW d, JsonDocument(d), WellFormed(d)
  PROVE  /\ \A key \in DOMAIN d.root \cap (DurationKeys \cup ScaleKeys) :
              d.root[key].number \in Int
         /\ \A key \in DOMAIN d.root \cap IntegerKeys :
              d.root[key].number \in 0 .. SeedLimit - 1
  BY DEF JsonDocument, JsonValue, WellFormed, Exact

\* So are the fields of the nested objects, which hold no others.
LEMMA ScopeNumbers ==
  ASSUME NEW d, JsonDocument(d), WellFormed(d), NEW scope \in ScopeKeys
  PROVE  \A key \in DOMAIN Scope(d.root, scope) :
           /\ Scope(d.root, scope)[key].number \in Int
           /\ key # "cfg_scale" =>
                Scope(d.root, scope)[key].number \in 0 .. SeedLimit - 1
<1>1. CASE scope \in DOMAIN d.root
  <2>1. WellFormedScope(scope, d.root[scope])
    BY <1>1 DEF WellFormed
  <2> DEFINE members == d.root[scope].members
  <2>2. d.root[scope].type = "object" /\ Scope(d.root, scope) = members
    BY <1>1, <2>1 DEF WellFormedScope, Scope
  <2>3. \A key \in DOMAIN members : JsonValue(members[key])
    BY <1>1, <2>2 DEF JsonDocument
  <2>4. \A key \in DOMAIN members :
          /\ members[key].type = "number"
          /\ key # "cfg_scale" => members[key].number \in 0 .. SeedLimit - 1
    BY <2>1 DEF WellFormedScope, Exact
  <2> HIDE DEF members
  <2> QED BY <2>2, <2>3, <2>4 DEF JsonValue
<1>2. CASE scope \notin DOMAIN d.root
  BY <1>2 DEF Scope
<1> QED BY <1>1, <1>2

\* Field by field, what is read has the type of a request.
LEMMA ReadRegular ==
  ASSUME NEW d, JsonDocument(d), WellFormed(d)
  PROVE  Regular(Read(d))
<1> DEFINE root == d.root
           sampling == Scope(root, "sampling")
           flow == Scope(root, "flow")
           seeds == 0 .. SeedLimit - 1
<1>1. root["lyrics"].text \in Texts /\ root[TextKey(root)].text \in Texts
  BY DEF WellFormed, JsonDocument, JsonValue
<1>2. /\ \A key \in DOMAIN root \cap (DurationKeys \cup ScaleKeys) :
           root[key].number \in Int
      /\ \A key \in DOMAIN root \cap IntegerKeys : root[key].number \in seeds
  BY RootNumbers
<1>3. /\ \A key \in DOMAIN sampling : sampling[key].number \in Int
      /\ \A key \in DOMAIN flow :
           /\ flow[key].number \in Int
           /\ key # "cfg_scale" => flow[key].number \in seeds
  BY ScopeNumbers DEF ScopeKeys
<1>4. 0 \in seeds /\ seeds \subseteq Int
  BY LimitAssumption
<1>5. \A key \in DOMAIN root \cap (DurationKeys \cup ScaleKeys \cup IntegerKeys) :
        root[key].number \in Int
  BY <1>2, <1>4
<1> HIDE DEF root, sampling, flow, seeds
<1>6. NumberOr(root, DurationKey(root), 200 * Tenth) \in Int
  <2>1. DurationKey(root) \in DurationKeys
    BY DEF DurationKey, DurationKeys
  <2>2. 200 * Tenth \in Int
    BY DEF Tenth
  <2> QED BY <2>1, <2>2, <1>5, NumberOrIn
<1>7. NumberOr(root, "seed", 0) \in seeds
  BY <1>2, <1>4, NumberOrIn DEF IntegerKeys
<1>8. /\ NumberOr(root, "cfg_scale", 15 * Tenth) \in Int
      /\ NumberOr(root, "guidance_scale", 17 * Tenth) \in Int
      /\ NumberOr(root, "top_k", 50) \in Int
      /\ NumberOr(root, "inference_steps", 30) \in Int
      /\ NumberOr(root, "output_sample_rate", 44100) \in Int
  <2>1. {"cfg_scale", "guidance_scale", "top_k", "inference_steps",
         "output_sample_rate"} \subseteq ScaleKeys \cup IntegerKeys
    BY DEF ScaleKeys, IntegerKeys
  <2>2. 15 * Tenth \in Int /\ 17 * Tenth \in Int
    BY DEF Tenth
  <2> QED BY <2>1, <2>2, <1>5, NumberOrIn
<1>9. /\ NumberOr(sampling, "top_k", NumberOr(root, "top_k", 50)) \in Int
      /\ NumberOr(flow, "euler_steps", NumberOr(root, "inference_steps", 30)) \in Int
      /\ NumberOr(flow, "cfg_scale", NumberOr(root, "guidance_scale", 17 * Tenth)) \in Int
  BY <1>3, <1>8, NumberOrIn
<1>10. NumberOr(flow, "seed", 0) \in seeds
  BY <1>3, <1>4, NumberOrIn
<1>11. ("seed" \in DOMAIN flow) \/ NumberOr(flow, "seed", 0) = 0
  BY DEF NumberOr
<1>12. Read(d) =
         [lyrics |-> root["lyrics"].text,
          description |-> root[TextKey(root)].text,
          duration |-> NumberOr(root, DurationKey(root), 200 * Tenth),
          seed |-> NumberOr(root, "seed", 0),
          ar_cfg_scale |-> NumberOr(root, "cfg_scale", 15 * Tenth),
          top_k |-> NumberOr(sampling, "top_k", NumberOr(root, "top_k", 50)),
          flow_seed |-> NumberOr(flow, "seed", 0),
          flow_seed_present |-> "seed" \in DOMAIN flow,
          euler_steps |->
            NumberOr(flow, "euler_steps", NumberOr(root, "inference_steps", 30)),
          flow_cfg_scale |->
            NumberOr(flow, "cfg_scale", NumberOr(root, "guidance_scale", 17 * Tenth)),
          output_sample_rate |-> NumberOr(root, "output_sample_rate", 44100)]
  BY DEF Read, root, sampling, flow
<1>13. Read(d) \in RequestFields
  BY <1>12, <1>1, <1>6, <1>7, <1>8, <1>9, <1>10 DEF RequestFields, seeds
<1>14. Read(d).flow_seed_present \/ Read(d).flow_seed = 0
  <2>1. Read(d).flow_seed = NumberOr(flow, "seed", 0)
    BY <1>12
  <2>2. Read(d).flow_seed_present = ("seed" \in DOMAIN flow)
    BY <1>12
  <2>3. CASE "seed" \in DOMAIN flow
    <3>1. ("seed" \in DOMAIN flow) = TRUE
      BY <2>3
    <3> QED BY <2>2, <3>1
  <2>4. CASE NumberOr(flow, "seed", 0) = 0
    BY <2>1, <2>4
  <2> QED BY <1>11, <2>3, <2>4
<1> QED BY <1>13, <1>14 DEF Regular

(***************************************************************************)
(* The request of any document parse accepts, written by serialize, is a   *)
(* document of the right form that reads as the same request: a request    *)
(* crosses any number of boundary files unchanged.                         *)
(***************************************************************************)
THEOREM CanonicalFaithful ==
  ASSUME NEW d, JsonDocument(d), Accepts(d)
  PROVE  /\ WellFormed(Canonical(Read(d)))
         /\ Valid(Read(Canonical(Read(d))))
         /\ Read(Canonical(Read(d))) = Read(d)
<1>1. Regular(Read(d)) /\ Valid(Read(d))
  BY ReadRegular DEF Accepts
<1> QED BY <1>1, CanonicalWellFormed, CanonicalReadBack

-----------------------------------------------------------------------------
(***************************************************************************)
(* The blocking path holds the weights of one phase at a time.  A phase    *)
(* begins where nothing is held and its end releases what it built, so     *)
(* what is held is always what the phase needs.                            *)
(***************************************************************************)
MemoryInv == phase \in Phases /\ BlockingMemory

\* No step keeps the weights of the phase it leaves.
LEMMA MemoryStep == MemoryInv /\ [Next]_vars => MemoryInv'
<1> SUFFICES ASSUME MemoryInv, [Next]_vars PROVE MemoryInv'
  OBVIOUS
<1> USE DEF MemoryInv, BlockingMemory, Needs, Phases
<1>1. CASE UNCHANGED blockingVars
  BY <1>1 DEF blockingVars
<1>2. CASE UNCHANGED <<resident, phase>>
  BY <1>2
<1>3. CASE CanGenerate /\ phase' \in {"loaded", "failed"} /\ UNCHANGED resident
  BY <1>3 DEF CanGenerate
<1>4. CASE phase' = "failed" /\ resident' = {}
  BY <1>4
<1>5. CASE \/ EnterPhase("loaded", "ar") \/ EnterPhase("arDone", "denoise")
           \/ EnterPhase("denoiseDone", "decode")
  BY <1>5 DEF EnterPhase
<1>6. CASE \/ LeavePhase("ar", "arDone") \/ LeavePhase("denoise", "denoiseDone")
           \/ LeavePhase("decode", "decodeDone")
  BY <1>6 DEF LeavePhase
<1>7. CASE phase = "decodeDone" /\ phase' = "done" /\ UNCHANGED resident
  BY <1>7
<1>8. CASE BlockingStep
  BY <1>8, <1>2, <1>4, <1>5, <1>6, <1>7
     DEF BlockingStep, BeginAr, GenerateFrame, EndAr, BeginDenoising, StartWindow,
         UpdateWindow, FinishWindow, EndDenoising, BeginDecoding, DecodeWindow,
         EndDecoding, WriteWav, Abandon
<1>9. CASE Next
  BY <1>9, <1>1, <1>3, <1>8 DEF Next, Staged, Blocking, GenerateWav, RefuseWav
<1> QED BY <1>1, <1>9 DEF vars

(***************************************************************************)
(* In every state of every run the blocking call holds no weights but      *)
(* those of the phase it is in, and none before, between and after phases. *)
(***************************************************************************)
THEOREM BlockingMemoryHolds == Spec => []BlockingMemory
<1>1. Init => MemoryInv
  BY DEF Init, BlockingInit, MemoryInv, BlockingMemory, Phases
<1>2. MemoryInv => BlockingMemory
  BY DEF MemoryInv
<1> QED BY <1>1, <1>2, MemoryStep, PTL DEF Spec

-----------------------------------------------------------------------------
(***************************************************************************)
(* The song of the blocking path.  Its locals are at any moment those of   *)
(* the reference after n frames, w windows, the latent in work and p       *)
(* pieces.                                                                 *)
(***************************************************************************)
SongAt(c, r, n, w, a, p) ==
  [comps : {c}, req : {r}, codes : {RefCodes(c, r, n)}, hiddens : {MadeOf(c, r, n)},
   completed : {RefLatents(c, r, w)}, active : {a}, carry : {CarryAfter(c, r, w)},
   pieces : {PiecesOf(c, r, p)}]

(***************************************************************************)
(* How far the call is in each phase.                                      *)
(***************************************************************************)
Reached(ph, c, r, n, w, a, p) ==
  \/ /\ ph \in {"loaded", "ar"}
     /\ n \in 0 .. RefLength(c, r) /\ w = 0 /\ a = None /\ p = 0
  \/ /\ ph = "arDone"
     /\ n = RefLength(c, r) /\ w = 0 /\ a = None /\ p = 0
  \/ /\ ph = "denoise"
     /\ n = RefLength(c, r) /\ RefGenerated(c, r) # 0 /\ p = 0
     /\ w \in 0 .. WindowsIn(c, r)
     /\ \/ a = None
        \/ w < WindowsIn(c, r) /\ \E k \in 0 .. EulerSteps[r] : a = RefEuler(c, r, w + 1, k)
  \/ /\ ph = "denoiseDone"
     /\ n = RefLength(c, r) /\ RefGenerated(c, r) # 0 /\ p = 0
     /\ w = WindowsIn(c, r) /\ a = None
  \/ /\ ph = "decode"
     /\ n = RefLength(c, r) /\ RefGenerated(c, r) # 0 /\ p \in 0 .. WindowsIn(c, r)
     /\ w = WindowsIn(c, r) /\ a = None
  \/ /\ ph = "decodeDone"
     /\ n = RefLength(c, r) /\ RefGenerated(c, r) # 0 /\ p = WindowsIn(c, r)
     /\ w = WindowsIn(c, r) /\ a = None

\* The song is one the reference passes through in this phase.
OnCourse(s, ph, r) ==
  \E c \in Components, n \in Nat, w \in Nat, p \in Nat : \E a :
    s \in SongAt(c, r, n, w, a, p) /\ Reached(ph, c, r, n, w, a, p)

\* A frame made in order is the reference's next.
LEMMA FrameStep ==
  ASSUME NEW r \in Requests, OnCourse(song, phase, r), GenerateFrame
  PROVE  OnCourse(song', phase', r)
<1>0. PICK c \in Components, n \in Nat, w \in Nat, p \in Nat : \E a :
        song \in SongAt(c, r, n, w, a, p) /\ Reached(phase, c, r, n, w, a, p)
  BY DEF OnCourse
<1>1. PICK a :
        song \in SongAt(c, r, n, w, a, p) /\ Reached(phase, c, r, n, w, a, p)
  BY <1>0
<1>2. /\ song.comps = c /\ song.req = r
      /\ song.codes = RefCodes(c, r, n) /\ song.hiddens = MadeOf(c, r, n)
  BY <1>1 DEF SongAt
<1>3. FrameNow = n
  BY <1>2, OneMoreCode DEF FrameNow
<1>4. n < RefLength(c, r) /\ n \in 0 .. RefLength(c, r) /\ w = 0 /\ a = None /\ p = 0
  <2>1. phase = "ar" /\ n # EosFrame[c][r] /\ ~ (n > Target[r])
    BY <1>2, <1>3 DEF GenerateFrame, FramesEnd
  <2>2. n \in 0 .. RefLength(c, r) /\ w = 0 /\ a = None /\ p = 0
    BY <1>1, <2>1 DEF Reached
  <2>3. Target[r] \in Nat /\ EosFrame[c][r] \in Nat
    BY AllFrames
  <2> QED BY <2>1, <2>2, <2>3 DEF RefLength, Least
<1>5. song' \in SongAt(c, r, n + 1, w, a, p)
  <2> DEFINE frame == RefFrame(c, r, n)
             codes == Append(song.codes, frame)
             hiddens == IF n > 0 THEN Append(song.hiddens, HiddenOf(c, n, frame))
                                 ELSE song.hiddens
  <2>1. song' = [song EXCEPT !.codes = codes, !.hiddens = hiddens]
    BY <1>2, <1>3 DEF GenerateFrame, RefFrame
  <2>2. codes = RefCodes(c, r, n + 1)
    <3>1. Append(RefCodes(c, r, n), frame) = RefCodes(c, r, n + 1)
      BY OneMoreCode
    <3> QED BY <1>2, <3>1
  <2>3. hiddens = MadeOf(c, r, n + 1)
    BY <1>2, OneMoreHidden
  <2> HIDE DEF codes, hiddens
  <2> QED BY <1>1, <2>1, <2>2, <2>3 DEF SongAt
<1>6. Reached(phase', c, r, n + 1, w, a, p)
  <2>1. phase' = "ar"
    BY DEF GenerateFrame
  <2>2. n + 1 \in 0 .. RefLength(c, r)
    BY <1>4, AllFrames
  <2> QED BY <1>4, <2>1, <2>2 DEF Reached
<1> QED BY <1>5, <1>6 DEF OnCourse

\* A step from one phase to the next leaves the song where it must be.
LEMMA PhaseStep ==
  ASSUME NEW r \in Requests, OnCourse(song, phase, r),
         \/ BeginAr \/ EndAr \/ BeginDenoising \/ EndDenoising
         \/ BeginDecoding \/ EndDecoding
  PROVE  OnCourse(song', phase', r)
<1>0. PICK c \in Components, n \in Nat, w \in Nat, p \in Nat : \E a :
        song \in SongAt(c, r, n, w, a, p) /\ Reached(phase, c, r, n, w, a, p)
  BY DEF OnCourse
<1>1. PICK a :
        song \in SongAt(c, r, n, w, a, p) /\ Reached(phase, c, r, n, w, a, p)
  BY <1>0
<1>2. /\ song.comps = c /\ song.req = r
      /\ song.codes = RefCodes(c, r, n) /\ song.hiddens = MadeOf(c, r, n)
      /\ song.completed = RefLatents(c, r, w) /\ song.pieces = PiecesOf(c, r, p)
  BY <1>1 DEF SongAt
<1>3. song' = song
  BY DEF BeginAr, EndAr, BeginDenoising, EndDenoising, BeginDecoding, EndDecoding
<1>4. /\ FrameNow = n /\ Len(song.completed) = w /\ Len(song.pieces) = p
      /\ FramesMade = Greatest(0, n - 1)
  <2>1. FrameNow = n
    BY <1>2, OneMoreCode DEF FrameNow
  <2>2. FramesMade = Greatest(0, n - 1)
    BY <1>2, OneMoreHidden DEF FramesMade
  <2>3. Len(song.completed) = w
    BY <1>2, OneMoreLatent
  <2>4. Len(song.pieces) = p
    BY <1>2, OneMorePiece
  <2> QED BY <2>1, <2>2, <2>3, <2>4
<1>5. Reached(phase', c, r, n, w, a, p)
  <2>1. CASE BeginAr
    <3>1. phase = "loaded" /\ phase' = "ar"
      BY <2>1 DEF BeginAr, EnterPhase
    <3> QED BY <1>1, <3>1 DEF Reached
  <2>2. CASE EndAr
    <3>1. phase = "ar" /\ phase' = "arDone"
      BY <2>2 DEF EndAr, LeavePhase
    <3>2. n = EosFrame[c][r] \/ n > Target[r]
      BY <2>2, <1>2, <1>4 DEF EndAr, FramesEnd
    <3>3. n \in 0 .. RefLength(c, r) /\ w = 0 /\ a = None /\ p = 0
      BY <1>1, <3>1 DEF Reached
    <3>4. n = RefLength(c, r)
      BY <3>2, <3>3, AllFrames DEF RefLength, Least
    <3> QED BY <3>1, <3>3, <3>4 DEF Reached
  <2>3. CASE BeginDenoising
    <3>1. phase = "arDone" /\ phase' = "denoise" /\ FramesMade > 0
      BY <2>3 DEF BeginDenoising, EnterPhase
    <3>2. n = RefLength(c, r) /\ w = 0 /\ a = None /\ p = 0
      BY <1>1, <3>1 DEF Reached
    <3>3. RefGenerated(c, r) \in Nat \ {0}
      BY <1>4, <3>1, <3>2, AllFrames DEF RefGenerated
    <3>4. WindowsIn(c, r) \in Nat
      BY <3>3, WindowsInside DEF WindowsIn
    <3> QED BY <3>1, <3>2, <3>3, <3>4 DEF Reached
  <2>4. CASE EndDenoising
    <3>1. /\ phase = "denoise" /\ phase' = "denoiseDone"
          /\ Len(song.completed) = WindowCount(FramesMade) /\ song.active = None
      BY <2>4 DEF EndDenoising, LeavePhase
    <3>2. n = RefLength(c, r) /\ RefGenerated(c, r) # 0 /\ p = 0
      BY <1>1, <3>1 DEF Reached
    <3>3. w = WindowsIn(c, r)
      BY <1>4, <3>1, <3>2 DEF WindowsIn, RefGenerated
    <3>4. a = None
      BY <1>1, <3>1 DEF SongAt
    <3> QED BY <3>1, <3>2, <3>3, <3>4 DEF Reached
  <2>5. CASE BeginDecoding
    <3>1. phase = "denoiseDone" /\ phase' = "decode"
      BY <2>5 DEF BeginDecoding, EnterPhase
    <3>2. /\ n = RefLength(c, r) /\ RefGenerated(c, r) # 0 /\ p = 0
          /\ w = WindowsIn(c, r) /\ a = None
      BY <1>1, <3>1 DEF Reached
    <3> QED BY <1>4, <3>1, <3>2, AllFrames DEF Reached
  <2>6. CASE EndDecoding
    <3>1. /\ phase = "decode" /\ phase' = "decodeDone"
          /\ Len(song.pieces) = Len(song.completed)
      BY <2>6 DEF EndDecoding, LeavePhase
    <3>2. /\ n = RefLength(c, r) /\ RefGenerated(c, r) # 0 /\ w = WindowsIn(c, r)
          /\ a = None
      BY <1>1, <3>1 DEF Reached
    <3> QED BY <1>4, <3>1, <3>2 DEF Reached
  <2> QED BY <2>1, <2>2, <2>3, <2>4, <2>5, <2>6
<1> QED BY <1>1, <1>3, <1>5 DEF OnCourse

\* So does every step of denoising: the noise, an update, a finished window.
LEMMA DenoiseStep ==
  ASSUME NEW r \in Requests, OnCourse(song, phase, r),
         StartWindow \/ UpdateWindow \/ FinishWindow
  PROVE  OnCourse(song', phase', r)
<1>0. PICK c \in Components, n \in Nat, w \in Nat, p \in Nat : \E a :
        song \in SongAt(c, r, n, w, a, p) /\ Reached(phase, c, r, n, w, a, p)
  BY DEF OnCourse
<1>1. PICK a :
        song \in SongAt(c, r, n, w, a, p) /\ Reached(phase, c, r, n, w, a, p)
  BY <1>0
<1>2. /\ song.comps = c /\ song.req = r /\ song.hiddens = MadeOf(c, r, n)
      /\ song.completed = RefLatents(c, r, w) /\ song.active = a
      /\ song.carry = CarryAfter(c, r, w)
  BY <1>1 DEF SongAt
<1>3. phase = "denoise" /\ phase' = "denoise"
  BY DEF StartWindow, UpdateWindow, FinishWindow
<1>4. /\ n = RefLength(c, r) /\ RefGenerated(c, r) # 0 /\ p = 0
      /\ w \in 0 .. WindowsIn(c, r)
      /\ \/ a = None
         \/ w < WindowsIn(c, r) /\ \E k \in 0 .. EulerSteps[r] : a = RefEuler(c, r, w + 1, k)
  BY <1>1, <1>3 DEF Reached
<1>5. /\ RefGenerated(c, r) \in Nat \ {0} /\ WindowsIn(c, r) \in Nat
      /\ EulerSteps[r] \in Nat \ {0}
  BY <1>4, AllFrames, WindowsInside DEF WindowsIn
<1>6. song.hiddens = RefHiddens(c, r) /\ FramesMade = RefGenerated(c, r)
  BY <1>2, <1>4, AllFrames DEF FramesMade
<1>7. WindowNow = w + 1
  <2>1. Len(song.completed) = w
    BY <1>2, OneMoreLatent
  <2> QED BY <2>1 DEF WindowNow
<1>8. CASE StartWindow
  <2>1. w < WindowsIn(c, r)
    BY <1>4, <1>5, <1>6, <1>7, <1>8 DEF StartWindow, WindowsIn
  <2>2. InputsNow = RefInputs(c, r, w + 1)
    <3>1. WindowNow - 1 = w
      BY <1>7
    <3> QED BY <1>2, <1>5, <1>6, <1>7, <2>1, <3>1, InputsAt DEF InputsNow, ConditionOf
  <2>3. InitialNoise(InputsNow) = RefEuler(c, r, w + 1, 0)
    BY <2>2, OneMoreUpdate
  <2>4. song' \in SongAt(c, r, n, w, RefEuler(c, r, w + 1, 0), p)
    BY <1>1, <1>8, <2>3 DEF StartWindow, SongAt
  <2>5. Reached("denoise", c, r, n, w, RefEuler(c, r, w + 1, 0), p)
    BY <1>4, <1>5, <2>1 DEF Reached
  <2> QED BY <1>3, <2>4, <2>5 DEF OnCourse
<1>9. ASSUME ~ (a = None)
      PROVE  /\ w < WindowsIn(c, r)
             /\ \E k \in 0 .. EulerSteps[r] : a = RefEuler(c, r, w + 1, k) /\ StepsApplied = k
  <2>1. PICK k \in 0 .. EulerSteps[r] : a = RefEuler(c, r, w + 1, k)
    BY <1>4, <1>9
  <2>2. StepsApplied = k
    BY <1>2, <2>1, OneMoreUpdate DEF StepsApplied
  <2> QED BY <1>4, <1>9, <2>1, <2>2
<1>10. CASE UpdateWindow
  <2>1. w < WindowsIn(c, r)
    BY <1>2, <1>9, <1>10 DEF UpdateWindow
  <2>2. PICK k \in 0 .. EulerSteps[r] : a = RefEuler(c, r, w + 1, k) /\ StepsApplied = k
    BY <1>2, <1>9, <1>10 DEF UpdateWindow
  <2>3. k < EulerSteps[r]
    BY <1>2, <1>10, <2>2 DEF UpdateWindow
  <2>4. song.active.inputs = RefInputs(c, r, w + 1)
    BY <1>2, <2>2, LatentAt
  <2>5. EulerUpdate(song.active, song.active.inputs, StepsApplied)
          = RefEuler(c, r, w + 1, k + 1)
    BY <1>2, <2>2, <2>4, OneMoreUpdate
  <2>6. song' \in SongAt(c, r, n, w, RefEuler(c, r, w + 1, k + 1), p)
    BY <1>1, <1>10, <2>5 DEF UpdateWindow, SongAt
  <2>7. Reached("denoise", c, r, n, w, RefEuler(c, r, w + 1, k + 1), p)
    <3>1. k + 1 \in 0 .. EulerSteps[r]
      BY <1>5, <2>3
    <3> QED BY <1>4, <2>1, <3>1 DEF Reached
  <2> QED BY <1>3, <2>6, <2>7 DEF OnCourse
<1>11. CASE FinishWindow
  <2>1. w < WindowsIn(c, r)
    BY <1>2, <1>9, <1>11 DEF FinishWindow
  <2>2. a = RefEuler(c, r, w + 1, EulerSteps[r])
    BY <1>2, <1>9, <1>11 DEF FinishWindow
  <2>3. song.active.inputs = RefInputs(c, r, w + 1)
    BY <1>2, <2>2, LatentAt
  <2> DEFINE latent == [song.active EXCEPT !.head = song.active.inputs.prompt]
             completed == Append(song.completed, latent)
             carry == CarryOf(WindowNow, FramesOf(FramesMade, WindowNow))
  <2>4. latent = RefLatent(c, r, w + 1)
    BY <1>2, <2>2, <2>3 DEF RefLatent
  <2>5. completed = RefLatents(c, r, w + 1)
    <3> HIDE DEF latent
    <3> QED BY <1>2, <2>4, OneMoreLatent
  <2>6. carry = CarryAfter(c, r, w + 1)
    BY <1>6, <1>7 DEF CarryAfter
  <2>7. song' = [song EXCEPT !.completed = completed, !.carry = carry, !.active = None]
    BY <1>11 DEF FinishWindow
  <2> HIDE DEF completed, carry, latent
  <2>8. song' \in SongAt(c, r, n, w + 1, None, p)
    BY <1>1, <2>5, <2>6, <2>7 DEF SongAt
  <2>9. Reached("denoise", c, r, n, w + 1, None, p)
    <3>1. w + 1 \in 0 .. WindowsIn(c, r)
      BY <1>4, <1>5, <2>1
    <3> QED BY <1>4, <3>1 DEF Reached
  <2>10. w + 1 \in Nat
    OBVIOUS
  <2> QED BY <1>3, <2>8, <2>9, <2>10 DEF OnCourse
<1> QED BY <1>8, <1>10, <1>11

\* And a decoded window is the reference's next piece.
LEMMA PieceStep ==
  ASSUME NEW r \in Requests, OnCourse(song, phase, r), DecodeWindow
  PROVE  OnCourse(song', phase', r)
<1>0. PICK c \in Components, n \in Nat, w \in Nat, p \in Nat : \E a :
        song \in SongAt(c, r, n, w, a, p) /\ Reached(phase, c, r, n, w, a, p)
  BY DEF OnCourse
<1>1. PICK a :
        song \in SongAt(c, r, n, w, a, p) /\ Reached(phase, c, r, n, w, a, p)
  BY <1>0
<1>2. /\ song.comps = c /\ song.completed = RefLatents(c, r, w)
      /\ song.pieces = PiecesOf(c, r, p)
  BY <1>1 DEF SongAt
<1>3. phase = "decode" /\ phase' = "decode"
  BY DEF DecodeWindow
<1>4. /\ n = RefLength(c, r) /\ RefGenerated(c, r) # 0
      /\ p \in 0 .. WindowsIn(c, r) /\ w = WindowsIn(c, r) /\ a = None
  BY <1>1, <1>3 DEF Reached
<1>5. Len(song.pieces) = p
  BY <1>2, OneMorePiece
<1>6. Len(song.completed) = w
  BY <1>2, OneMoreLatent
<1>7. p + 1 \in 1 .. w
  BY <1>4, <1>5, <1>6 DEF DecodeWindow
<1>8. song.completed[p + 1] = RefLatent(c, r, p + 1)
  BY <1>2, <1>7 DEF RefLatents
<1>9. song.completed[p + 1].inputs.cond = RefConditions(c, r)[p + 1]
  BY <1>8, LatentAt
<1> DEFINE frames == LatentFrames(song.completed[p + 1].inputs.cond.frames)
           piece == [comps |-> c, latent |-> song.completed[p + 1],
                     from |-> KeptFrom(p + 1, frames), to |-> KeptTo(p + 1, w, frames)]
           pieces == Append(song.pieces, piece)
<1>10. piece = RefPiece(c, r, p + 1)
  BY <1>4, <1>8, <1>9 DEF RefPiece, WindowsIn
<1>11. song' = [song EXCEPT !.pieces = pieces]
  BY <1>2, <1>5, <1>6 DEF DecodeWindow
<1> HIDE DEF piece
<1>12. pieces = PiecesOf(c, r, p + 1)
  BY <1>2, <1>10, OneMorePiece
<1> HIDE DEF pieces
<1>13. song' \in SongAt(c, r, n, w, a, p + 1)
  BY <1>1, <1>11, <1>12 DEF SongAt
<1>14. Reached("decode", c, r, n, w, a, p + 1)
  BY <1>4, <1>7 DEF Reached
<1> QED BY <1>3, <1>13, <1>14 DEF OnCourse

-----------------------------------------------------------------------------
(***************************************************************************)
(* The invariant: while the call runs its song is on course for the        *)
(* request the session reads, and the audio file is that request's song.   *)
(***************************************************************************)
Played == NativeRequest(Read(doc))

\* The call has not begun or has ended.
Returned == phase \in {"idle", "failed", "done"}

\* The audio file is the whole song of the request, at its rate.
WavOfRequest ==
  \E c \in Components :
    /\ wav.req = Played
    /\ wav.pieces = RefSong(c, Played)
    /\ wav.rate = Played.output_sample_rate

\* A call under way is on course, and what it wrote is the song of the request.
SongInv ==
  /\ doc \in Documents
  /\ Returned \/ (Accepts(doc) /\ OnCourse(song, phase, Played))
  /\ wav = None \/ (Accepts(doc) /\ WavOfRequest)

\* What the session reads of an accepted document is a request.
LEMMA PlayedAsked ==
  ASSUME doc \in Documents, Accepts(doc)
  PROVE  Played \in Requests
  BY RequestsAssumption DEF Played

\* A call that begins has nothing yet.
LEMMA GenerateStep ==
  ASSUME NEW r, NativeRequest(r) \in Requests, GenerateWav(r)
  PROVE  OnCourse(song', phase', NativeRequest(r))
<1>1. PICK c \in Components :
        song' = [comps |-> c, req |-> NativeRequest(r), codes |-> <<>>,
                 hiddens |-> <<>>, completed |-> <<>>, active |-> None,
                 carry |-> 0, pieces |-> <<>>]
  BY DEF GenerateWav
<1> DEFINE q == NativeRequest(r)
<1>2. /\ RefCodes(c, q, 0) = <<>> /\ RefLatents(c, q, 0) = <<>>
      /\ PiecesOf(c, q, 0) = <<>> /\ CarryAfter(c, q, 0) = 0
  BY DEF RefCodes, RefLatents, PiecesOf, CarryAfter
<1>3. MadeOf(c, q, 0) = <<>>
  BY DEF MadeOf, Greatest
<1>4. song' \in SongAt(c, q, 0, 0, None, 0)
  <2> HIDE DEF q
  <2>1. song' = [comps |-> c, req |-> q, codes |-> <<>>, hiddens |-> <<>>,
                 completed |-> <<>>, active |-> None, carry |-> 0, pieces |-> <<>>]
    BY <1>1 DEF q
  <2> QED BY <1>2, <1>3, <2>1 DEF SongAt
<1>5. phase' = "loaded" /\ 0 \in 0 .. RefLength(c, q)
  BY AllFrames DEF GenerateWav
<1>6. Reached(phase', c, q, 0, 0, None, 0)
  BY <1>5 DEF Reached
<1> QED BY <1>4, <1>6 DEF OnCourse

\* What is written is the whole song.
LEMMA WriteStep ==
  ASSUME OnCourse(song, phase, Played), Played \in Requests, WriteWav
  PROVE  \E c \in Components :
           /\ wav'.req = Played
           /\ wav'.pieces = RefSong(c, Played)
           /\ wav'.rate = Played.output_sample_rate
<1>0. PICK c \in Components, n \in Nat, w \in Nat, p \in Nat : \E a :
        /\ song \in SongAt(c, Played, n, w, a, p)
        /\ Reached(phase, c, Played, n, w, a, p)
  BY DEF OnCourse
<1>1. PICK a :
        /\ song \in SongAt(c, Played, n, w, a, p)
        /\ Reached(phase, c, Played, n, w, a, p)
  BY <1>0
<1>2. p = WindowsIn(c, Played)
  BY <1>1 DEF WriteWav, Reached
<1>3. song.req = Played /\ song.pieces = RefSong(c, Played)
  BY <1>1, <1>2 DEF SongAt, PiecesOf, RefSong, WindowsIn
<1> QED BY <1>3 DEF WriteWav

\* No step leaves the course, and only the last writes a file.
LEMMA SongStep == SongInv /\ [Next]_vars => SongInv'
<1> SUFFICES ASSUME SongInv, [Next]_vars PROVE SongInv'
  OBVIOUS
<1>1. doc' = doc
  BY DEF Next, Staged, Blocking, vars, fileVars, StageCall, PauseCodes,
         CompleteCodes, EmptyCodes, RefuseCodes, PauseDiffuse, CompleteDiffuse,
         RefuseDiffuse, PlaySong, RefuseDecode, Save, NothingSaved, Damage, LayOut
<1>2. doc \in Documents /\ Played' = Played /\ (Accepts(doc))' = Accepts(doc)
  BY <1>1 DEF SongInv, Played
<1>3. ASSUME UNCHANGED wav
      PROVE  (wav = None \/ (Accepts(doc) /\ WavOfRequest))'
  BY <1>1, <1>2, <1>3 DEF SongInv, WavOfRequest
<1>4. ASSUME UNCHANGED wav, phase' \in {"idle", "failed", "done"}
      PROVE  SongInv'
  BY <1>1, <1>2, <1>3, <1>4 DEF SongInv, Returned
<1>5. ASSUME UNCHANGED wav, Accepts(doc), OnCourse(song', phase', Played)
      PROVE  SongInv'
  <2>1. (Accepts(doc) /\ OnCourse(song, phase, Played))'
    BY <1>2, <1>5
  <2> QED BY <1>1, <1>2, <1>3, <1>5, <2>1 DEF SongInv
<1>6. CASE UNCHANGED blockingVars
  <2>1. (Returned \/ (Accepts(doc) /\ OnCourse(song, phase, Played)))'
    BY <1>2, <1>6 DEF SongInv, blockingVars, Returned
  <2>2. UNCHANGED wav
    BY <1>6 DEF blockingVars
  <2> QED BY <1>1, <1>2, <1>3, <2>1, <2>2 DEF SongInv
<1>7. CASE Accepts(doc) /\ GenerateWav(Read(doc))
  <2>1. Played \in Requests
    BY <1>2, <1>7, PlayedAsked
  <2>2. OnCourse(song', phase', Played)
    BY <1>7, <2>1, GenerateStep DEF Played
  <2> QED BY <1>5, <1>7, <2>2 DEF GenerateWav
<1>8. CASE RefuseWav \/ Abandon
  BY <1>4, <1>8 DEF RefuseWav, Abandon
<1>9. ASSUME ~Returned
      PROVE  /\ Accepts(doc)
             /\ Played \in Requests
             /\ OnCourse(song, phase, Played)
  BY <1>2, <1>9, PlayedAsked DEF SongInv
<1>10. CASE \/ BeginAr \/ EndAr \/ BeginDenoising \/ EndDenoising
            \/ BeginDecoding \/ EndDecoding
  <2>1. UNCHANGED wav /\ ~Returned
    BY <1>10 DEF BeginAr, EndAr, BeginDenoising, EndDenoising, BeginDecoding,
                 EndDecoding, EnterPhase, LeavePhase, Returned
  <2> QED BY <1>5, <1>9, <1>10, <2>1, PhaseStep
<1>11. CASE GenerateFrame \/ StartWindow \/ UpdateWindow \/ FinishWindow \/ DecodeWindow
  <2>1. UNCHANGED wav /\ ~Returned
    BY <1>11 DEF GenerateFrame, StartWindow, UpdateWindow, FinishWindow,
                 DecodeWindow, Returned
  <2> QED BY <1>5, <1>9, <1>11, <2>1, FrameStep, DenoiseStep, PieceStep
<1>12. CASE WriteWav
  <2>1. ~Returned /\ phase' = "done"
    BY <1>12 DEF WriteWav, Returned
  <2>2. WavOfRequest'
    BY <1>2, <1>9, <1>12, <2>1, WriteStep DEF WavOfRequest
  <2> QED BY <1>1, <1>2, <1>9, <2>1, <2>2 DEF SongInv, Returned
<1>13. CASE Next
  BY <1>6, <1>7, <1>8, <1>10, <1>11, <1>12, <1>13
     DEF Next, Staged, Blocking, BlockingStep
<1> QED BY <1>6, <1>13 DEF vars

(***************************************************************************)
(* Durations.  Either way a duration becomes a nearby number of frames.    *)
(***************************************************************************)
LEMMA StagedBetween ==
  ASSUME NEW n \in Nat
  PROVE  /\ StagedFrames(n) \in {n \div 120000, n \div 120000 - 1}
         /\ n % 120000 # 0 => StagedFrames(n) = n \div 120000
<1>1. StagedFrames(n) \in {n \div 120000, n \div 120000 - 1}
  BY DEF StagedFrames
<1>2. ~WholeFrames(n) => StagedFrames(n) = n \div 120000
  BY DEF StagedFrames
<1> QED BY <1>1, <1>2 DEF WholeFrames

LEMMA BlockingBetween ==
  ASSUME NEW k \in Nat
  PROVE  /\ BlockingFrames(k) \in Nat
         /\ BlockingFrames(k) \in {(k + 20000) \div 40000, (k + 20000) \div 40000 - 1}
<1> DEFINE m == (k + 20000) \div 40000
<1>1. m \in Nat
  OBVIOUS
<1>2. BlockingFrames(k) = m \/ (m > 0 /\ BlockingFrames(k) = m - 1)
  BY DEF BlockingFrames
<1> QED BY <1>1, <1>2

\* Six decimals move a number by a third of a millionth at most,
LEMMA NearestDecimals ==
  ASSUME NEW n \in Int
  PROVE  /\ SixDecimals(n) \in Int
         /\ (3 * SixDecimals(n)) % 3 = 0
         /\ 3 * SixDecimals(n) - n \in -1 .. 1
  BY DEF SixDecimals

\* so a duration gains or loses no more than one frame.
LEMMA OneFrame ==
  ASSUME NEW n \in Nat
  PROVE  /\ BlockingFrames(SixDecimals(n)) \in Nat
         /\ BlockingFrames(SixDecimals(n)) - StagedFrames(n) \in -1 .. 1
<1> DEFINE k == SixDecimals(n)
           f == n \div 120000
           m == (k + 20000) \div 40000
           blocking == BlockingFrames(k)
           staged == StagedFrames(n)
<1>1. k \in Nat /\ f \in Nat /\ k = (n + 1) \div 3
  BY DEF SixDecimals
<1>2. blocking \in Nat /\ blocking \in {m, m - 1}
  BY <1>1, BlockingBetween
<1>3. staged \in {f, f - 1} /\ (n % 120000 # 0 => staged = f)
  BY StagedBetween
<1>4. m \in {f, f + 1} /\ (n % 120000 = 0 => m = f)
  BY <1>1
<1> HIDE DEF k, f, m, blocking, staged
<1>5. m \in Int /\ f \in Int
  BY <1>1, <1>4
<1>6. blocking - staged \in -1 .. 1
  <2>1. CASE n % 120000 = 0
    BY <1>2, <1>3, <1>4, <1>5, <2>1
  <2>2. CASE n % 120000 # 0
    BY <1>2, <1>3, <1>4, <1>5, <2>2
  <2> QED BY <2>1, <2>2
<1> QED BY <1>2, <1>6 DEF blocking, staged, k

\* A duration a little longer than a number of frames gives that number.
LEMMA StagedJust ==
  ASSUME NEW f \in Nat
  PROVE  StagedFrames(120000 * f + 1) = f
<1>1. PICK n \in Nat : n = 120000 * f + 1
  OBVIOUS
<1>2. n % 120000 = 1 /\ n \div 120000 = f
  BY <1>1
<1>3. n % 120000 # 0
  BY <1>2
<1>4. StagedFrames(n) = n \div 120000
  BY <1>3, StagedBetween
<1> QED BY <1>1, <1>2, <1>4

\* The request the session is taken to read has as many frames as it makes.
LEMMA NativeFrames ==
  ASSUME NEW n \in Nat
  PROVE  StagedFrames(NativeDuration(n)) = BlockingFrames(SixDecimals(n))
<1> DEFINE frames == BlockingFrames(SixDecimals(n))
<1>1. frames \in Nat
  BY OneFrame
<1>2. NativeDuration(n) = IF frames = StagedFrames(n) THEN n ELSE 120000 * frames + 1
  BY DEF NativeDuration
<1> HIDE DEF frames
<1>3. StagedFrames(NativeDuration(n)) = frames
  BY <1>1, <1>2, StagedJust
<1> QED BY <1>3 DEF frames

(***************************************************************************)
(* In every run the song the blocking path writes is that of an            *)
(* uninterrupted staged run of a request that differs from the client's in *)
(* no more than this: its scales are rounded to six decimals, and it may   *)
(* ask for one frame more or less.  This is so whatever the documents, the *)
(* components, the window geometry, the frame at which audio ends and the  *)
(* steps.                                                                  *)
(***************************************************************************)
THEOREM BlockingSongHolds == Spec => []BlockingSongExact
<1>1. Init => SongInv
  BY DEF Init, TravelsInit, BlockingInit, SongInv, Returned
<1>2. SongInv => BlockingSongExact
  <2> SUFFICES ASSUME SongInv, wav # None PROVE BlockingSongExact
    BY DEF BlockingSongExact
  <2> DEFINE r == Read(doc)
             q == NativeRequest(r)
  <2>1. Accepts(doc) /\ doc \in Documents
    BY DEF SongInv
  <2>2. PICK c \in Components :
          /\ wav.req = q
          /\ wav.pieces = RefSong(c, q)
          /\ wav.rate = q.output_sample_rate
    BY DEF SongInv, WavOfRequest, Played
  <2>3. /\ r \in Requests /\ q \in Requests
        /\ r.duration \in Nat /\ Target[r] = StagedFrames(r.duration)
        /\ Target[q] = StagedFrames(q.duration)
    BY <2>1, RequestsAssumption
  <2>4. r.ar_cfg_scale \in Int /\ r.flow_cfg_scale \in Int
    BY <2>1, DocumentsAssumption, ReadRegular DEF Accepts, Regular, RequestFields
  <2>5. /\ q = [r EXCEPT !.duration = NativeDuration(r.duration),
                         !.ar_cfg_scale = 3 * SixDecimals(r.ar_cfg_scale),
                         !.flow_cfg_scale = 3 * SixDecimals(r.flow_cfg_scale)]
        /\ q.duration = NativeDuration(r.duration)
        /\ q.ar_cfg_scale = 3 * SixDecimals(r.ar_cfg_scale)
        /\ q.flow_cfg_scale = 3 * SixDecimals(r.flow_cfg_scale)
        /\ q.output_sample_rate = r.output_sample_rate
    BY DEF NativeRequest, Read
  <2> HIDE DEF r, q
  <2>6. /\ NearestOfSix(q.ar_cfg_scale, r.ar_cfg_scale)
        /\ NearestOfSix(q.flow_cfg_scale, r.flow_cfg_scale)
    BY <2>4, <2>5, NearestDecimals DEF NearestOfSix
  <2>7. Target[q] = BlockingFrames(SixDecimals(r.duration))
    BY <2>3, <2>5, NativeFrames
  <2>8. Target[q] - Target[r] \in -1 .. 1
    BY <2>3, <2>7, OneFrame
  <2>9. ASSUME Target[q] - Target[r] = 0
        PROVE  q.duration = r.duration
    <3>1. BlockingFrames(SixDecimals(r.duration)) \in Int /\ StagedFrames(r.duration) \in Int
      BY <2>3, OneFrame, StagedBetween
    <3>2. BlockingFrames(SixDecimals(r.duration)) = StagedFrames(r.duration)
      BY <2>3, <2>7, <2>9, <3>1
    <3> QED BY <2>5, <3>2 DEF NativeDuration
  <2> QED BY <2>2, <2>5, <2>6, <2>8, <2>9 DEF BlockingSongExact, r
<1> QED BY <1>1, <1>2, SongStep, PTL DEF Spec

-----------------------------------------------------------------------------
(***************************************************************************)
(* Sequences of sections.  Joining them one by one takes each to its place.*)
(***************************************************************************)

\* Two sequences joined.
LEMMA Joined ==
  ASSUME NEW U, NEW a \in Seq(U), NEW b \in Seq(U)
  PROVE  /\ a \o b \in Seq(U)
         /\ Len(a) \in Nat /\ Len(b) \in Nat /\ Len(a \o b) = Len(a) + Len(b)
         /\ \A k \in 1 .. Len(a) : (a \o b)[k] = a[k]
         /\ \A k \in 1 .. Len(b) : (a \o b)[Len(a) + k] = b[k]
  OBVIOUS

\* A part of a sequence is a sequence, item by item.
LEMMA Slice ==
  ASSUME NEW U, NEW s \in Seq(U), NEW p, NEW a \in Nat, p \in Seq(U), a + Len(p) <= Len(s),
         \A k \in 1 .. Len(p) : s[a + k] = p[k]
  PROVE  SubSeq(s, a + 1, a + Len(p)) = p
<1>1. Len(p) \in Nat /\ Len(s) \in Nat
  OBVIOUS
<1> DEFINE q == SubSeq(s, a + 1, a + Len(p))
<1>2. \A k \in a + 1 .. a + Len(p) : s[k] \in U
  BY <1>1
<1>3. /\ q \in Seq(U) /\ Len(q) = Len(p)
      /\ \A k \in 1 .. Len(p) : q[k] = s[a + k]
  BY <1>1, <1>2
<1> HIDE DEF q
<1>4. \A k \in 1 .. Len(p) : q[k] = p[k]
  BY <1>3
<1> QED BY <1>1, <1>3, <1>4 DEF q

(***************************************************************************)
(* Sequences one after another.  Runs(s, t): t[i] is the first i sequences *)
(* of s joined.                                                            *)
(***************************************************************************)
Runs(U, s, t) ==
  /\ s \in Seq(Seq(U))
  /\ \A i \in 0 .. Len(s) : t[i] \in Seq(U)
  /\ t[0] = <<>>
  /\ \A i \in 1 .. Len(s) : t[i] = t[i - 1] \o s[i]

\* The first wrong number of a range that begins right comes after a right one.
LEMMA Least0 ==
  ASSUME NEW a \in Nat, NEW b \in Nat, NEW Wrong \in SUBSET (a .. b), Wrong # {}, a \notin Wrong
  PROVE  \E n \in a + 1 .. b : n \in Wrong /\ n - 1 \in a .. b /\ n - 1 \notin Wrong
<1>1. PICK n \in Wrong : \A m \in Wrong : n <= m
  <2>1. Wrong \in SUBSET Nat
    OBVIOUS
  <2> QED BY <2>1, LeastNumber
<1>2. n \in a .. b /\ n # a
  BY <1>1
<1>3. n \in a + 1 .. b /\ n - 1 \in a .. b /\ ~ (n <= n - 1)
  BY <1>2
<1> QED BY <1>1, <1>3

\* There are such t,
LEMMA RunsExist ==
  ASSUME NEW U, NEW s \in Seq(Seq(U))
  PROVE  \E t : Runs(U, s, t)
<1> DEFINE Good(n) == \E t :
                        /\ \A i \in 0 .. n : t[i] \in Seq(U)
                        /\ t[0] = <<>>
                        /\ \A i \in 1 .. n : t[i] = t[i - 1] \o s[i]
           Wrong == {n \in 0 .. Len(s) : ~Good(n)}
<1>1. Len(s) \in Nat /\ \A i \in 1 .. Len(s) : s[i] \in Seq(U)
  OBVIOUS
<1>2. Good(0)
  <2> DEFINE t == [i \in 0 .. 0 |-> <<>>]
  <2>1. (\A i \in 0 .. 0 : t[i] \in Seq(U)) /\ t[0] = <<>> /\ 1 .. 0 = {}
    OBVIOUS
  <2> HIDE DEF t
  <2> QED BY <2>1
<1>3. ASSUME NEW n \in 1 .. Len(s), Good(n - 1) PROVE Good(n)
  <2>1. PICK t :
          /\ \A i \in 0 .. n - 1 : t[i] \in Seq(U)
          /\ t[0] = <<>>
          /\ \A i \in 1 .. n - 1 : t[i] = t[i - 1] \o s[i]
    BY <1>3
  <2> DEFINE joined == t[n - 1] \o s[n]
             u == [i \in 0 .. n |-> IF i = n THEN joined ELSE t[i]]
  <2>2. joined \in Seq(U)
    <3>1. t[n - 1] \in Seq(U) /\ s[n] \in Seq(U)
      BY <1>1, <2>1
    <3> QED BY <3>1, Joined
  <2>4. u[n] = joined /\ \A i \in 0 .. n - 1 : u[i] = t[i]
    <3> HIDE DEF joined
    <3> QED OBVIOUS
  <2> HIDE DEF u
  <2>3. \A i \in 0 .. n : u[i] \in Seq(U)
    <3> HIDE DEF joined
    <3>1. \A i \in 0 .. n : i = n \/ i \in 0 .. n - 1
      OBVIOUS
    <3> QED BY <2>1, <2>2, <2>4, <3>1
  <2>5. n - 1 \in 0 .. n - 1 /\ 0 \in 0 .. n - 1 /\ n \in Nat
    OBVIOUS
  <2>6. u[0] = <<>>
    BY <2>1, <2>4, <2>5
  <2>7. ASSUME NEW i \in 1 .. n PROVE u[i] = u[i - 1] \o s[i]
    <3>1. CASE i = n
      BY <3>1, <2>4, <2>5
    <3>2. CASE i # n
      <4>1. i \in 1 .. n - 1 /\ i \in 0 .. n - 1 /\ i - 1 \in 0 .. n - 1
        BY <2>7, <3>2
      <4> QED BY <4>1, <2>1, <2>4
    <3> QED BY <3>1, <3>2
  <2> QED BY <2>3, <2>6, <2>7
<1> HIDE DEF Good
<1>4. Wrong = {}
  <2> SUFFICES ASSUME Wrong # {} PROVE FALSE
    OBVIOUS
  <2>1. Wrong \in SUBSET (0 .. Len(s)) /\ 0 \notin Wrong
    BY <1>2
  <2>2. PICK n \in 0 + 1 .. Len(s) : n \in Wrong /\ n - 1 \in 0 .. Len(s) /\ n - 1 \notin Wrong
    <3> HIDE DEF Wrong
    <3> QED BY <1>1, <2>1, Least0
  <2>3. Good(n - 1) /\ n \in 1 .. Len(s) /\ ~Good(n)
    BY <2>2
  <2> QED BY <1>3, <2>3
<1>5. Good(Len(s))
  BY <1>1, <1>4
<1> QED BY <1>1, <1>5, Zenon DEF Good, Runs

\* which are sequences,
LEMMA RunsParts ==
  ASSUME NEW U, NEW s, NEW t, Runs(U, s, t)
  PROVE  /\ s \in Seq(Seq(U)) /\ Len(s) \in Nat
         /\ \A i \in 1 .. Len(s) : s[i] \in Seq(U)
         /\ \A i \in 0 .. Len(s) : t[i] \in Seq(U) /\ Len(t[i]) \in Nat
         /\ t[0] = <<>> /\ Len(t[0]) = 0
<1>1. s \in Seq(Seq(U)) /\ t[0] = <<>> /\ \A i \in 0 .. Len(s) : t[i] \in Seq(U)
  BY Zenon DEF Runs
<1> QED BY <1>1

\* FlattenSeq is the last of them.
LEMMA FlattenRuns ==
  ASSUME NEW U, NEW s, NEW t, Runs(U, s, t)
  PROVE  FlattenSeq(s) = t[Len(s)]
<1> DEFINE n == Len(s)
           F(g) == [i \in 1 .. n |-> IF i = 1 THEN s[i] ELSE g[i - 1] \o s[i]]
           flatten[i \in 1 .. n] == IF i = 1 THEN s[i] ELSE flatten[i - 1] \o s[i]
           u == [i \in 1 .. n |-> t[i]]
<1>1. n \in Nat /\ s \in Seq(Seq(U)) /\ t[0] = <<>>
  BY RunsParts
<1>2. CASE n = 0
  <2>1. s = <<>>
    BY <1>1, <1>2
  <2> QED BY <1>1, <1>2, <2>1 DEF FlattenSeq
<1>3. CASE n > 0
  <2>1. u = F(u)
    <3>1. t[1] = s[1]
      <4>1. 1 \in 1 .. n
        BY <1>1, <1>3
      <4>2. s[1] \in Seq(U) /\ t[1] = t[1 - 1] \o s[1]
        <5>1. t[1] = t[1 - 1] \o s[1]
          BY <4>1, Zenon DEF Runs
        <5> QED BY <4>1, <5>1, RunsParts
      <4>4. 1 - 1 = 0
        OBVIOUS
      <4>3. t[1] = <<>> \o s[1]
        BY <1>1, <4>2, <4>4
      <4> QED BY <4>2, <4>3
    <3>2. ASSUME NEW i \in 1 .. n
          PROVE  u[i] = IF i = 1 THEN s[i] ELSE u[i - 1] \o s[i]
      <4>1. CASE i = 1
        BY <3>1, <4>1
      <4>2. CASE i # 1
        <5>1. t[i] = t[i - 1] \o s[i]
          BY <3>2, Zenon DEF Runs
        <5>2. i - 1 \in 1 .. n
          BY <1>1, <3>2, <4>2
        <5>3. u[i] = t[i] /\ u[i - 1] = t[i - 1]
          BY <3>2, <5>2
        <5> QED BY <4>2, <5>1, <5>3
      <4> QED BY <4>1, <4>2
    <3> HIDE DEF n
    <3> QED BY <3>2
  <2>2. flatten = CHOOSE g : g = F(g)
    BY Zenon DEF flatten
  <2> HIDE DEF flatten, F
  <2>3. flatten = F(flatten)
    BY <2>1, <2>2, Zenon
  <2>4. \A i \in 1 .. n : flatten[i] = IF i = 1 THEN s[i] ELSE flatten[i - 1] \o s[i]
    BY <2>3 DEF F
  <2>5. \A i \in 1 .. n : u[i] = IF i = 1 THEN s[i] ELSE u[i - 1] \o s[i]
    BY <2>1 DEF F
  <2> HIDE DEF n, u
  <2> DEFINE Wrong == {i \in 1 .. n : flatten[i] # u[i]}
  <2>6. Wrong = {}
    <3> SUFFICES ASSUME Wrong # {} PROVE FALSE
      OBVIOUS
    <3>1. Wrong \in SUBSET (1 .. n) /\ 1 \notin Wrong
      BY <1>1, <1>3, <2>4, <2>5
    <3>2. PICK x \in 1 + 1 .. n : x \in Wrong /\ x - 1 \in 1 .. n /\ x - 1 \notin Wrong
      <4> HIDE DEF Wrong
      <4> QED BY <1>1, <3>1, Least0
    <3>3. x \in 1 .. n /\ x # 1 /\ flatten[x - 1] = u[x - 1] /\ flatten[x] # u[x]
      BY <3>2
    <3> QED BY <2>4, <2>5, <3>3
  <2>7. flatten[n] = u[n]
    BY <1>1, <1>3, <2>6
  <2>8. n # 0
    BY <1>3
  <2>9. FlattenSeq(s) = flatten[n]
    BY <2>8, Zenon DEF FlattenSeq, flatten, n
  <2> QED BY <1>1, <1>3, <2>7, <2>9 DEF u, n
<1> QED BY <1>1, <1>2, <1>3

\* The runs of what comes first are the first runs.
LEMMA FlattenPrefix ==
  ASSUME NEW U, NEW s, NEW t, Runs(U, s, t),
         NEW i \in 0 .. Len(s)
  PROVE  FlattenSeq(SubSeq(s, 1, i)) = t[i]
<1> DEFINE p == SubSeq(s, 1, i)
           u == [k \in 0 .. i |-> t[k]]
<1>1. p \in Seq(Seq(U)) /\ Len(p) = i /\ \A k \in 1 .. i : p[k] = s[k]
  BY RunsParts
<1>2. i \in Nat /\ 0 .. i \subseteq 0 .. Len(s) /\ \A k \in 0 .. i : u[k] = t[k]
  BY RunsParts
<1> HIDE DEF p, u
<1>3. Runs(U, p, u)
  <2>1. u[0] = <<>>
    BY <1>2, RunsParts
  <2>2. \A k \in 0 .. i : u[k] \in Seq(U)
    BY <1>2, RunsParts
  <2>3. ASSUME NEW k \in 1 .. i PROVE u[k] = u[k - 1] \o p[k]
    <3>1. k \in 0 .. i /\ k - 1 \in 0 .. i /\ k \in 1 .. Len(s)
      BY <1>2, <2>3, RunsParts
    <3>2. t[k] = t[k - 1] \o s[k]
      BY <3>1, Zenon DEF Runs
    <3>3. u[k] = t[k] /\ u[k - 1] = t[k - 1] /\ p[k] = s[k]
      BY <1>1, <1>2, <3>1
    <3> QED BY <3>2, <3>3
  <2> QED BY <1>1, <2>1, <2>2, <2>3, Zenon DEF Runs
<1>4. FlattenSeq(p) = u[Len(p)]
  BY <1>3, FlattenRuns, Zenon
<1>5. u[i] = t[i]
  BY <1>2
<1> QED BY <1>1, <1>4, <1>5 DEF p

\* What was joined first stays in front, whatever is joined to it.
LEMMA RunsGrow ==
  ASSUME NEW U, NEW s, NEW t, Runs(U, s, t),
         NEW i \in 0 .. Len(s), NEW j \in i .. Len(s)
  PROVE  /\ Len(t[i]) <= Len(t[j])
         /\ \A k \in 1 .. Len(t[i]) : t[j][k] = t[i][k]
<1> DEFINE Good(m) == /\ Len(t[i]) <= Len(t[m])
                      /\ \A k \in 1 .. Len(t[i]) : t[m][k] = t[i][k]
           Wrong == {m \in i .. Len(s) : ~Good(m)}
<1>1. Len(s) \in Nat /\ \A m \in 0 .. Len(s) : t[m] \in Seq(U) /\ Len(t[m]) \in Nat
  BY RunsParts
<1>2. Good(i)
  BY <1>1
<1>3. ASSUME NEW m \in i + 1 .. Len(s), Good(m - 1) PROVE Good(m)
  <2>1. m \in 1 .. Len(s)
    BY <1>1
  <2> DEFINE a == t[m - 1]  b == s[m]
  <2>2. a \in Seq(U) /\ b \in Seq(U) /\ t[m] = a \o b
    <3>1. t[m] = t[m - 1] \o s[m]
      BY <2>1, Zenon DEF Runs
    <3>2. m - 1 \in 0 .. Len(s)
      BY <2>1, RunsParts
    <3> QED BY <2>1, <3>1, <3>2, RunsParts
  <2>3. Len(t[i]) \in Nat /\ Len(t[i]) <= Len(a) /\ \A k \in 1 .. Len(t[i]) : a[k] = t[i][k]
    BY <1>1, <1>3
  <2> HIDE DEF a, b
  <2>4. /\ Len(a) \in Nat /\ Len(b) \in Nat /\ Len(a \o b) = Len(a) + Len(b)
        /\ \A k \in 1 .. Len(a) : (a \o b)[k] = a[k]
    BY <2>2, Joined
  <2> QED BY <2>2, <2>3, <2>4
<1> HIDE DEF Good
<1>4. Wrong = {}
  <2> SUFFICES ASSUME Wrong # {} PROVE FALSE
    OBVIOUS
  <2>1. Wrong \in SUBSET (i .. Len(s)) /\ i \notin Wrong /\ i \in Nat
    BY <1>2
  <2>2. PICK m \in i + 1 .. Len(s) : m \in Wrong /\ m - 1 \in i .. Len(s) /\ m - 1 \notin Wrong
    <3> HIDE DEF Wrong
    <3> QED BY <1>1, <2>1, Least0
  <2>3. Good(m - 1) /\ ~Good(m)
    BY <2>2
  <2> QED BY <1>3, <2>2, <2>3
<1>5. Good(j)
  BY <1>4
<1> QED BY <1>5 DEF Good

\* One sequence is as long as two others together.
Longer(x, y, z) == Len(x) = Len(y) + Len(z)

\* A sequence is found again between the run before it and its own.
LEMMA RunsSlice ==
  ASSUME NEW U, NEW s, NEW t, Runs(U, s, t),
         NEW i \in 1 .. Len(s)
  PROVE  /\ Longer(t[i], t[i - 1], s[i])
         /\ SubSeq(t[Len(s)], Len(t[i - 1]) + 1, Len(t[i])) = s[i]
<1>0. Len(s) \in Nat /\ i \in 0 .. Len(s) /\ i - 1 \in 0 .. Len(s) /\ Len(s) \in i .. Len(s)
  BY RunsParts
<1> DEFINE w == t[Len(s)]
           a == Len(t[i - 1])
<1>1. w \in Seq(U) /\ Len(w) \in Nat
  <2>1. Len(s) \in 0 .. Len(s)
    BY <1>0
  <2> QED BY <2>1, RunsParts, Zenon
<1>2. /\ Len(t[i]) = a + Len(s[i])
      /\ \A k \in 1 .. Len(s[i]) : t[i][a + k] = s[i][k]
  <2> DEFINE p == t[i - 1]  q == s[i]
  <2>1. p \in Seq(U) /\ q \in Seq(U) /\ t[i] = p \o q
    <3>1. t[i] = t[i - 1] \o s[i]
      BY Zenon DEF Runs
    <3> QED BY <1>0, <3>1, RunsParts
  <2> HIDE DEF p, q
  <2>2. /\ Len(p \o q) = Len(p) + Len(q)
        /\ \A k \in 1 .. Len(q) : (p \o q)[Len(p) + k] = q[k]
    BY <2>1, Joined
  <2> QED BY <2>1, <2>2, Zenon DEF p, q
<1>6. s[i] \in Seq(U) /\ Len(s[i]) \in Nat /\ a \in Nat
  BY <1>0, RunsParts
<1>3. Len(t[i]) <= Len(w) /\ \A k \in 1 .. Len(t[i]) : w[k] = t[i][k]
  BY <1>0, RunsGrow
<1> HIDE DEF w, a
<1>4. ASSUME NEW k \in 1 .. Len(s[i]) PROVE w[a + k] = s[i][k]
  <2>1. a + k \in 1 .. Len(t[i])
    BY <1>2, <1>4, <1>6
  <2> QED BY <1>2, <1>3, <2>1
<1>5. SubSeq(w, a + 1, a + Len(s[i])) = s[i]
  BY <1>1, <1>2, <1>3, <1>4, <1>6, Slice
<1> QED BY <1>2, <1>5 DEF w, a, Longer

\* What is joined is made of the items of the sequences, and of nothing else.
LEMMA RunsItems ==
  ASSUME NEW U, NEW s, NEW t, Runs(U, s, t),
         NEW k \in 1 .. Len(t[Len(s)])
  PROVE  \E i \in 1 .. Len(s) : \E m \in 1 .. Len(s[i]) : t[Len(s)][k] = s[i][m]
<1> DEFINE Wrong == {j \in 0 .. Len(s) : k <= Len(t[j])}
<1>1. Len(s) \in Nat /\ \A m \in 0 .. Len(s) : t[m] \in Seq(U) /\ Len(t[m]) \in Nat
  BY RunsParts
<1>2. Wrong \in SUBSET (0 .. Len(s)) /\ Len(s) \in Wrong
  BY <1>1
<1>3. 0 \notin Wrong
  BY <1>1, RunsParts
<1>4. PICK j \in 0 + 1 .. Len(s) : j \in Wrong /\ j - 1 \in 0 .. Len(s) /\ j - 1 \notin Wrong
  <2> HIDE DEF Wrong
  <2> QED BY <1>1, <1>2, <1>3, Least0
<1>5. j \in 1 .. Len(s) /\ j \in 0 .. Len(s) /\ k <= Len(t[j]) /\ ~ (k <= Len(t[j - 1]))
  BY <1>4
<1>6. /\ Len(t[j]) = Len(t[j - 1]) + Len(s[j])
      /\ \A x \in 1 .. Len(s[j]) : t[j][Len(t[j - 1]) + x] = s[j][x]
  <2> DEFINE p == t[j - 1]  q == s[j]
  <2>1. p \in Seq(U) /\ q \in Seq(U) /\ t[j] = p \o q
    <3>1. t[j] = t[j - 1] \o s[j]
      BY <1>5, Zenon DEF Runs
    <3> QED BY <1>4, <1>5, <3>1, RunsParts
  <2> HIDE DEF p, q
  <2>2. /\ Len(p \o q) = Len(p) + Len(q)
        /\ \A x \in 1 .. Len(q) : (p \o q)[Len(p) + x] = q[x]
    BY <2>1, Joined
  <2> QED BY <2>1, <2>2, Zenon DEF p, q
<1>9. Len(t[j - 1]) \in Nat /\ s[j] \in Seq(U) /\ Len(s[j]) \in Nat
  BY <1>4, <1>5, RunsParts
<1> DEFINE a == Len(t[j - 1])  m == k - a
<1>7. m \in 1 .. Len(s[j]) /\ t[j][k] = s[j][m]
  <2>1. k \in Nat
    BY <1>1
  <2>2. m \in 1 .. Len(s[j]) /\ a + m = k
    <3> HIDE DEF a
    <3>1. a \in Nat /\ ~ (k <= a) /\ k <= a + Len(s[j]) /\ Len(s[j]) \in Nat
      BY <1>5, <1>6, <1>9 DEF a
    <3> QED BY <2>1, <3>1
  <2> HIDE DEF m
  <2> QED BY <1>6, <2>2 DEF a
<1>8. t[Len(s)][k] = t[j][k]
  <2>1. Len(s) \in j .. Len(s) /\ k \in 1 .. Len(t[j])
    BY <1>1, <1>5
  <2> QED BY <1>5, <2>1, RunsGrow
<1> QED BY <1>5, <1>7, <1>8, Zenon

-----------------------------------------------------------------------------
(***************************************************************************)
(* The layout of encode: where every section of a file begins and ends.    *)
(***************************************************************************)

\* The fields of a file.
BlobFields ==
  {"magic", "version", "stage", "count", "header", "total", "digest", "directory",
   "payload"}

\* Sections whose bytes are items of U.
SectionList(U, secs) ==
  Len(secs) \in Nat /\ \A i \in 1 .. Len(secs) : secs[i].bytes \in Seq(U)

\* Sealing sets the digest, and the digest of what is sealed is that digest.
LEMMA SealedDigest ==
  ASSUME NEW b, DOMAIN b = BlobFields
  PROVE  /\ DOMAIN Sealed(b) = BlobFields
         /\ Sealed(b).digest = Digest(Sealed(b))
         /\ \A x \in BlobFields \ {"digest"} : Sealed(b)[x] = b[x]
         /\ Sealed(b) = [x \in BlobFields |-> Sealed(b)[x]]
<1> DEFINE f == Sealed(b)
<1>1. DOMAIN f = BlobFields /\ f.digest = Digest(b)
      /\ \A x \in BlobFields \ {"digest"} : f[x] = b[x]
  BY DEF Sealed, BlobFields
<1>2. Digest(f) = Digest(b)
  BY DEF Sealed, Digest
<1>3. f = [x \in BlobFields |-> f[x]]
  BY <1>1 DEF Sealed
<1> QED BY <1>1, <1>2, <1>3

\* The bytes of the sections can be joined one after another.
LEMMA EncodeParts ==
  ASSUME NEW U, NEW secs, SectionList(U, secs)
  PROVE  \E t : Runs(U, BytesOf(secs), t)
<1>1. BytesOf(secs) \in Seq(Seq(U))
  BY DEF SectionList, BytesOf
<1> QED BY <1>1, RunsExist

\* The bytes of the sections, section by section.
LEMMA BytesParts ==
  ASSUME NEW U, NEW secs, SectionList(U, secs)
  PROVE  /\ BytesOf(secs) \in Seq(Seq(U)) /\ Len(BytesOf(secs)) = Len(secs)
         /\ \A i \in 1 .. Len(secs) : BytesOf(secs)[i] = secs[i].bytes
  BY DEF SectionList, BytesOf

\* A section begins behind the header and the sections before it.
StartsAfter(secs, i, run) == Start(secs, i) = HeaderOf(Len(secs)) + Len(run)

\* Start is where the sections before end.
LEMMA StartAt ==
  ASSUME NEW U, NEW secs, SectionList(U, secs), NEW t, Runs(U, BytesOf(secs), t),
         NEW i \in 1 .. Len(secs) + 1
  PROVE  StartsAfter(secs, i, t[i - 1])
<1>1. i - 1 \in 0 .. Len(BytesOf(secs))
  <2>1. Len(secs) \in Nat
    BY DEF SectionList
  <2>2. Len(BytesOf(secs)) = Len(secs)
    BY BytesParts
  <2> QED BY <2>1, <2>2
<1>2. FlattenSeq(SubSeq(BytesOf(secs), 1, i - 1)) = t[i - 1]
  BY <1>1, FlattenPrefix
<1> QED BY <1>2 DEF Start, StartsAfter

(***************************************************************************)
(* What encode lays out.                                                   *)
(***************************************************************************)
Laid(f, magic, stage, secs) ==
  /\ DOMAIN f = BlobFields /\ f = [x \in BlobFields |-> f[x]]
  /\ f.magic = magic /\ f.version = FormatVersion /\ f.stage = stage
  /\ f.count = Len(secs) /\ Len(f.directory) = Len(secs)
  /\ f.header = HeaderOf(Len(secs))
  /\ f.digest = Digest(f)
  /\ f.total = FileBytes(f)

\* The i-th entry of the directory names the i-th section and where its bytes are.
LaidSection(f, secs, i) ==
  /\ f.directory[i].kind = secs[i].kind
  /\ f.directory[i].size = Len(secs[i].bytes)
  /\ Begin(f, i) \in Nat /\ Begin(f, i) >= f.header /\ End(f, i) <= f.total
  /\ SectionBytes(f, i) = secs[i].bytes

\* One section ends before another begins.
Behind(f, i, j) == End(f, i) <= Begin(f, j)

\* An item of the payload is an item of a section.
MadeOfSections(f, secs, k) ==
  \E i \in 1 .. Len(secs) : \E m \in 1 .. Len(secs[i].bytes) :
    f.payload[k] = secs[i].bytes[m]

\* encode: the entries are in order, do not overlap and hold their sections.
LEMMA EncodeLaid ==
  ASSUME NEW U, NEW secs, SectionList(U, secs), NEW magic, NEW stage,
         NEW f, f = Encode(magic, stage, secs)
  PROVE  /\ Laid(f, magic, stage, secs)
         /\ f.payload \in Seq(U)
         /\ \A i \in 1 .. Len(secs) : LaidSection(f, secs, i)
         /\ \A i, j \in 1 .. Len(secs) : i < j => Behind(f, i, j)
         /\ \A k \in 1 .. Len(f.payload) : MadeOfSections(f, secs, k)
<1> DEFINE n == Len(secs)
           s == BytesOf(secs)
           b == [magic |-> magic, version |-> FormatVersion, stage |-> stage,
                 count |-> Len(secs), header |-> HeaderOf(Len(secs)),
                 total |-> Total(secs), digest |-> Zeroed,
                 directory |-> [i \in 1 .. Len(secs) |->
                           [kind |-> secs[i].kind,
                            offset |-> Start(secs, i),
                            size |-> Len(secs[i].bytes)]],
                 payload |-> FlattenSeq(BytesOf(secs))]
<1>1. PICK t : Runs(U, s, t)
  BY EncodeParts
<1>2. n \in Nat /\ s \in Seq(Seq(U)) /\ Len(s) = n
      /\ \A i \in 1 .. n :
           s[i] = secs[i].bytes /\ secs[i].bytes \in Seq(U) /\ Len(secs[i].bytes) \in Nat
  <2>1. \A i \in 1 .. n : secs[i].bytes \in Seq(U)
    BY DEF SectionList
  <2>2. \A i \in 1 .. n : Len(secs[i].bytes) \in Nat
    BY <2>1
  <2> QED BY <2>1, <2>2, BytesParts DEF SectionList
<1>3. DOMAIN b = BlobFields
  BY DEF BlobFields
<1>4. f = Sealed(b)
  BY DEF Encode
<1>0. SectionList(U, secs) /\ n = Len(secs)
  OBVIOUS
<1>5. /\ b.magic = magic /\ b.version = FormatVersion /\ b.stage = stage
      /\ b.count = n /\ b.header = HeaderOf(n) /\ b.total = Total(secs)
      /\ b.payload = FlattenSeq(s)
      /\ b.directory = [i \in 1 .. n |->
                           [kind |-> secs[i].kind,
                            offset |-> Start(secs, i),
                            size |-> Len(secs[i].bytes)]]
  OBVIOUS
<1> HIDE DEF b, n, s
<1>6. /\ DOMAIN f = BlobFields /\ f = [x \in BlobFields |-> f[x]]
      /\ f.magic = magic /\ f.version = FormatVersion /\ f.stage = stage
      /\ f.count = n /\ f.header = HeaderOf(n) /\ f.total = Total(secs)
      /\ f.payload = FlattenSeq(s) /\ f.digest = Digest(f)
      /\ f.directory = b.directory
  <2>1. /\ DOMAIN f = BlobFields /\ f = [x \in BlobFields |-> f[x]]
        /\ f.digest = Digest(f)
        /\ \A x \in BlobFields \ {"digest"} : f[x] = b[x]
    BY <1>3, <1>4, SealedDigest
  <2> QED BY <1>5, <2>1 DEF BlobFields
<1>7. /\ Len(f.directory) = n
      /\ \A i \in 1 .. n : /\ f.directory[i].kind = secs[i].kind
                           /\ f.directory[i].offset = Start(secs, i)
                           /\ f.directory[i].size = Len(secs[i].bytes)
  <2>1. f.directory = [i \in 1 .. n |-> [kind |-> secs[i].kind, offset |-> Start(secs, i),
                                         size |-> Len(secs[i].bytes)]]
    BY <1>5, <1>6
  <2>2. n \in Nat
    BY <1>2
  <2> QED BY <2>1, <2>2
<1>8. f.payload = t[n]
  <2>1. FlattenSeq(s) = t[Len(s)]
    BY <1>1, FlattenRuns
  <2> QED BY <1>2, <1>6, <2>1
<1>9. f.payload \in Seq(U) /\ Len(f.payload) \in Nat
  BY <1>1, <1>2, <1>8, RunsParts
<1>10. HeaderOf(n) \in Nat
  BY <1>2 DEF HeaderOf, FixedHeader, EntryBytes
<1>11. \A i \in 1 .. n + 1 : StartsAfter(secs, i, t[i - 1])
  <2> SUFFICES ASSUME NEW i \in 1 .. Len(secs) + 1
               PROVE  StartsAfter(secs, i, t[i - 1])
    BY DEF n
  <2> QED BY <1>1, StartAt DEF s
<1>12. f.total = FileBytes(f)
  <2>1. n + 1 \in 1 .. n + 1 /\ n + 1 - 1 = n
    BY <1>2
  <2>2. Start(secs, n + 1) = HeaderOf(n) + Len(t[n])
    <3> DEFINE m == n + 1
    <3>1. m \in 1 .. n + 1 /\ m - 1 = n
      BY <1>2
    <3> HIDE DEF m
    <3>2. StartsAfter(secs, m, t[m - 1])
      BY <1>11, <3>1, Zenon
    <3> QED BY <3>1, <3>2 DEF StartsAfter, n, m
  <2>3. f.total = HeaderOf(n) + Len(t[n])
    BY <1>6, <2>2 DEF Total, n
  <2>4. FileBytes(f) = HeaderOf(n) + Len(t[n])
    BY <1>7, <1>8 DEF FileBytes
  <2> QED BY <2>3, <2>4
<1>13. Laid(f, magic, stage, secs)
  BY <1>6, <1>7, <1>12 DEF Laid, n
<1>14. ASSUME NEW i \in 1 .. n
       PROVE  /\ i - 1 \in 0 .. n /\ i \in 0 .. n
              /\ Len(t[i - 1]) \in Nat /\ Len(t[i]) \in Nat
              /\ Len(t[i]) = Len(t[i - 1]) + Len(secs[i].bytes)
              /\ SubSeq(t[n], Len(t[i - 1]) + 1, Len(t[i])) = secs[i].bytes
              /\ Len(t[i]) <= Len(t[n])
              /\ Begin(f, i) = HeaderOf(n) + Len(t[i - 1])
              /\ End(f, i) = HeaderOf(n) + Len(t[i])
  <2>1. i - 1 \in 0 .. n /\ i \in 0 .. n /\ i \in 1 .. n + 1 /\ n \in i .. n
    BY <1>2
  <2>2. Len(t[i - 1]) \in Nat /\ Len(t[i]) \in Nat
    BY <1>1, <1>2, <2>1, RunsParts
  <2>3. /\ Len(t[i]) = Len(t[i - 1]) + Len(s[i])
        /\ SubSeq(t[n], Len(t[i - 1]) + 1, Len(t[i])) = s[i]
    <3>1. i \in 1 .. Len(s)
      BY <1>2
    <3>2. SubSeq(t[Len(s)], Len(t[i - 1]) + 1, Len(t[i])) = s[i]
      BY <1>1, <3>1, RunsSlice
    <3> DEFINE S == s
    <3> HIDE DEF S
    <3>3. Runs(U, S, t) /\ i \in 1 .. Len(S)
      BY <1>1, <3>1 DEF S
    <3>4. Longer(t[i], t[i - 1], S[i])
      BY <3>3, RunsSlice, Zenon
    <3> QED BY <1>2, <3>2, <3>4 DEF S, Longer
  <2>4. Len(t[i]) <= Len(t[n])
    BY <1>1, <1>2, <2>1, RunsGrow
  <2>5. Begin(f, i) = HeaderOf(n) + Len(t[i - 1])
    <3>1. StartsAfter(secs, i, t[i - 1])
      BY <1>11, <2>1, Zenon
    <3> QED BY <1>7, <3>1 DEF Begin, StartsAfter, n
  <2>6. End(f, i) = Begin(f, i) + Len(secs[i].bytes)
    BY <1>7 DEF Begin, End
  <2>7. s[i] = secs[i].bytes /\ Len(secs[i].bytes) \in Nat
    BY <1>2
  <2>8. End(f, i) = HeaderOf(n) + Len(t[i])
    <3> DEFINE x == Len(t[i - 1])  y == Len(t[i])  z == Len(secs[i].bytes)
    <3>1. x \in Nat /\ z \in Nat /\ y = x + z /\ End(f, i) = HeaderOf(n) + x + z
      BY <2>2, <2>3, <2>5, <2>6, <2>7
    <3> HIDE DEF x, y, z
    <3>2. End(f, i) = HeaderOf(n) + y
      BY <1>10, <3>1
    <3> QED BY <3>2 DEF y
  <2>9. Len(t[i]) = Len(t[i - 1]) + Len(secs[i].bytes)
    BY <2>3, <2>7
  <2>10. SubSeq(t[n], Len(t[i - 1]) + 1, Len(t[i])) = secs[i].bytes
    BY <2>3, <2>7
  <2> QED BY <2>1, <2>2, <2>4, <2>5, <2>8, <2>9, <2>10
<1>15. ASSUME NEW i \in 1 .. n PROVE LaidSection(f, secs, i)
  <2>1. f.header = HeaderOf(n) /\ f.total = HeaderOf(n) + Len(t[n]) /\ Len(t[n]) \in Nat
    BY <1>6, <1>7, <1>8, <1>9, <1>12 DEF FileBytes
  <2> DEFINE from == Len(t[i - 1])  to == Len(t[i])
  <2>2. /\ from \in Nat /\ to \in Nat /\ to <= Len(t[n])
        /\ Begin(f, i) = HeaderOf(n) + from /\ End(f, i) = HeaderOf(n) + to
        /\ SubSeq(t[n], from + 1, to) = secs[i].bytes
    BY <1>14
  <2> HIDE DEF from, to
  <2>3. Begin(f, i) \in Nat /\ Begin(f, i) >= f.header /\ End(f, i) <= f.total
    BY <1>10, <2>1, <2>2
  <2>4. Begin(f, i) - f.header + 1 = from + 1 /\ End(f, i) - f.header = to
    BY <1>10, <2>1, <2>2
  <2>5. SectionBytes(f, i) = secs[i].bytes
    BY <1>8, <2>2, <2>4 DEF SectionBytes
  <2> QED BY <1>7, <2>3, <2>5 DEF LaidSection
<1>16. ASSUME NEW i \in 1 .. n, NEW j \in 1 .. n, i < j PROVE Behind(f, i, j)
  <2>1. i \in 0 .. n /\ j - 1 \in i .. n
    BY <1>2, <1>16
  <2>2. Len(t[i]) <= Len(t[j - 1])
    BY <1>1, <1>2, <2>1, RunsGrow
  <2>3. End(f, i) = HeaderOf(n) + Len(t[i]) /\ Len(t[i]) \in Nat
    BY <1>14
  <2>4. Begin(f, j) = HeaderOf(n) + Len(t[j - 1]) /\ Len(t[j - 1]) \in Nat
    BY <1>14
  <2> QED BY <1>10, <2>2, <2>3, <2>4 DEF Behind
<1>17. ASSUME NEW k \in 1 .. Len(f.payload)
       PROVE  MadeOfSections(f, secs, k)
  <2>1. k \in 1 .. Len(t[Len(s)]) /\ f.payload[k] = t[Len(s)][k]
    BY <1>2, <1>8, <1>17
  <2>2. PICK i \in 1 .. Len(s) : \E m \in 1 .. Len(s[i]) : t[Len(s)][k] = s[i][m]
    BY <1>1, <2>1, RunsItems
  <2> QED BY <1>2, <2>1, <2>2 DEF MadeOfSections, n
<1> QED BY <1>9, <1>13, <1>15, <1>16, <1>17 DEF n

-----------------------------------------------------------------------------
(***************************************************************************)
(* What encode lays out, decode takes, and it finds every section again.   *)
(***************************************************************************)

\* A sequence of some items.
IsBytes(x) == \E V : x \in Seq(V)

\* The sections of a file of the engine: each has items, and its own kind.
Written(secs) ==
  /\ Len(secs) \in Nat
  /\ \A i \in 1 .. Len(secs) :
       /\ secs[i].kind \in SectionKinds
       /\ IsBytes(secs[i].bytes) /\ Len(secs[i].bytes) > 0
       /\ \A j \in 1 .. Len(secs) : secs[i].kind = secs[j].kind => i = j

\* Every item of every section.
ItemsOf(secs) ==
  UNION {{secs[i].bytes[k] : k \in 1 .. Len(secs[i].bytes)} : i \in 1 .. Len(secs)}

\* A sequence is one over any set that holds its items.
LEMMA BytesOfItems ==
  ASSUME NEW x, IsBytes(x), NEW U, \A k \in 1 .. Len(x) : x[k] \in U
  PROVE  x \in Seq(U) /\ Len(x) \in Nat
<1>1. PICK V : x \in Seq(V)
  BY DEF IsBytes
<1>2. x = [k \in 1 .. Len(x) |-> x[k]] /\ Len(x) \in Nat
  BY <1>1
<1> QED BY <1>2

\* The sections the engine writes are sections over their items.
LEMMA WrittenSections ==
  ASSUME NEW secs, Written(secs)
  PROVE  SectionList(ItemsOf(secs), secs)
<1>1. ASSUME NEW i \in 1 .. Len(secs) PROVE secs[i].bytes \in Seq(ItemsOf(secs))
  <2>1. \A k \in 1 .. Len(secs[i].bytes) : secs[i].bytes[k] \in ItemsOf(secs)
    <3> DEFINE Of(j) == {secs[j].bytes[k] : k \in 1 .. Len(secs[j].bytes)}
    <3>1. ItemsOf(secs) = UNION {Of(j) : j \in 1 .. Len(secs)}
      BY DEF ItemsOf
    <3>2. \A k \in 1 .. Len(secs[i].bytes) : secs[i].bytes[k] \in Of(i)
      OBVIOUS
    <3>3. Of(i) \in {Of(j) : j \in 1 .. Len(secs)}
      OBVIOUS
    <3> HIDE DEF Of
    <3> QED BY <3>1, <3>2, <3>3
  <2>2. IsBytes(secs[i].bytes)
    BY DEF Written
  <2> QED BY <2>1, <2>2, BytesOfItems
<1> QED BY <1>1 DEF SectionList, Written

\* What encode lays out, decode takes, and finds every section again.
LEMMA EncodeDecodes ==
  ASSUME NEW secs, Written(secs), NEW magic, NEW stage, NEW f, f = Encode(magic, stage, secs)
  PROVE  /\ Laid(f, magic, stage, secs)
         /\ Parsed(f) /\ IsBytes(f.payload)
         /\ \A i \in 1 .. Len(secs) : f.directory[i].size \in Nat /\ f.directory[i].size > 0
         /\ \A k \in 1 .. Len(f.payload) : MadeOfSections(f, secs, k)
         /\ stage # 0 /\ f.total <= MaxBlob => Decodes(f, magic)
<1> DEFINE U == ItemsOf(secs)  n == Len(secs)
<1> HIDE DEF U
<1>1. SectionList(U, secs) /\ n \in Nat
  BY WrittenSections DEF U, Written
<1>2. /\ Laid(f, magic, stage, secs) /\ f.payload \in Seq(U)
      /\ \A i \in 1 .. n : LaidSection(f, secs, i)
      /\ \A i, j \in 1 .. n : i < j => Behind(f, i, j)
      /\ \A k \in 1 .. Len(f.payload) : MadeOfSections(f, secs, k)
  BY <1>1, EncodeLaid
<1>3. /\ f.magic = magic /\ f.version = FormatVersion /\ f.stage = stage
      /\ f.count = n /\ Len(f.directory) = n /\ f.header = HeaderOf(n)
      /\ f.digest = Digest(f) /\ f.total = FileBytes(f)
  BY <1>2 DEF Laid
<1>4. ASSUME NEW i \in 1 .. n
      PROVE  /\ f.directory[i].kind = secs[i].kind /\ secs[i].kind \in SectionKinds
             /\ f.directory[i].size = Len(secs[i].bytes) /\ f.directory[i].size \in Nat
             /\ f.directory[i].size > 0
             /\ Begin(f, i) \in Nat /\ End(f, i) \in Nat /\ Begin(f, i) < End(f, i)
             /\ f.directory[i].offset \in Nat
             /\ InsideFile(f, i)
  <2>1. LaidSection(f, secs, i)
    BY <1>2
  <2>2. Len(secs[i].bytes) \in Nat /\ Len(secs[i].bytes) > 0 /\ secs[i].kind \in SectionKinds
    <3>1. secs[i].bytes \in Seq(U)
      BY <1>1 DEF SectionList
    <3> QED BY <3>1 DEF Written
  <2>3. f.directory[i].kind # NoKind
    BY <2>1, <2>2 DEF LaidSection, SectionKinds, NoKind
  <2> QED BY <2>1, <2>2, <2>3 DEF LaidSection, InsideFile, Begin, End
<1>5. f.directory \in Seq(Entry)
  <2>1. f.directory = [i \in 1 .. n |->
                           [kind |-> secs[i].kind,
                            offset |-> Start(secs, i),
                            size |-> Len(secs[i].bytes)]]
    BY SealedDigest DEF Encode, BlobFields
  <2>2. ASSUME NEW i \in 1 .. n
        PROVE  [kind |-> secs[i].kind, offset |-> Start(secs, i),
                size |-> Len(secs[i].bytes)] \in Entry
    <3>1. Start(secs, i) = f.directory[i].offset /\ Len(secs[i].bytes) = f.directory[i].size
      BY <2>1, <2>2
    <3> QED BY <1>4, <3>1 DEF Entry
  <2> QED BY <1>1, <2>1, <2>2
<1>6. Parsed(f)
  BY <1>1, <1>3, <1>5 DEF Parsed
<1>7. NoOverlap(f)
  <2> SUFFICES ASSUME NEW i \in 1 .. n, NEW j \in 1 .. n, Before(f, i, j)
               PROVE  End(f, i) <= Begin(f, j)
    BY <1>3 DEF NoOverlap, Neighbours, Sections
  <2>1. i < j
    <3>1. CASE j < i
      <4>1. End(f, j) <= Begin(f, i)
        BY <1>2, <3>1 DEF Behind
      <4> QED BY <1>4, <4>1 DEF Before
    <3> QED BY <1>1, <1>4, <3>1 DEF Before
  <2> QED BY <1>2, <2>1 DEF Behind
<1>8. stage # 0 /\ f.total <= MaxBlob => Decodes(f, magic)
  BY <1>1, <1>3, <1>4, <1>7 DEF Decodes, Sections
<1>9. IsBytes(f.payload)
  BY <1>2 DEF IsBytes
<1> QED BY <1>2, <1>4, <1>6, <1>8, <1>9

\* The i-th section is found again under its kind, the only one of it.
HeldAt(f, secs, i) ==
  /\ Held(f, secs[i].kind) = secs[i].bytes
  /\ Cardinality({j \in Sections(f) : f.directory[j].kind = secs[i].kind}) = 1

\* An item of the payload.
InPayload(f, cell) == \E k \in 1 .. Len(f.payload) : f.payload[k] = cell

\* A section of a written file is found by its kind, and its items are in the payload.
LEMMA OneSection ==
  ASSUME NEW secs, Written(secs), NEW magic, NEW stage, NEW f, f = Encode(magic, stage, secs),
         NEW i \in 1 .. Len(secs)
  PROVE  /\ HeldAt(f, secs, i)
         /\ \A m \in 1 .. Len(secs[i].bytes) : InPayload(f, secs[i].bytes[m])
<1> DEFINE U == ItemsOf(secs)  n == Len(secs)
<1> HIDE DEF U
<1>1. SectionList(U, secs) /\ n \in Nat
  BY WrittenSections DEF U, Written
<1>2. /\ f.count = n /\ f.payload \in Seq(U)
      /\ f.header = HeaderOf(n) /\ f.total = FileBytes(f) /\ Len(f.directory) = n
      /\ \A j \in 1 .. n : LaidSection(f, secs, j)
  BY <1>1, EncodeLaid DEF Laid
<1>3. Sections(f) = 1 .. n
  BY <1>2 DEF Sections
<1>4. ASSUME NEW j \in 1 .. n
      PROVE  f.directory[j].kind = secs[i].kind <=> j = i
  <2>1. f.directory[j].kind = secs[j].kind
    BY <1>2 DEF LaidSection
  <2> QED BY <2>1 DEF Written
<1>5. {j \in Sections(f) : f.directory[j].kind = secs[i].kind} = {i}
  BY <1>3, <1>4
<1>6. (CHOOSE j \in Sections(f) : f.directory[j].kind = secs[i].kind) = i
  <2>1. i \in Sections(f) /\ f.directory[i].kind = secs[i].kind
    BY <1>3, <1>4
  <2> QED BY <1>3, <1>4, <2>1
<1>7. Held(f, secs[i].kind) = SectionBytes(f, i)
  BY <1>6 DEF Held
<1>8. SectionBytes(f, i) = secs[i].bytes
  BY <1>2 DEF LaidSection
<1>9. ASSUME NEW m \in 1 .. Len(secs[i].bytes)
      PROVE  \E k \in 1 .. Len(f.payload) : f.payload[k] = secs[i].bytes[m]
  <2> DEFINE from == Begin(f, i) - f.header  to == End(f, i) - f.header
             s == f.payload
  <2>1. /\ from \in Nat /\ to = from + Len(secs[i].bytes) /\ to <= Len(s)
        /\ Len(secs[i].bytes) \in Nat
    <3>1. LaidSection(f, secs, i) /\ secs[i].bytes \in Seq(U)
      BY <1>1, <1>2 DEF SectionList
    <3>2. HeaderOf(n) \in Nat /\ f.total = HeaderOf(n) + Len(s) /\ Len(s) \in Nat
      BY <1>1, <1>2 DEF HeaderOf, FixedHeader, EntryBytes, FileBytes
    <3>3. End(f, i) = Begin(f, i) + Len(secs[i].bytes) /\ Begin(f, i) \in Nat
          /\ Begin(f, i) >= f.header /\ End(f, i) <= f.total /\ Len(secs[i].bytes) \in Nat
      BY <3>1 DEF LaidSection, Begin, End
    <3> QED BY <1>2, <3>2, <3>3
  <2>2. SubSeq(s, from + 1, to) = secs[i].bytes
    BY <1>8 DEF SectionBytes
  <2> HIDE DEF from, to, s
  <2>3. s \in Seq(U) /\ Len(s) \in Nat
    BY <1>2 DEF s
  <2>4. SubSeq(s, from + 1, to)[m] = s[from + m] /\ from + m \in 1 .. Len(s)
    BY <2>1, <2>3
  <2> QED BY <2>2, <2>4 DEF s
<1> QED BY <1>5, <1>7, <1>8, <1>9, FS_Singleton DEF HeldAt, InPayload

-----------------------------------------------------------------------------
(***************************************************************************)
(* The sections the engine writes.                                         *)
(***************************************************************************)

\* A cell that holds no request and no file.
PlainCell(cell) == DOMAIN cell # {"document"} /\ DOMAIN cell # {"inner"}

\* Bytes that hold no request and no file.
PlainBytes(x) ==
  IsBytes(x) /\ Len(x) > 0 /\ \A m \in 1 .. Len(x) : PlainCell(x[m])

\* Its i-th item comes after the count.
ItemAt(x, i) == Counted(x)[1 + i] = x[i]

\* A list is a count and its items, in order.
LEMMA CountedItems ==
  ASSUME NEW n \in Nat, NEW x, x = [i \in 1 .. n |-> x[i]]
  PROVE  /\ IsBytes(Counted(x)) /\ Len(Counted(x)) = n + 1 /\ Len(x) = n
         /\ Counted(x)[1] = [count |-> n]
         /\ \A i \in 1 .. n : ItemAt(x, i)
         /\ Tail(Counted(x)) = x
<1> DEFINE V == {[count |-> n]} \cup {x[i] : i \in 1 .. n}
           c == <<[count |-> n]>>
<1>1. x \in Seq(V) /\ Len(x) = n /\ c \in Seq(V) /\ Len(c) = 1 /\ c[1] = [count |-> n]
  OBVIOUS
<1>2. Counted(x) = c \o x
  BY <1>1 DEF Counted
<1> HIDE DEF V, c
<1>3. /\ c \o x \in Seq(V) /\ Len(c \o x) = n + 1
      /\ (c \o x)[1] = c[1]
      /\ \A i \in 1 .. n : (c \o x)[1 + i] = x[i]
  <2>1. Len(c) \in Nat /\ Len(x) \in Nat /\ Len(c) = 1 /\ Len(x) = n
    BY <1>1
  <2>2. /\ c \o x \in Seq(V) /\ Len(c \o x) = Len(c) + Len(x)
        /\ \A k \in 1 .. Len(c) : (c \o x)[k] = c[k]
        /\ \A k \in 1 .. Len(x) : (c \o x)[Len(c) + k] = x[k]
    <3>1. c \in Seq(V) /\ x \in Seq(V)
      BY <1>1
    <3> QED BY <3>1, Joined
  <2> QED BY <2>1, <2>2
<1>4. Tail(c \o x) = x
  <2>1. /\ Tail(c \o x) \in Seq(V) /\ Len(Tail(c \o x)) = n
        /\ \A i \in 1 .. n : Tail(c \o x)[i] = x[i]
    BY <1>1, <1>3
  <2> DEFINE y == Tail(c \o x)
  <2> HIDE DEF y
  <2>2. y \in Seq(V) /\ Len(y) = n /\ \A i \in 1 .. n : y[i] = x[i]
    BY <2>1 DEF y
  <2>3. y = x
    BY <1>1, <2>2
  <2> QED BY <2>3 DEF y
<1> QED BY <1>1, <1>2, <1>3, <1>4 DEF IsBytes, ItemAt

\* A list of plain items is plain,
LEMMA CountedPlain ==
  ASSUME NEW n \in Nat, NEW x, x = [i \in 1 .. n |-> x[i]], \A i \in 1 .. n : PlainCell(x[i])
  PROVE  PlainBytes(Counted(x))
<1>1. PlainCell([count |-> n])
  BY DEF PlainCell
<1>2. /\ IsBytes(Counted(x)) /\ Len(Counted(x)) = n + 1
      /\ Counted(x)[1] = [count |-> n]
      /\ \A i \in 1 .. n : ItemAt(x, i)
  BY CountedItems
<1> DEFINE y == Counted(x)
<1> HIDE DEF y
<1>3. ASSUME NEW m \in 1 .. n + 1 PROVE PlainCell(y[m])
  <2>1. CASE m = 1
    BY <1>1, <1>2, <2>1 DEF y
  <2>2. CASE m # 1
    <3> DEFINE i == m - 1
    <3>1. i \in 1 .. n /\ m = 1 + i
      BY <1>3, <2>2
    <3> HIDE DEF i
    <3>2. y[m] = x[i]
      BY <1>2, <3>1 DEF y, ItemAt
    <3> QED BY <3>1, <3>2
  <2> QED BY <2>1, <2>2
<1>4. IsBytes(y) /\ Len(y) = n + 1
  BY <1>2 DEF y
<1>5. PlainBytes(y)
  BY <1>3, <1>4 DEF PlainBytes
<1> QED BY <1>5 DEF y

\* and so are the codes,
LEMMA CodesPlain ==
  ASSUME NEW codes, Len(codes) \in Nat
  PROVE  PlainBytes(CodesSection(codes).bytes)
<1> DEFINE x == [i \in 1 .. Len(codes) |-> [code |-> codes[i]]]
<1>1. x = [i \in 1 .. Len(codes) |-> x[i]] /\ \A i \in 1 .. Len(codes) : PlainCell(x[i])
  BY DEF PlainCell
<1>2. CodesSection(codes).bytes = Counted(x)
  BY DEF CodesSection, Section
<1> HIDE DEF x
<1> QED BY <1>1, <1>2, CountedPlain

\* the conditions,
LEMMA ConditionsPlain ==
  ASSUME NEW conditions, Len(conditions) \in Nat
  PROVE  PlainBytes(ConditionsSection(conditions).bytes)
<1> DEFINE x == [i \in 1 .. Len(conditions) |-> [condition |-> conditions[i]]]
<1>1. x = [i \in 1 .. Len(conditions) |-> x[i]]
      /\ \A i \in 1 .. Len(conditions) : PlainCell(x[i])
  BY DEF PlainCell
<1>2. ConditionsSection(conditions).bytes = Counted(x)
  BY DEF ConditionsSection, Section
<1> HIDE DEF x
<1> QED BY <1>1, <1>2, CountedPlain

\* the completed latents,
LEMMA LatentsPlain ==
  ASSUME NEW completed, Len(completed) \in Nat, NEW finite
  PROVE  PlainBytes(LatentsSection(completed, finite).bytes)
<1> DEFINE x == [i \in 1 .. Len(completed) |->
                     [latents |-> completed[i], finite |-> finite]]
<1>1. x = [i \in 1 .. Len(completed) |-> x[i]]
      /\ \A i \in 1 .. Len(completed) : PlainCell(x[i])
  BY DEF PlainCell
<1>2. LatentsSection(completed, finite).bytes = Counted(x)
  BY DEF LatentsSection, Section
<1> HIDE DEF x
<1> QED BY <1>1, <1>2, CountedPlain

\* the Euler state,
LEMMA EulerPlain ==
  ASSUME NEW active, NEW finite
  PROVE  PlainBytes(EulerSection(active, finite).bytes)
<1> DEFINE x == <<[euler |-> active, finite |-> finite]>>
<1>1. x = [i \in 1 .. 1 |-> x[i]] /\ \A i \in 1 .. 1 : PlainCell(x[i])
  BY DEF PlainCell
<1>2. EulerSection(active, finite).bytes = Counted(x)
  BY DEF EulerSection, Section
<1> HIDE DEF x
<1> QED BY <1>1, <1>2, CountedPlain

\* the carry
LEMMA CarryPlain ==
  ASSUME NEW carry
  PROVE  PlainBytes(CarrySection(carry).bytes)
<1> DEFINE x == <<[carried |-> carry], [carried |-> carry]>>
<1>1. x = [i \in 1 .. 2 |-> x[i]] /\ \A i \in 1 .. 2 : PlainCell(x[i])
  <2>1. x[1] = [carried |-> carry] /\ x[2] = [carried |-> carry] /\ x = [i \in 1 .. 2 |-> x[i]]
    OBVIOUS
  <2>2. PlainCell([carried |-> carry])
    BY DEF PlainCell
  <2> HIDE DEF x
  <2> QED BY <2>1, <2>2
<1>2. CarrySection(carry).bytes = Counted(x)
  BY DEF CarrySection, Section
<1> HIDE DEF x
<1> QED BY <1>1, <1>2, CountedPlain

\* A section of one item.
LEMMA OneItem ==
  ASSUME NEW cell
  PROVE  /\ IsBytes(<<cell>>) /\ Len(<<cell>>) = 1 /\ <<cell>>[1] = cell
  <1>1. <<cell>> \in Seq({cell})
    OBVIOUS
  <1> QED BY <1>1 DEF IsBytes

\* and the metadata.
LEMMA MetadataPlain ==
  ASSUME NEW b
  PROVE  PlainBytes(MetadataSection(b).bytes)
<1> DEFINE cell == [version |-> 1, first |-> b.first, second |-> b.second,
                    digests |-> b.comps]
<1>1. PlainCell(cell)
  BY DEF PlainCell
<1>2. MetadataSection(b).bytes = <<cell>>
  BY DEF MetadataSection, Section
<1> HIDE DEF cell
<1> QED BY <1>1, <1>2, OneItem DEF PlainBytes

\* The list of a boundary has a length.
Listed(b) ==
  /\ b.kind = "COD" => Len(b.codes) \in Nat
  /\ b.kind = "CON" => Len(b.conditions) \in Nat
  /\ b.kind \in {"FLW", "LAT"} => Len(b.completed) \in Nat

\* The request and the source are found in a file only as they were put there.
OwnCell(cell, b, source) ==
  /\ DOMAIN cell = {"document"} =>
       b.kind \in {"COD", "CON"} /\ cell.document = Canonical(b.req)
  /\ DOMAIN cell = {"inner"} => b.kind \in {"FLW", "LAT"} /\ cell.inner = source

\* A section that holds no request but that of b and no file but source.
OwnSection(sec, b, source) ==
  /\ sec.kind \in SectionKinds /\ IsBytes(sec.bytes) /\ Len(sec.bytes) > 0
  /\ \A m \in 1 .. Len(sec.bytes) : OwnCell(sec.bytes[m], b, source)

\* A plain section holds neither.
LEMMA PlainOwn ==
  ASSUME NEW sec, sec.kind \in SectionKinds, PlainBytes(sec.bytes), NEW b, NEW source
  PROVE  OwnSection(sec, b, source)
  BY DEF PlainBytes, PlainCell, OwnSection, OwnCell

\* Every section is written under the kind it is looked up by.
LEMMA SectionKindsWritten ==
  /\ \A r : RequestSection(r).kind = "request_json"
  /\ \A x : CodesSection(x).kind = "ar_codes_i32"
  /\ \A x : ConditionsSection(x).kind = "conditions_bf16"
  /\ \A x, y : LatentsSection(x, y).kind = "completed_latents_f32"
  /\ \A x, y : EulerSection(x, y).kind = "euler_state_f32"
  /\ \A x : CarrySection(x).kind = "carry_f32"
  /\ \A x : SourceSection(x).kind = "source_boundary"
  /\ \A x : MetadataSection(x).kind = "metadata"
  BY DEF RequestSection, CodesSection, ConditionsSection, LatentsSection, EulerSection,
         CarrySection, SourceSection, MetadataSection, Section

\* The request section holds the request of the boundary.
LEMMA RequestOwn ==
  ASSUME NEW b, b.kind \in {"COD", "CON"}, NEW source
  PROVE  OwnSection(RequestSection(b.req), b, source)
<1> DEFINE cell == [document |-> Canonical(b.req)]
<1>1. OwnCell(cell, b, source)
  BY DEF OwnCell
<1>2. RequestSection(b.req).bytes = <<cell>>
  BY DEF RequestSection, Section
<1> HIDE DEF cell
<1>3. RequestSection(b.req).kind \in SectionKinds
  BY SectionKindsWritten DEF SectionKinds
<1> QED BY <1>1, <1>2, <1>3, OneItem DEF OwnSection

\* The source section holds the file it came from.
LEMMA SourceOwn ==
  ASSUME NEW b, b.kind \in {"FLW", "LAT"}, NEW source
  PROVE  OwnSection(SourceSection(source), b, source)
<1> DEFINE cell == [inner |-> source]
<1>1. OwnCell(cell, b, source)
  BY DEF OwnCell
<1>2. SourceSection(source).bytes = <<cell>>
  BY DEF SourceSection, Section
<1> HIDE DEF cell
<1>3. SourceSection(source).kind \in SectionKinds
  BY SectionKindsWritten DEF SectionKinds
<1> QED BY <1>1, <1>2, <1>3, OneItem DEF OwnSection

\* Lists of three and of five.
LEMMA ThreeOf ==
  ASSUME NEW x, NEW y, NEW z
  PROVE  /\ Len(<<x, y, z>>) = 3
         /\ <<x, y, z>>[1] = x /\ <<x, y, z>>[2] = y /\ <<x, y, z>>[3] = z
         /\ \A i \in 1 .. 3 : i = 1 \/ i = 2 \/ i = 3
  OBVIOUS

\* The items of a sequence of five.
LEMMA FiveOf ==
  ASSUME NEW x, NEW y, NEW z, NEW v, NEW w
  PROVE  /\ Len(<<x, y, z, v, w>>) = 5
         /\ <<x, y, z, v, w>>[1] = x /\ <<x, y, z, v, w>>[2] = y
         /\ <<x, y, z, v, w>>[3] = z /\ <<x, y, z, v, w>>[4] = v
         /\ <<x, y, z, v, w>>[5] = w
         /\ \A i \in 1 .. 5 : i = 1 \/ i = 2 \/ i = 3 \/ i = 4 \/ i = 5
  OBVIOUS

\* Three sections of different kinds make a written file,
LEMMA ThreeWritten ==
  ASSUME NEW b, NEW source, NEW x, NEW y, NEW z,
         OwnSection(x, b, source), OwnSection(y, b, source), OwnSection(z, b, source),
         x.kind # y.kind, x.kind # z.kind, y.kind # z.kind
  PROVE  /\ Written(<<x, y, z>>)
         /\ \A i \in 1 .. Len(<<x, y, z>>) : OwnSection(<<x, y, z>>[i], b, source)
<1> DEFINE secs == <<x, y, z>>
<1>1. /\ Len(secs) = 3 /\ secs[1] = x /\ secs[2] = y /\ secs[3] = z
      /\ \A i \in 1 .. 3 : i = 1 \/ i = 2 \/ i = 3
  BY ThreeOf
<1> HIDE DEF secs
<1>2. \A i \in 1 .. Len(secs) : OwnSection(secs[i], b, source)
  BY <1>1
<1>3. Written(secs)
  BY <1>1, <1>2 DEF Written, OwnSection
<1> QED BY <1>2, <1>3 DEF secs

\* and so do five.
LEMMA FiveWritten ==
  ASSUME NEW b, NEW source, NEW x, NEW y, NEW z, NEW v, NEW w,
         OwnSection(x, b, source), OwnSection(y, b, source), OwnSection(z, b, source),
         OwnSection(v, b, source), OwnSection(w, b, source),
         x.kind # y.kind, x.kind # z.kind, x.kind # v.kind, x.kind # w.kind,
         y.kind # z.kind, y.kind # v.kind, y.kind # w.kind,
         z.kind # v.kind, z.kind # w.kind, v.kind # w.kind
  PROVE  /\ Written(<<x, y, z, v, w>>)
         /\ \A i \in 1 .. Len(<<x, y, z, v, w>>) :
              OwnSection(<<x, y, z, v, w>>[i], b, source)
<1> DEFINE secs == <<x, y, z, v, w>>
<1>1. /\ Len(secs) = 5 /\ secs[1] = x /\ secs[2] = y /\ secs[3] = z /\ secs[4] = v
      /\ secs[5] = w
      /\ \A i \in 1 .. 5 : i = 1 \/ i = 2 \/ i = 3 \/ i = 4 \/ i = 5
  BY FiveOf
<1> HIDE DEF secs
<1>2. \A i \in 1 .. Len(secs) : OwnSection(secs[i], b, source)
  BY <1>1
<1>3. ASSUME NEW i \in 1 .. Len(secs), NEW j \in 1 .. Len(secs), secs[i].kind = secs[j].kind
      PROVE  i = j
  BY <1>1, <1>3
<1>4. Written(secs)
  BY <1>1, <1>2, <1>3 DEF Written, OwnSection
<1> QED BY <1>2, <1>4 DEF secs

\* Every file of the engine is made of such sections.
LEMMA FileWritten ==
  ASSUME NEW b, b.kind \in Kinds, Listed(b), NEW source, NEW finite
  PROVE  /\ Written(SectionsWritten(b, source, finite))
         /\ \A i \in 1 .. Len(SectionsWritten(b, source, finite)) :
              OwnSection(SectionsWritten(b, source, finite)[i], b, source)
<1> DEFINE secs == SectionsWritten(b, source, finite)
<1>0. OwnSection(MetadataSection(b), b, source)
  BY MetadataPlain, SectionKindsWritten, PlainOwn DEF SectionKinds
<1>1. CASE b.kind = "COD"
  <2>1. OwnSection(RequestSection(b.req), b, source)
    BY <1>1, RequestOwn
  <2>2. OwnSection(CodesSection(b.codes), b, source)
    BY <1>1, CodesPlain, SectionKindsWritten, PlainOwn DEF SectionKinds, Listed
  <2>3. secs = <<RequestSection(b.req), CodesSection(b.codes), MetadataSection(b)>>
    BY <1>1 DEF SectionsWritten
  <2> QED BY <1>0, <2>1, <2>2, <2>3, ThreeWritten, SectionKindsWritten
<1>2. CASE b.kind = "CON"
  <2>1. OwnSection(RequestSection(b.req), b, source)
    BY <1>2, RequestOwn
  <2>2. OwnSection(ConditionsSection(b.conditions), b, source)
    BY <1>2, ConditionsPlain, SectionKindsWritten, PlainOwn DEF SectionKinds, Listed
  <2>3. secs = <<RequestSection(b.req), ConditionsSection(b.conditions), MetadataSection(b)>>
    BY <1>2 DEF SectionsWritten
  <2> QED BY <1>0, <2>1, <2>2, <2>3, ThreeWritten, SectionKindsWritten
<1>3. ASSUME b.kind \in {"FLW", "LAT"}
      PROVE  /\ OwnSection(SourceSection(source), b, source)
             /\ OwnSection(LatentsSection(b.completed, finite), b, source)
  <2>1. OwnSection(SourceSection(source), b, source)
    BY <1>3, SourceOwn
  <2>2. OwnSection(LatentsSection(b.completed, finite), b, source)
    BY <1>3, LatentsPlain, SectionKindsWritten, PlainOwn DEF SectionKinds, Listed
  <2> QED BY <2>1, <2>2
<1>4. CASE b.kind = "LAT"
  <2>1. secs = <<SourceSection(source), LatentsSection(b.completed, finite),
                 MetadataSection(b)>>
    BY <1>4 DEF SectionsWritten
  <2> QED BY <1>0, <1>3, <1>4, <2>1, ThreeWritten, SectionKindsWritten
<1>5. CASE b.kind = "FLW"
  <2>1. secs = <<SourceSection(source), LatentsSection(b.completed, finite),
                 EulerSection(b.active, finite), CarrySection(b.carry), MetadataSection(b)>>
    BY <1>5 DEF SectionsWritten
  <2>2. OwnSection(EulerSection(b.active, finite), b, source)
    BY EulerPlain, SectionKindsWritten, PlainOwn DEF SectionKinds
  <2>3. OwnSection(CarrySection(b.carry), b, source)
    BY CarryPlain, SectionKindsWritten, PlainOwn DEF SectionKinds
  <2> QED BY <1>0, <1>3, <1>5, <2>1, <2>2, <2>3, FiveWritten, SectionKindsWritten
<1> QED BY <1>1, <1>2, <1>4, <1>5 DEF Kinds

-----------------------------------------------------------------------------
(***************************************************************************)
(* Sound files.  Whatever file is there, the request in it, or in the file *)
(* inside it, is the one the client sent.                                  *)
(***************************************************************************)

\* The header and the directory fit each other, and the payload is a sequence.
Framed(f) ==
  /\ Parsed(f) /\ DOMAIN f = BlobFields /\ IsBytes(f.payload)
  /\ f.count = Len(f.directory) /\ f.header = HeaderOf(f.count)

\* Whatever document is in the file, it is the canonical form of request r.
HoldsRequest(f, r) ==
  /\ Framed(f)
  /\ \A k \in 1 .. Len(f.payload) :
       DOMAIN f.payload[k] = {"document"} => f.payload[k].document = Canonical(r)

\* The same of the file, and of whatever file is stored in it.
Sound(f, r) ==
  /\ HoldsRequest(f, r)
  /\ \A k \in 1 .. Len(f.payload) :
       DOMAIN f.payload[k] = {"inner"} => HoldsRequest(f.payload[k].inner, r)

\* A file as encode left it: sealed, and with something in every section.
Uninjured(f) ==
  /\ f.digest = Digest(f) /\ f = [x \in BlobFields |-> f[x]]
  /\ Len(f.directory) > 0
  /\ \A i \in 1 .. Len(f.directory) : f.directory[i].size > 0

\* A file the engine writes is sound if what goes into it is.
LEMMA FileSound ==
  ASSUME NEW b, b.kind \in Kinds, Listed(b), NEW source, NEW finite, NEW r,
         b.kind \in {"COD", "CON"} => b.req = r,
         b.kind \in {"FLW", "LAT"} => HoldsRequest(source, r),
         NEW f, f = FileOf(b, source, finite)
  PROVE  Sound(f, r) /\ Uninjured(f) /\ f.magic = b.kind
<1> DEFINE secs == SectionsWritten(b, source, finite)
           stage == StageNumber[WriterOf[b.kind]]
<1>1. /\ Written(secs)
      /\ \A i \in 1 .. Len(secs) : OwnSection(secs[i], b, source)
  BY FileWritten
<1>2. f = Encode(b.kind, stage, secs)
  BY DEF FileOf
<1>0. Len(secs) > 0
  BY DEF SectionsWritten
<1> HIDE DEF secs, stage
<1>3. /\ Laid(f, b.kind, stage, secs) /\ Parsed(f) /\ IsBytes(f.payload)
      /\ \A i \in 1 .. Len(secs) : f.directory[i].size \in Nat /\ f.directory[i].size > 0
      /\ \A k \in 1 .. Len(f.payload) : MadeOfSections(f, secs, k)
  BY <1>1, <1>2, EncodeDecodes
<1>4. Framed(f) /\ Uninjured(f) /\ f.magic = b.kind
  BY <1>0, <1>3 DEF Framed, Uninjured, Laid
<1>5. ASSUME NEW k \in 1 .. Len(f.payload)
      PROVE  OwnCell(f.payload[k], b, source)
  BY <1>1, <1>3 DEF MadeOfSections, OwnSection
<1>6. HoldsRequest(f, r)
  BY <1>4, <1>5 DEF HoldsRequest, OwnCell
<1>7. ASSUME NEW k \in 1 .. Len(f.payload), DOMAIN f.payload[k] = {"inner"}
      PROVE  HoldsRequest(f.payload[k].inner, r)
  <2>1. OwnCell(f.payload[k], b, source)
    BY <1>5
  <2>2. b.kind \in {"FLW", "LAT"} /\ f.payload[k].inner = source
    BY <1>7, <2>1 DEF OwnCell
  <2> QED BY <2>2
<1> QED BY <1>4, <1>6, <1>7 DEF Sound

\* What a section of one item holds is an item of the payload.
LEMMA HeldItem ==
  ASSUME NEW f, Framed(f), NEW kind, NEW sort, Opens(f, sort), kind \in SectionsOf[sort],
         Len(Held(f, kind)) = 1
  PROVE  \E k \in 1 .. Len(f.payload) : Held(f, kind)[1] = f.payload[k]
<1>1. PICK i \in Sections(f) : Held(f, kind) = SectionBytes(f, i)
  <2>1. {i \in Sections(f) : f.directory[i].kind = kind} # {}
    <3>1. Cardinality({i \in Sections(f) : f.directory[i].kind = kind}) = 1
      BY DEF Opens, ExactSections
    <3>2. Cardinality({}) = 0
      BY FS_EmptySet
    <3> DEFINE S == {i \in Sections(f) : f.directory[i].kind = kind}
    <3> HIDE DEF S
    <3> SUFFICES S # {}
      BY DEF S
    <3>3. Cardinality(S) = 1
      BY <3>1 DEF S
    <3> QED BY <3>2, <3>3
  <2>2. (CHOOSE i \in Sections(f) : f.directory[i].kind = kind) \in Sections(f)
    BY <2>1
  <2> QED BY <2>2 DEF Held
<1>2. /\ f.count = Len(f.directory) /\ f.header = HeaderOf(f.count)
      /\ InsideFile(f, i) /\ f.total = FileBytes(f)
  BY DEF Framed, Opens, Decodes
<1>3. Begin(f, i) \in Nat /\ End(f, i) \in Nat
  BY <1>2, EntryTyped DEF Framed, Parsed
<1>4. PICK V : f.payload \in Seq(V)
  BY DEF Framed, IsBytes
<1> DEFINE h == f.header  from == Begin(f, i) - h  to == End(f, i) - h  s == f.payload
<1>5. h \in Nat /\ f.total = h + Len(s) /\ Len(s) \in Nat
  <2>1. f.count \in Nat
    BY DEF Framed, Parsed
  <2> QED BY <1>2, <1>4, <2>1 DEF HeaderOf, FixedHeader, EntryBytes, FileBytes
<1>6. from \in Nat /\ to \in Int /\ to <= Len(s)
  BY <1>2, <1>3, <1>5 DEF InsideFile
<1>7. Held(f, kind) = SubSeq(s, from + 1, to)
  BY <1>1 DEF SectionBytes
<1> HIDE DEF h, from, to, s
<1>8. s \in Seq(V)
  BY <1>4 DEF s
<1>9. to = from + 1
  <2>1. Len(SubSeq(s, from + 1, to)) = 1
    BY <1>7
  <2> QED BY <1>5, <1>6, <1>8, <2>1
<1>10. SubSeq(s, from + 1, to)[1] = s[from + 1] /\ from + 1 \in 1 .. Len(s)
  BY <1>5, <1>6, <1>8, <1>9
<1> QED BY <1>7, <1>10 DEF s

\* The request read from a sound file is the one it holds,
LEMMA SoundRequest ==
  ASSUME NEW f, NEW r, HoldsRequest(f, r), NEW sort \in {"COD", "CON"}, Opens(f, sort),
         ReadableRequest(f)
  PROVE  RequestIn(f) = Read(Canonical(r))
<1> DEFINE cells == Held(f, "request_json")
<1>1. Len(cells) = 1 /\ DOMAIN cells[1] = {"document"}
  BY DEF ReadableRequest, SingleCell, OfForm
<1>2. "request_json" \in SectionsOf[sort]
  BY DEF SectionsOf
<1>3. PICK k \in 1 .. Len(f.payload) : cells[1] = f.payload[k]
  BY <1>1, <1>2, HeldItem DEF HoldsRequest
<1>4. cells[1].document = Canonical(r)
  BY <1>1, <1>3 DEF HoldsRequest
<1> QED BY <1>4 DEF RequestIn

\* and the file stored in a sound file holds the same request.
LEMMA SoundSource ==
  ASSUME NEW f, NEW r, Sound(f, r), NEW sort \in {"FLW", "LAT"}, ReadableFlow(f, sort)
  PROVE  /\ HoldsRequest(SourceIn(f), r) /\ ReadableCompletedCodes(SourceIn(f))
         /\ RequestIn(SourceIn(f)) = Read(Canonical(r))
<1> DEFINE cells == Held(f, "source_boundary")
<1>1. Len(cells) = 1 /\ DOMAIN cells[1] = {"inner"} /\ Opens(f, sort)
  BY DEF ReadableFlow, SingleCell, OfForm
<1>2. "source_boundary" \in SectionsOf[sort]
  BY DEF SectionsOf
<1>3. PICK k \in 1 .. Len(f.payload) : cells[1] = f.payload[k]
  BY <1>1, <1>2, HeldItem DEF HoldsRequest, Sound
<1>4. HoldsRequest(cells[1].inner, r)
  BY <1>1, <1>3 DEF Sound
<1>5. HoldsRequest(SourceIn(f), r) /\ ReadableCompletedCodes(SourceIn(f))
  BY <1>4 DEF SourceIn, ReadableFlow
<1>6. RequestIn(SourceIn(f)) = Read(Canonical(r))
  BY <1>5, SoundRequest DEF ReadableCompletedCodes
<1> QED BY <1>5, <1>6

-----------------------------------------------------------------------------
(***************************************************************************)
(* The inductive invariant of the staged way.                              *)
(***************************************************************************)

\* The absent value is not a file.
NoneIsNoFile == "magic" \notin DOMAIN None

\* No stage has told of a request but the one the client sent.
AnswerInv ==
  answer = None \/ (answer \in Answer /\ answer.req \in {None, Read(doc)})

\* A file no stage opens.
Injured(f) == Parsed(f) /\ \A kind \in Kinds : ~Decodes(f, kind)

\* The file: by whom it was left, and what that says of the request in it.
FileInv ==
  /\ doc \in Documents
  /\ origin \in Origins
  /\ file = None <=> origin = "client"
  /\ file # None => Accepts(doc)
  /\ origin \in {"engine", "foreign"} => Sound(file, Read(doc))
  /\ origin = "engine" => Uninjured(file)
  /\ origin = "damaged" => Injured(file)

\* The inductive invariant of the staged way.
TravelsInv == FileInv /\ (saved = None \/ saved.kind \in Kinds) /\ AnswerInv

\* The client's request crosses its canonical form unchanged.
LEMMA ClientRequest ==
  ASSUME doc \in Documents, Accepts(doc)
  PROVE  Read(Canonical(Read(doc))) = Read(doc) /\ Read(doc) \in Requests
  BY DocumentsAssumption, RequestsAssumption, CanonicalFaithful

\* What has the fields of a file is there.
LEMMA FramedIsFile ==
  ASSUME NoneIsNoFile, NEW f, DOMAIN f = BlobFields
  PROVE  f # None
  BY DEF NoneIsNoFile, BlobFields

\* Only an undamaged file is opened.
LEMMA OpenedSound ==
  ASSUME FileInv, file # None, NEW kind \in Kinds, Opens(file, kind)
  PROVE  Sound(file, Read(doc)) /\ Accepts(doc) /\ origin \in {"engine", "foreign"}
  BY DEF FileInv, Injured, Opens, Origins

\* The CODES stage reads the request of the client,
LEMMA CodesReads ==
  ASSUME FileInv, NEW c, CodesTakes(c)
  PROVE  Accepts(doc) /\ CodesRequest = Read(doc) /\ origin # "damaged"
<1>1. CASE file = None
  BY <1>1 DEF CodesTakes, CodesRequest, FileInv
<1>2. CASE file # None
  <2>1. Opens(file, "COD") /\ ReadableRequest(file)
    BY <1>2 DEF CodesTakes, ReadablePausedCodes
  <2>2. Sound(file, Read(doc)) /\ Accepts(doc) /\ origin \in {"engine", "foreign"}
    BY <1>2, <2>1, OpenedSound DEF Kinds
  <2>3. RequestIn(file) = Read(Canonical(Read(doc)))
    BY <2>1, <2>2, SoundRequest DEF Sound
  <2>4. Read(Canonical(Read(doc))) = Read(doc)
    BY <2>2, ClientRequest DEF FileInv
  <2> QED BY <1>2, <2>2, <2>3, <2>4 DEF CodesRequest
<1> QED BY <1>1, <1>2

\* and so does the DIFFUSE stage, which passes on a file that holds it,
LEMMA DiffuseReads ==
  ASSUME FileInv, file # None, NEW c, DiffuseTakes(c)
  PROVE  /\ Accepts(doc) /\ DiffuseRequest = Read(doc) /\ origin # "damaged"
         /\ HoldsRequest(DiffuseSource, Read(doc))
<1>1. CASE ResumesFlow
  <2>1. ReadableFlow(file, "FLW") /\ Opens(file, "FLW")
    BY <1>1 DEF DiffuseTakes, ReadablePausedFlow, ReadableFlow
  <2>2. Sound(file, Read(doc)) /\ Accepts(doc) /\ origin \in {"engine", "foreign"}
    BY <2>1, OpenedSound DEF Kinds
  <2>3. /\ HoldsRequest(SourceIn(file), Read(doc))
        /\ RequestIn(SourceIn(file)) = Read(Canonical(Read(doc)))
    BY <2>1, <2>2, SoundSource
  <2>4. Read(Canonical(Read(doc))) = Read(doc)
    BY <2>2, ClientRequest DEF FileInv
  <2> QED BY <1>1, <2>2, <2>3, <2>4 DEF DiffuseRequest, DiffuseSource
<1>2. CASE ~ResumesFlow
  <2>1. Opens(file, "CON") /\ ReadableRequest(file)
    BY <1>2 DEF DiffuseTakes, ReadableCompletedCodes
  <2>2. Sound(file, Read(doc)) /\ Accepts(doc) /\ origin \in {"engine", "foreign"}
    BY <2>1, OpenedSound DEF Kinds
  <2>3. RequestIn(file) = Read(Canonical(Read(doc))) /\ HoldsRequest(file, Read(doc))
    BY <2>1, <2>2, SoundRequest DEF Sound
  <2>4. Read(Canonical(Read(doc))) = Read(doc)
    BY <2>2, ClientRequest DEF FileInv
  <2> QED BY <1>2, <2>2, <2>3, <2>4 DEF DiffuseRequest, DiffuseSource
<1> QED BY <1>1, <1>2

\* and the DECODE stage.
LEMMA DecodeReads ==
  ASSUME FileInv, file # None, NEW c, DecodeTakes(c)
  PROVE  Accepts(doc) /\ RequestIn(SourceIn(file)) = Read(doc)
<1>1. ReadableFlow(file, "LAT") /\ Opens(file, "LAT")
  BY DEF DecodeTakes, ReadableFlow
<1>2. Sound(file, Read(doc)) /\ Accepts(doc)
  BY <1>1, OpenedSound DEF Kinds
<1>3. RequestIn(SourceIn(file)) = Read(Canonical(Read(doc)))
  BY <1>1, <1>2, SoundSource
<1> QED BY <1>2, <1>3, ClientRequest DEF FileInv

\* A call that tells of no request but that one keeps AnswerInv.
LEMMA AnswerTyped ==
  ASSUME NEW stage \in {"CODES", "DIFFUSE", "DECODE"},
         NEW verdict \in {"saved", "refused", "empty", "played"}, NEW r,
         r = None \/ (r = Read(doc) /\ Read(doc) \in Requests),
         Answered(stage, verdict, r), doc' = doc
  PROVE  AnswerInv'
<1>1. answer' = [stage |-> stage, verdict |-> verdict, req |-> r]
  BY DEF Answered
<1>2. DOMAIN StageNumber = {"CODES", "DIFFUSE", "DECODE"}
  BY DEF StageNumber
<1>3. answer' \in Answer
  BY <1>1, <1>2 DEF Answer
<1>4. answer'.req \in {None, Read(doc)}
  BY <1>1
<1> QED BY <1>3, <1>4 DEF AnswerInv

\* A call that saves leaves a sound file.
LEMMA SaveInv ==
  ASSUME NoneIsNoFile, TravelsInv, Accepts(doc), origin # "damaged",
         NEW stage \in {"CODES", "DIFFUSE"},
         NEW b, b.kind \in Kinds, Listed(b), NEW source, NEW finite,
         b.kind \in {"COD", "CON"} => b.req = Read(doc),
         b.kind \in {"FLW", "LAT"} => HoldsRequest(source, Read(doc)),
         Save(stage, Read(doc), b, source, finite)
  PROVE  TravelsInv'
<1>1. /\ file' = FileOf(b, source, finite) /\ saved' = b /\ doc' = doc
      /\ origin' = IF origin = "client" THEN "engine" ELSE origin
      /\ Answered(stage, "saved", Read(doc))
  BY DEF Save
<1>2. Sound(file', Read(doc)) /\ Uninjured(file')
  BY <1>1, FileSound
<1>3. file' # None
  BY <1>2, FramedIsFile DEF Sound, HoldsRequest, Framed
<1>4. origin' \in {"engine", "foreign"}
  BY <1>1 DEF TravelsInv, FileInv, Origins
<1>5. FileInv'
  BY <1>1, <1>2, <1>3, <1>4 DEF TravelsInv, FileInv, Origins
<1>6. AnswerInv'
  BY <1>1, ClientRequest, AnswerTyped DEF TravelsInv, FileInv
<1> QED BY <1>1, <1>5, <1>6 DEF TravelsInv

\* A call that saves nothing leaves the file.
LEMMA NothingInv ==
  ASSUME TravelsInv, NEW stage \in {"CODES", "DIFFUSE", "DECODE"},
         NEW verdict \in {"saved", "refused", "empty", "played"}, NEW r,
         r = None \/ (r = Read(doc) /\ Accepts(doc)),
         NothingSaved(stage, verdict, r)
  PROVE  TravelsInv'
<1>1. /\ Answered(stage, verdict, r) /\ doc' = doc /\ file' = file /\ origin' = origin
      /\ saved' = saved
  BY DEF NothingSaved
<1>2. FileInv'
  BY <1>1 DEF TravelsInv, FileInv
<1>3. AnswerInv'
  BY <1>1, ClientRequest, AnswerTyped DEF TravelsInv, FileInv
<1> QED BY <1>1, <1>2, <1>3 DEF TravelsInv

\* The boundaries the stages save have lists.
LEMMA SavedListed ==
  ASSUME NEW c \in Components, NEW r \in Requests
  PROVE  /\ \A n \in 0 .. RefLength(c, r) :
              LET b == PausedCodesAfter(c, r, n)
              IN  b.kind = "COD" /\ b.req = r /\ Listed(b)
         /\ LET b == CompletedCodesOf(c, r)
            IN  b.kind = "CON" /\ b.req = r /\ Listed(b)
         /\ \A w \in 0 .. WindowsOf(c, r) : \A step :
              LET b == PausedFlowAt(c, r, w, step)
              IN  b.kind = "FLW" /\ Listed(b)
         /\ LET b == CompletedFlowOf(c, r)
            IN  b.kind = "LAT" /\ Listed(b)
<1>1. RefLength(c, r) \in Nat /\ RefGenerated(c, r) \in Nat
  BY AllFrames
<1>2. WindowsOf(c, r) \in Nat
  <2>1. CASE RefGenerated(c, r) = 0
    BY <2>1, WindowAssumption DEF WindowsOf, WindowCount
  <2>2. CASE RefGenerated(c, r) # 0
    BY <1>1, <2>2, WindowsInside DEF WindowsOf
  <2> QED BY <2>1, <2>2
<1>3. ASSUME NEW n \in 0 .. RefLength(c, r)
      PROVE  LET b == PausedCodesAfter(c, r, n)
             IN  b.kind = "COD" /\ b.req = r /\ Listed(b)
  <2>1. Len(RefCodes(c, r, n)) \in Nat
    BY <1>1, OneMoreCode
  <2> QED BY <2>1 DEF PausedCodesAfter, Listed
<1>4. LET b == CompletedCodesOf(c, r)
      IN  b.kind = "CON" /\ b.req = r /\ Listed(b)
  <2>1. Len(RefConditions(c, r)) \in Nat
    BY <1>2 DEF RefConditions, WindowsOf
  <2> QED BY <2>1 DEF CompletedCodesOf, Listed
<1>5. \A w \in 0 .. WindowsOf(c, r) : Len(RefLatents(c, r, w)) \in Nat
  BY <1>2 DEF RefLatents
<1>6. \A w \in 0 .. WindowsOf(c, r) : \A step :
        LET b == PausedFlowAt(c, r, w, step)
        IN  b.kind = "FLW" /\ Listed(b)
  BY <1>5 DEF PausedFlowAt, Listed
<1>7. LET b == CompletedFlowOf(c, r)
      IN  b.kind = "LAT" /\ Listed(b)
  BY <1>2, <1>5 DEF CompletedFlowOf, Listed
<1> QED BY <1>3, <1>4, <1>6, <1>7

\* Every call of a stage keeps the invariant,
LEMMA CodesCalls ==
  ASSUME NoneIsNoFile, TravelsInv, NEW c \in Components,
         PauseCodes(c) \/ CompleteCodes(c) \/ EmptyCodes(c) \/ RefuseCodes(c)
  PROVE  TravelsInv'
<1>1. CASE CodesTakes(c)
  <2> DEFINE r == Read(doc)
  <2>1. Accepts(doc) /\ CodesRequest = r /\ origin # "damaged" /\ r \in Requests
    BY <1>1, CodesReads, ClientRequest DEF TravelsInv, FileInv
  <2> HIDE DEF r
  <2>2. CASE PauseCodes(c)
    <3>1. PICK n \in 0 .. RefLength(c, r) :
            Save("CODES", r, PausedCodesAfter(c, r, n), None, TRUE)
      BY <2>1, <2>2 DEF PauseCodes
    <3> DEFINE b == PausedCodesAfter(c, r, n)  yes == TRUE
    <3>2. b.kind = "COD" /\ b.req = r /\ Listed(b)
      BY <2>1, SavedListed
    <3>3. Save("CODES", Read(doc), b, None, yes)
      BY <3>1 DEF r
    <3> HIDE DEF b, yes
    <3> QED BY <2>1, <3>2, <3>3, SaveInv DEF r, Kinds
  <2>3. CASE CompleteCodes(c)
    <3> DEFINE b == CompletedCodesOf(c, r)  yes == TRUE
    <3>1. Save("CODES", r, b, None, yes)
      BY <2>1, <2>3 DEF CompleteCodes
    <3>2. b.kind = "CON" /\ b.req = r /\ Listed(b)
      BY <2>1, SavedListed
    <3> HIDE DEF b, yes
    <3> QED BY <2>1, <3>1, <3>2, SaveInv DEF r, Kinds
  <2>4. CASE EmptyCodes(c)
    BY <2>1, <2>4, NothingInv DEF EmptyCodes, r
  <2> QED BY <1>1, <2>2, <2>3, <2>4 DEF RefuseCodes
<1>2. CASE ~CodesTakes(c)
  <2>1. NothingSaved("CODES", "refused", None)
    BY <1>2 DEF PauseCodes, CompleteCodes, EmptyCodes, RefuseCodes
  <2> QED BY <2>1, NothingInv
<1> QED BY <1>1, <1>2

\* No call of DIFFUSE breaks the invariant,
LEMMA DiffuseCalls ==
  ASSUME NoneIsNoFile, TravelsInv, NEW c \in Components,
         PauseDiffuse(c) \/ CompleteDiffuse(c) \/ RefuseDiffuse(c)
  PROVE  TravelsInv'
<1>0. file # None
  BY DEF PauseDiffuse, CompleteDiffuse, RefuseDiffuse
<1>1. CASE DiffuseTakes(c)
  <2> DEFINE r == Read(doc)
  <2>1. /\ Accepts(doc) /\ DiffuseRequest = r /\ origin # "damaged" /\ r \in Requests
        /\ HoldsRequest(DiffuseSource, r)
    BY <1>0, <1>1, DiffuseReads, ClientRequest DEF TravelsInv, FileInv
  <2> HIDE DEF r
  <2>2. CASE PauseDiffuse(c)
    <3>1. PICK w \in FlowCursor[1] .. WindowsOf(c, r) - 1, step \in 0 .. EulerSteps[r] - 1,
               finite \in BOOLEAN :
            Save("DIFFUSE", r, PausedFlowAt(c, r, w, step), DiffuseSource, finite)
      BY <2>1, <2>2 DEF PauseDiffuse
    <3> DEFINE b == PausedFlowAt(c, r, w, step)
    <3>2. b.kind = "FLW" /\ Listed(b)
      <4>1. Len(RefLatents(c, r, w)) \in Nat
        <5>1. w \in Int
          OBVIOUS
        <5>2. CASE w >= 0
          BY <5>1, <5>2, OneMoreLatent
        <5>3. CASE w < 0
          <6>1. 1 .. w = 1 .. 0
            BY <5>1, <5>3
          <6>2. RefLatents(c, r, w) = RefLatents(c, r, 0)
            BY <6>1 DEF RefLatents
          <6> QED BY <6>2, OneMoreLatent
        <5> QED BY <5>1, <5>2, <5>3
      <4> QED BY <4>1 DEF PausedFlowAt, Listed
    <3> HIDE DEF b
    <3>3. Save("DIFFUSE", Read(doc), b, DiffuseSource, finite)
      BY <3>1 DEF b, r
    <3> QED BY <2>1, <3>2, <3>3, SaveInv DEF r, Kinds
  <2>3. CASE CompleteDiffuse(c)
    <3> DEFINE b == CompletedFlowOf(c, r)
    <3>1. PICK finite \in BOOLEAN : Save("DIFFUSE", r, b, DiffuseSource, finite)
      BY <2>1, <2>3 DEF CompleteDiffuse
    <3>2. b.kind = "LAT" /\ Listed(b)
      BY <2>1, SavedListed
    <3> HIDE DEF b
    <3> QED BY <2>1, <3>1, <3>2, SaveInv DEF r, Kinds
  <2> QED BY <1>1, <2>2, <2>3 DEF RefuseDiffuse
<1>2. CASE ~DiffuseTakes(c)
  <2>1. NothingSaved("DIFFUSE", "refused", None)
    BY <1>2 DEF PauseDiffuse, CompleteDiffuse, RefuseDiffuse
  <2> QED BY <2>1, NothingInv
<1> QED BY <1>1, <1>2

\* and none of DECODE.
LEMMA DecodeCalls ==
  ASSUME TravelsInv, NEW c \in Components, PlaySong(c) \/ RefuseDecode(c)
  PROVE  TravelsInv'
<1>1. CASE PlaySong(c)
  BY <1>1, DecodeReads, NothingInv DEF PlaySong, TravelsInv
<1>2. CASE RefuseDecode(c)
  BY <1>2, NothingInv DEF RefuseDecode
<1> QED BY <1>1, <1>2

-----------------------------------------------------------------------------
\* A change of one field leaves the others.
Changed(f, g, x) ==
  DOMAIN g = BlobFields /\ \A y \in BlobFields \ {x} : g[y] = f[y]

\* A function on the fields of a file.
Whole(f) == f = [x \in BlobFields |-> f[x]]

\* A change of any field but the digest is a change of what the digest covers.
LEMMA ChangeShows ==
  ASSUME NEW f, DOMAIN f = BlobFields, f.digest = Digest(f),
         Whole(f), NEW g, Whole(g), g # f,
         NEW x \in BlobFields \ {"digest"}, Changed(f, g, x)
  PROVE  g.digest # Digest(g)
<1>1. g[x] # f[x]
  BY DEF Changed, Whole
<1>2. g.digest = f.digest
  BY DEF Changed, BlobFields
<1>3. Digest(g)[x] = g[x]
  BY DEF Digest, Changed
<1>4. Digest(f)[x] = f[x]
  BY DEF Digest
<1> QED BY <1>1, <1>2, <1>3, <1>4

\* A digest of zeros is the digest of nothing.
LEMMA ZeroedShows ==
  ASSUME NEW g, DOMAIN g = BlobFields, g.digest = Zeroed
  PROVE  g.digest # Digest(g)
<1>1. DOMAIN Digest(g) = BlobFields
  BY DEF Digest
<1>2. "magic" \in BlobFields
  BY DEF BlobFields
<1>3. DOMAIN Zeroed = {}
  BY DEF Zeroed
<1> QED BY <1>1, <1>2, <1>3

\* Whatever is changed after the digest was taken, the file is refused.
LEMMA FieldInjures ==
  ASSUME NEW f, Framed(f), Uninjured(f), NEW x \in BlobFields \ {"digest"}, NEW v,
         NEW g, g = [f EXCEPT ![x] = v], g # f, Parsed(g)
  PROVE  Injured(g) /\ DOMAIN g = BlobFields
<1>1. DOMAIN f = BlobFields /\ f.digest = Digest(f) /\ Whole(f)
  BY DEF Framed, Uninjured, Whole
<1>2. Changed(f, g, x) /\ Whole(g)
  BY <1>1 DEF Changed, Whole
<1>3. g.digest # Digest(g)
  BY <1>1, <1>2, ChangeShows
<1> QED BY <1>2, <1>3 DEF Injured, Decodes, Changed

\* Damage to the header is always found out,
LEMMA HeaderInjures ==
  ASSUME NEW f, Framed(f), Uninjured(f), NEW g \in HeaderDamage(f), g # f
  PROVE  Injured(g) /\ DOMAIN g = BlobFields
<1>1. DOMAIN f = BlobFields /\ f.count \in Nat /\ f.count > 0 /\ Parsed(f)
  <2>1. Parsed(f) /\ f.count = Len(f.directory) /\ Len(f.directory) > 0 /\ DOMAIN f = BlobFields
    BY DEF Framed, Uninjured
  <2> QED BY <2>1 DEF Parsed
<1> DEFINE Alters(x) == \E v : g = [f EXCEPT ![x] = v]
<1>2. ASSUME NEW x \in {"magic", "version", "stage", "header", "total"}, Alters(x)
      PROVE  Injured(g) /\ DOMAIN g = BlobFields
  <2>1. PICK v : g = [f EXCEPT ![x] = v]
    BY <1>2
  <2>2. x \in BlobFields \ {"digest"}
    BY DEF BlobFields
  <2>3. Parsed(g)
    BY <1>1, <2>1 DEF Parsed, BlobFields
  <2> QED BY <2>1, <2>2, <2>3, FieldInjures
<1>3. ASSUME g = [f EXCEPT !.count = @ - 1]
      PROVE  Injured(g) /\ DOMAIN g = BlobFields
  <2>1. g = [f EXCEPT !["count"] = f.count - 1]
    BY <1>3
  <2>2. Parsed(g)
    BY <1>1, <2>1 DEF Parsed, BlobFields
  <2>3. "count" \in BlobFields \ {"digest"}
    BY DEF BlobFields
  <2> QED BY <2>1, <2>2, <2>3, FieldInjures
<1>4. ASSUME g = [f EXCEPT !.digest = Zeroed]
      PROVE  Injured(g) /\ DOMAIN g = BlobFields
  <2>1. DOMAIN g = BlobFields /\ g.digest = Zeroed /\ g.count = f.count
        /\ g.directory = f.directory
    BY <1>1, <1>4 DEF BlobFields
  <2>2. g.digest # Digest(g)
    BY <2>1, ZeroedShows
  <2> QED BY <1>1, <2>1, <2>2 DEF Injured, Parsed, Decodes
<1>5. \/ \E x \in {"magic", "version", "stage", "header", "total"} : Alters(x)
      \/ g = [f EXCEPT !.count = @ - 1]
      \/ g = [f EXCEPT !.digest = Zeroed]
  <2>1. CASE \E k \in Kinds : g = [f EXCEPT !.magic = k]
    BY <2>1
  <2>2. CASE g = [f EXCEPT !.version = 2]
    BY <2>2
  <2>3. CASE \E s \in 0 .. 3 : g = [f EXCEPT !.stage = s]
    BY <2>3
  <2>4. CASE g = [f EXCEPT !.header = @ - EntryBytes]
    BY <2>4
  <2>5. CASE \E d \in {-1, 1} : g = [f EXCEPT !.total = @ + d]
    BY <2>5
  <2> HIDE DEF Alters
  <2> QED BY <2>1, <2>2, <2>3, <2>4, <2>5 DEF HeaderDamage
<1> HIDE DEF Alters
<1> QED BY <1>2, <1>3, <1>4, <1>5

\* and so is damage to the directory,
LEMMA DirectoryInjures ==
  ASSUME NEW f, Framed(f), Uninjured(f), NEW g \in DirectoryDamage(f), g # f
  PROVE  Injured(g) /\ DOMAIN g = BlobFields
<1>1. DOMAIN f = BlobFields /\ f.count \in Nat /\ f.directory \in Seq(Entry)
  BY DEF Framed, Parsed
<1>2. PICK i \in 1 .. Len(f.directory) :
        \/ \E k \in {NoKind, "metadata"} : g = [f EXCEPT !.directory[i].kind = k]
        \/ g = [f EXCEPT !.directory[i].offset = @ + 1]
        \/ g = [f EXCEPT !.directory[i].size = @ - 1]
  BY DEF DirectoryDamage
<1> DEFINE d == f.directory
<1>3. d[i] \in Entry /\ d[i].size \in Nat \ {0} /\ d[i].offset \in Nat
  <2>1. d[i] \in Entry
    BY <1>1
  <2>2. d[i].size > 0
    BY DEF Uninjured
  <2> QED BY <2>1, <2>2 DEF Entry
<1>4. \E e \in Entry : g = [f EXCEPT !["directory"] = [d EXCEPT ![i] = e]]
  <2>1. CASE \E k \in {NoKind, "metadata"} : g = [f EXCEPT !.directory[i].kind = k]
    <3>1. PICK k \in {NoKind, "metadata"} : g = [f EXCEPT !.directory[i].kind = k]
      BY <2>1
    <3>2. [d[i] EXCEPT !.kind = k] \in Entry
      BY <1>3 DEF Entry, SectionKinds
    <3> QED BY <3>1, <3>2
  <2>2. CASE g = [f EXCEPT !.directory[i].offset = @ + 1]
    <3>1. [d[i] EXCEPT !.offset = @ + 1] \in Entry
      BY <1>3 DEF Entry
    <3> QED BY <2>2, <3>1
  <2>3. CASE g = [f EXCEPT !.directory[i].size = @ - 1]
    <3>1. [d[i] EXCEPT !.size = @ - 1] \in Entry
      BY <1>3 DEF Entry
    <3> QED BY <2>3, <3>1
  <2> QED BY <1>2, <2>1, <2>2, <2>3
<1>5. PICK e \in Entry : g = [f EXCEPT !["directory"] = [d EXCEPT ![i] = e]]
  BY <1>4
<1>6. [d EXCEPT ![i] = e] \in Seq(Entry)
  BY <1>1
<1>7. g.directory = [d EXCEPT ![i] = e] /\ g.count = f.count
  BY <1>1, <1>5 DEF BlobFields
<1>8. Parsed(g)
  BY <1>1, <1>6, <1>7 DEF Parsed
<1>9. "directory" \in BlobFields \ {"digest"}
  BY DEF BlobFields
<1> HIDE DEF d
<1> QED BY <1>5, <1>8, <1>9, FieldInjures

\* and damage to the payload.
LEMMA PayloadInjures ==
  ASSUME NEW f, Framed(f), Uninjured(f), NEW g \in PayloadDamage(f), g # f
  PROVE  Injured(g) /\ DOMAIN g = BlobFields
<1>1. \E p : g = [f EXCEPT !["payload"] = p]
  <2>1. CASE \E i, j \in 1 .. Len(f.payload) : g = [f EXCEPT !.payload[i] = f.payload[j]]
    BY <2>1
  <2>2. CASE g = [f EXCEPT !.payload = Front(@)]
    BY <2>2
  <2>3. CASE g = [f EXCEPT !.payload = Append(@, f.payload[Len(@)])]
    BY <2>3
  <2> QED BY <2>1, <2>2, <2>3 DEF PayloadDamage
<1>2. PICK p : g = [f EXCEPT !["payload"] = p]
  BY <1>1
<1>3. Parsed(g)
  BY <1>2 DEF Framed, Parsed, BlobFields
<1>4. "payload" \in BlobFields \ {"digest"}
  BY DEF BlobFields
<1> QED BY <1>2, <1>3, <1>4, FieldInjures

\* A directory laid out again is one of numbers, over the same payload.
LEMMA LaidOutSound ==
  ASSUME NEW f, NEW r, Sound(f, r), NEW g \in LaidOutAgain(f)
  PROVE  Sound(g, r)
<1>1. /\ DOMAIN f = BlobFields /\ f.count \in Nat /\ f.directory \in Seq(Entry)
      /\ f.count = Len(f.directory) /\ f.header = HeaderOf(f.count) /\ IsBytes(f.payload)
  BY DEF Sound, HoldsRequest, Framed, Parsed
<1>2. PICK i \in 1 .. Len(f.directory), at \in -1 .. Len(f.payload), size \in 0 .. 2 :
        g = Placed(f, i, at, size)
  BY DEF LaidOutAgain
<1> DEFINE h == [f EXCEPT !.directory[i].offset = f.header + at,
                          !.directory[i].size = size]
           d == f.directory
           e == [[d[i] EXCEPT !.offset = f.header + at] EXCEPT !.size = size]
<1>3. d[i] \in Entry
  BY <1>1
<1>4. f.header + at \in Nat /\ size \in Nat
  BY <1>1 DEF HeaderOf, FixedHeader, EntryBytes
<1>5. e \in Entry
  BY <1>3, <1>4 DEF Entry
<1>6. h.directory = [d EXCEPT ![i] = e] /\ DOMAIN h = BlobFields
      /\ h.count = f.count /\ h.header = f.header /\ h.payload = f.payload
  BY <1>1 DEF BlobFields
<1>7. g = Sealed(h)
  BY <1>2 DEF Placed
<1> HIDE DEF h, d, e
<1>8. /\ DOMAIN g = BlobFields /\ g.directory = [d EXCEPT ![i] = e]
      /\ g.count = f.count /\ g.header = f.header /\ g.payload = f.payload
  <2>1. DOMAIN g = BlobFields /\ \A x \in BlobFields \ {"digest"} : g[x] = h[x]
    BY <1>6, <1>7, SealedDigest
  <2> QED BY <1>6, <2>1 DEF BlobFields
<1>9. g.directory \in Seq(Entry) /\ Len(g.directory) = Len(f.directory)
  BY <1>1, <1>5, <1>8 DEF d
<1>10. Framed(g)
  BY <1>1, <1>8, <1>9 DEF Framed, Parsed
<1> QED BY <1>8, <1>10 DEF Sound, HoldsRequest

-----------------------------------------------------------------------------
(***************************************************************************)
(* The types of the blocking way.                                          *)
(***************************************************************************)

\* What the reference yields is of the types of Boundaries.
LEMMA RefFrames ==
  ASSUME NEW c \in Components, NEW r \in Requests, NEW n \in Nat
  PROVE  RefCodes(c, r, n) \in Seq(CodeFrame) /\ MadeOf(c, r, n) \in Seq(Hidden)
<1>1. \A f \in Nat : RefFrame(c, r, f) \in CodeFrame
  BY SampledFrameTyped DEF RefFrame, Codebooks
<1>2. RefCodes(c, r, n) \in Seq(CodeFrame)
  <2>1. \A i \in 1 .. n : RefFrame(c, r, i - 1) \in CodeFrame
    <3> SUFFICES ASSUME NEW i \in 1 .. n PROVE RefFrame(c, r, i - 1) \in CodeFrame
      OBVIOUS
    <3>1. i - 1 \in Nat
      OBVIOUS
    <3> QED BY <1>1, <3>1
  <2> QED BY <2>1 DEF RefCodes
<1>3. \A f \in Nat : HiddenOf(c, f, RefFrame(c, r, f)) \in Hidden
  BY <1>1, HiddenTyped
<1>4. Greatest(0, n - 1) \in Nat
  BY DEF Greatest
<1>5. MadeOf(c, r, n) \in Seq(Hidden)
  BY <1>3, <1>4 DEF MadeOf
<1> QED BY <1>2, <1>5

\* The carry of the reference is a number,
LEMMA RefCarryTyped ==
  ASSUME NEW c \in Components, NEW r \in Requests, RefGenerated(c, r) # 0,
         NEW w \in 0 .. WindowsIn(c, r)
  PROVE  CarryAfter(c, r, w) \in Nat
<1>1. RefGenerated(c, r) \in Nat \ {0}
  BY AllFrames
<1>2. CASE w = 0
  BY <1>2 DEF CarryAfter
<1>3. CASE w # 0
  <2>1. w \in 1 .. WindowCount(RefGenerated(c, r))
    BY <1>3 DEF WindowsIn
  <2>2. FramesOf(RefGenerated(c, r), w) \in 1 .. WindowFrames
    BY <1>1, <2>1, WindowsInside
  <2>3. FramesOf(RefGenerated(c, r), w) \in Nat
    BY <2>2, WindowAssumption
  <2> QED BY <1>3, <2>1, <2>3, CarryTyped DEF CarryAfter
<1> QED BY <1>2, <1>3

\* what it gives to a window is of the types of Boundaries,
LEMMA RefInputsTyped ==
  ASSUME NEW c \in Components, NEW r \in Requests, RefGenerated(c, r) # 0,
         NEW w \in Nat, w < WindowsIn(c, r)
  PROVE  RefInputs(c, r, w + 1) \in FlowInputs
<1>1. /\ RefGenerated(c, r) \in Nat \ {0} /\ RefLength(c, r) \in Nat
      /\ RefHiddens(c, r) = MadeOf(c, r, RefLength(c, r))
      /\ Len(RefHiddens(c, r)) = RefGenerated(c, r)
  BY AllFrames
<1>2. RefHiddens(c, r) \in Seq(Hidden)
  BY <1>1, RefFrames
<1>3. WindowsIn(c, r) \in Nat
  BY <1>1, WindowsInside DEF WindowsIn
<1> DEFINE i == w + 1
<1>4. i \in 1 .. WindowCount(Len(RefHiddens(c, r)))
  BY <1>1, <1>3 DEF WindowsIn
<1> HIDE DEF i
<1>5. Projected(c, RefHiddens(c, r), WindowStart(i), FramesOf(RefGenerated(c, r), i))
        \in Condition
  BY <1>1, <1>2, <1>4, ProjectedTyped
<1>6. CarryAfter(c, r, w) \in Nat
  BY <1>3, RefCarryTyped
<1>7. RefInputs(c, r, i) =
        [comps |-> c,
         cond |-> Projected(c, RefHiddens(c, r), WindowStart(i),
                            FramesOf(RefGenerated(c, r), i)),
         seed |-> w, prompt |-> CarryAfter(c, r, w)]
  BY <1>1, InputsAt DEF i
<1>8. RefInputs(c, r, i) \in FlowInputs
  BY <1>5, <1>6, <1>7 DEF FlowInputs
<1> QED BY <1>8 DEF i

\* and so are its latents and its pieces.
LEMMA RefLatentsTyped ==
  ASSUME NEW c \in Components, NEW r \in Requests, RefGenerated(c, r) # 0
  PROVE  /\ WindowsIn(c, r) \in Nat
         /\ \A w \in Nat, k \in Nat :
              w < WindowsIn(c, r) => RefEuler(c, r, w + 1, k) \in Latent
         /\ \A w \in 0 .. WindowsIn(c, r) : RefLatents(c, r, w) \in Seq(Latent)
         /\ \A p \in 0 .. WindowsIn(c, r) : PiecesOf(c, r, p) \in Seq(Piece)
<1>1. RefGenerated(c, r) \in Nat \ {0} /\ EulerSteps[r] \in Nat
  BY AllFrames
<1>2. WindowsIn(c, r) \in Nat
  BY <1>1, WindowsInside DEF WindowsIn
<1>3. ASSUME NEW w \in Nat, w < WindowsIn(c, r), NEW k \in Nat
      PROVE  RefEuler(c, r, w + 1, k) \in Latent
  <2>1. RefInputs(c, r, w + 1) \in FlowInputs
    BY <1>3, RefInputsTyped
  <2>2. [j \in 1 .. k |-> j - 1] \in Seq(Nat)
    OBVIOUS
  <2> QED BY <2>1, <2>2 DEF RefEuler, Latent
<1>4. ASSUME NEW i \in 1 .. WindowsIn(c, r)
      PROVE  /\ RefLatent(c, r, i) \in Latent /\ RefPiece(c, r, i) \in Piece
  <2> DEFINE w == i - 1
  <2>1. w \in Nat /\ w < WindowsIn(c, r) /\ w + 1 = i
    BY <1>2
  <2>2. RefEuler(c, r, i, EulerSteps[r]) \in Latent /\ RefInputs(c, r, i) \in FlowInputs
    <3> HIDE DEF w
    <3> QED BY <1>1, <1>3, <2>1, RefInputsTyped
  <2>3. RefInputs(c, r, i).prompt \in Nat
    BY <2>2 DEF FlowInputs
  <2>4. RefLatent(c, r, i) \in Latent
    BY <2>2, <2>3 DEF RefLatent, Latent
  <2>5. RefConditions(c, r)[i].frames \in Nat
    <3>1. RefInputs(c, r, i).cond \in Condition
      BY <2>2 DEF FlowInputs
    <3> QED BY <3>1, LatentAt DEF Condition
  <2>6. LatentFrames(RefConditions(c, r)[i].frames) \in Nat
    BY <2>5, LatentFramesMonotone
  <2>7. RefPiece(c, r, i) \in Piece
    <3> DEFINE n == LatentFrames(RefConditions(c, r)[i].frames)
               count == WindowCount(RefGenerated(c, r))
    <3>1. n \in Nat /\ count \in Nat /\ i \in Nat
      BY <1>2, <2>6 DEF WindowsIn
    <3> HIDE DEF n, count
    <3>2. KeptFrom(i, n) \in Nat /\ KeptTo(i, count, n) \in Nat
      BY <3>1, CropTyped
    <3>3. RefPiece(c, r, i) = [comps |-> c, latent |-> RefLatent(c, r, i),
                               from |-> KeptFrom(i, n), to |-> KeptTo(i, count, n)]
      BY DEF RefPiece, n, count
    <3> QED BY <2>4, <3>2, <3>3 DEF Piece
  <2> QED BY <2>4, <2>7
<1>5. \A w \in 0 .. WindowsIn(c, r) : RefLatents(c, r, w) \in Seq(Latent)
  BY <1>2, <1>4 DEF RefLatents
<1>6. \A p \in 0 .. WindowsIn(c, r) : PiecesOf(c, r, p) \in Seq(Piece)
  BY <1>2, <1>4 DEF PiecesOf
<1> QED BY <1>2, <1>3, <1>5, <1>6

\* A call on its course has locals of their types.
LEMMA CourseTyped ==
  ASSUME NEW r \in Requests, NEW s, NEW ph, OnCourse(s, ph, r)
  PROVE  s \in SongState
<1>0. PICK c \in Components, n \in Nat, w \in Nat, p \in Nat : \E a :
        s \in SongAt(c, r, n, w, a, p) /\ Reached(ph, c, r, n, w, a, p)
  BY DEF OnCourse
<1>1. PICK a : s \in SongAt(c, r, n, w, a, p) /\ Reached(ph, c, r, n, w, a, p)
  BY <1>0
<1>2. RefCodes(c, r, n) \in Seq(CodeFrame) /\ MadeOf(c, r, n) \in Seq(Hidden)
  BY RefFrames
<1>3. CASE ph \in {"loaded", "ar", "arDone"}
  <2>1. w = 0 /\ a = None /\ p = 0
    BY <1>1, <1>3 DEF Reached
  <2>2. RefLatents(c, r, 0) = <<>> /\ PiecesOf(c, r, 0) = <<>> /\ CarryAfter(c, r, 0) = 0
    BY DEF RefLatents, PiecesOf, CarryAfter
  <2>3. <<>> \in Seq(Latent) /\ <<>> \in Seq(Piece)
    OBVIOUS
  <2> QED BY <1>1, <1>2, <2>1, <2>2, <2>3 DEF SongAt, SongState
<1>4. CASE ph \in {"denoise", "denoiseDone", "decode", "decodeDone"}
  <2>1. /\ RefGenerated(c, r) # 0 /\ w \in 0 .. WindowsIn(c, r)
        /\ p \in 0 .. WindowsIn(c, r)
        /\ \/ a = None
           \/ w < WindowsIn(c, r) /\ \E k \in 0 .. EulerSteps[r] : a = RefEuler(c, r, w + 1, k)
    <3>1. WindowsIn(c, r) \in Nat
      BY RefLatentsTyped, <1>1, <1>4 DEF Reached
    <3> QED BY <1>1, <1>4, <3>1 DEF Reached
  <2>2. /\ RefLatents(c, r, w) \in Seq(Latent) /\ PiecesOf(c, r, p) \in Seq(Piece)
        /\ CarryAfter(c, r, w) \in Nat
    BY <2>1, RefLatentsTyped, RefCarryTyped
  <2>3. a \in Latent \cup {None}
    <3> SUFFICES ASSUME w < WindowsIn(c, r), NEW k \in 0 .. EulerSteps[r],
                        a = RefEuler(c, r, w + 1, k)
                 PROVE  a \in Latent
      BY <2>1
    <3>1. k \in Nat
      OBVIOUS
    <3> QED BY <2>1, <3>1, RefLatentsTyped
  <2> QED BY <1>1, <1>2, <2>2, <2>3 DEF SongAt, SongState
<1>5. ph \in {"loaded", "ar", "arDone", "denoise", "denoiseDone", "decode", "decodeDone"}
  BY <1>1 DEF Reached
<1> QED BY <1>3, <1>4, <1>5

-----------------------------------------------------------------------------
(***************************************************************************)
(* The invariant holds, and what follows from it.                          *)
(***************************************************************************)

\* Every step keeps the invariant of the staged way.
LEMMA TravelsStep ==
  ASSUME NoneIsNoFile, TravelsInv, [Next]_vars
  PROVE  TravelsInv'
<1>1. ASSUME UNCHANGED fileVars PROVE TravelsInv'
  BY <1>1 DEF TravelsInv, FileInv, AnswerInv, fileVars
<1>2. ASSUME NEW c \in Components, StageCall(c) PROVE TravelsInv'
  BY <1>2, CodesCalls, DiffuseCalls, DecodeCalls DEF StageCall
<1>3. CASE Damage
  <2>1. origin = "engine" /\ doc' = doc /\ saved' = saved /\ origin' = "damaged"
        /\ answer' = None
    BY <1>3 DEF Damage
  <2>2. Framed(file) /\ Uninjured(file) /\ Accepts(doc)
    BY <2>1 DEF TravelsInv, FileInv, Sound, HoldsRequest
  <2>3. file' \in HeaderDamage(file) \cup DirectoryDamage(file) \cup PayloadDamage(file)
        /\ file' # file
    BY <1>3 DEF Damage
  <2>4. Injured(file') /\ DOMAIN file' = BlobFields
    BY <2>2, <2>3, HeaderInjures, DirectoryInjures, PayloadInjures
  <2>5. file' # None
    BY <2>4, FramedIsFile
  <2>6. FileInv'
    BY <2>1, <2>2, <2>4, <2>5 DEF TravelsInv, FileInv, Origins
  <2> QED BY <2>1, <2>6 DEF TravelsInv, AnswerInv
<1>4. CASE LayOut
  <2>1. origin = "engine" /\ doc' = doc /\ saved' = saved /\ origin' = "foreign"
        /\ answer' = None /\ file' \in LaidOutAgain(file)
    BY <1>4 DEF LayOut
  <2>2. Sound(file, Read(doc)) /\ Accepts(doc)
    BY <2>1 DEF TravelsInv, FileInv
  <2>3. Sound(file', Read(doc))
    BY <2>1, <2>2, LaidOutSound
  <2>4. file' # None
    BY <2>3, FramedIsFile DEF Sound, HoldsRequest, Framed
  <2>5. FileInv'
    BY <2>1, <2>2, <2>3, <2>4 DEF TravelsInv, FileInv, Origins
  <2> QED BY <2>1, <2>5 DEF TravelsInv, AnswerInv
<1>5. CASE Blocking
  BY <1>1, <1>5 DEF Blocking
<1>6. CASE UNCHANGED vars
  BY <1>1, <1>6 DEF vars
<1> QED BY <1>2, <1>3, <1>4, <1>5, <1>6 DEF Next, Staged

\* It holds when the client sends the request.
LEMMA TravelsBegins == Init => TravelsInv
  BY DEF Init, TravelsInit, TravelsInv, FileInv, AnswerInv, Origins

(***************************************************************************)
(* The inductive invariant of the staged way holds in every state of every *)
(* run: whatever is saved, converted by another program or damaged between *)
(* the calls, a file that is there is either sound, its request being the  *)
(* one the client sent, or injured, and then no stage opens it.            *)
(***************************************************************************)
THEOREM TravelsInductive == NoneIsNoFile => (Spec => []TravelsInv)
<1> SUFFICES ASSUME NoneIsNoFile PROVE Spec => []TravelsInv
  OBVIOUS
<1>1. TravelsInv /\ [Next]_vars => TravelsInv'
  BY TravelsStep
<1> QED BY <1>1, TravelsBegins, PTL DEF Spec

(***************************************************************************)
(* Whatever stages the file went through, and whoever wrote it, the request*)
(* a stage answers with is the one parsed from the client's document: the  *)
(* canonical text serialize puts into the file says the same.              *)
(***************************************************************************)
THEOREM RequestArrives == NoneIsNoFile => (Spec => []RequestSurvives)
<1>1. TravelsInv => RequestSurvives
  BY DEF TravelsInv, AnswerInv, RequestSurvives
<1> QED BY <1>1, TravelsInductive, PTL

(***************************************************************************)
(* A file of the engine that was changed in one field of its header, in one*)
(* entry of its directory or in its payload is refused by every stage:     *)
(* decode finds the change, by its checks of the header and the directory  *)
(* or by the digest.                                                       *)
(***************************************************************************)
THEOREM DamageRefused == NoneIsNoFile => (Spec => []DamageIsRefused)
<1>1. TravelsInv => DamageIsRefused
  <2> SUFFICES ASSUME TravelsInv, origin = "damaged", NEW c \in Components
               PROVE  ~CodesTakes(c) /\ ~DiffuseTakes(c) /\ ~DecodeTakes(c)
    BY DEF DamageIsRefused
  <2>1. file # None /\ Injured(file)
    BY DEF TravelsInv, FileInv
  <2>2. \A kind \in Kinds : ~Opens(file, kind)
    BY <2>1 DEF Injured, Opens
  <2> QED BY <2>1, <2>2 DEF CodesTakes, DiffuseTakes, DecodeTakes, ReadablePausedCodes,
            ReadablePausedFlow, ReadableFlow, ReadableCompletedCodes, Kinds
<1> QED BY <1>1, TravelsInductive, PTL

-----------------------------------------------------------------------------
\* The blocking call has its locals while it runs, and they are of their types.
CallInv ==
  /\ SongInv /\ MemoryInv
  /\ Returned => song = None
  /\ wav = None \/ wav \in Wav

\* What the blocking call holds while it runs.
LEMMA CallTyped ==
  ASSUME SongInv, ~Returned
  PROVE  song \in SongState /\ Accepts(doc) /\ Played \in Requests /\ song.req = Played
<1>1. Played \in Requests /\ OnCourse(song, phase, Played) /\ Accepts(doc)
  BY PlayedAsked DEF SongInv
<1>2. song.req = Played
  BY <1>1 DEF OnCourse, SongAt
<1> QED BY <1>1, <1>2, CourseTyped

\* Every step keeps the types of the blocking way.
LEMMA CallStep ==
  ASSUME CallInv, [Next]_vars
  PROVE  CallInv'
<1>1. SongInv' /\ MemoryInv'
  BY SongStep, MemoryStep DEF CallInv
<1>2. CASE UNCHANGED blockingVars
  BY <1>1, <1>2 DEF CallInv, blockingVars, Returned
<1>3. CASE Accepts(doc) /\ GenerateWav(Read(doc))
  BY <1>1, <1>3 DEF CallInv, GenerateWav, Returned
<1>4. CASE RefuseWav
  BY <1>1, <1>4 DEF CallInv, RefuseWav, CanGenerate, Returned
<1>5. CASE Abandon
  BY <1>1, <1>5 DEF CallInv, Abandon, Returned
<1>6. CASE \/ BeginAr \/ EndAr \/ BeginDenoising \/ EndDenoising
           \/ BeginDecoding \/ EndDecoding
  <2>1. UNCHANGED wav /\ ~Returned'
    BY <1>6 DEF BeginAr, EndAr, BeginDenoising, EndDenoising, BeginDecoding,
                EndDecoding, EnterPhase, LeavePhase, Returned
  <2> QED BY <1>1, <2>1 DEF CallInv
<1>7. CASE GenerateFrame \/ StartWindow \/ UpdateWindow \/ FinishWindow \/ DecodeWindow
  <2>1. UNCHANGED wav /\ ~Returned'
    BY <1>7 DEF GenerateFrame, StartWindow, UpdateWindow, FinishWindow,
                DecodeWindow, Returned
  <2> QED BY <1>1, <2>1 DEF CallInv
<1>8. CASE WriteWav
  <2>1. ~Returned
    BY <1>8 DEF WriteWav, Returned
  <2>2. song \in SongState /\ Accepts(doc) /\ song.req = Played
    BY <2>1, CallTyped DEF CallInv
  <2>3. song.req.output_sample_rate \in {44100, 32000}
    <3>1. Valid(Read(doc))
      BY <2>2 DEF Accepts
    <3>2. Read(doc).output_sample_rate \in {44100, 32000}
      BY <3>1 DEF Valid
    <3> QED BY <2>2, <3>2 DEF Played, NativeRequest, Read
  <2>4. wav' \in Wav
    BY <1>8, <2>2, <2>3 DEF WriteWav, SongState, Wav
  <2> QED BY <1>1, <1>8, <2>4 DEF CallInv, WriteWav
<1>9. CASE Next
  BY <1>2, <1>3, <1>4, <1>5, <1>6, <1>7, <1>8, <1>9
     DEF Next, Staged, Blocking, BlockingStep
<1> QED BY <1>2, <1>9 DEF vars

(***************************************************************************)
(* In every state the document, the file, the answer and the locals of the *)
(* blocking call are of their types; for the locals this rests on the song *)
(* being on course.                                                        *)
(***************************************************************************)
THEOREM TravelsTyping == NoneIsNoFile => (Spec => []TypeOK)
<1>1. Init => CallInv
  BY DEF Init, TravelsInit, BlockingInit, CallInv, SongInv, MemoryInv, BlockingMemory,
         Returned, Phases
<1>2. CallInv /\ [Next]_vars => CallInv'
  BY CallStep
<1>3. TravelsInv /\ CallInv => TypeOK
  <2> SUFFICES ASSUME TravelsInv, CallInv PROVE TypeOK
    OBVIOUS
  <2>1. /\ doc \in Documents /\ (file = None \/ Parsed(file)) /\ origin \in Origins
        /\ (file = None <=> origin = "client")
        /\ (saved = None \/ saved.kind \in Kinds)
        /\ (answer = None \/ answer \in Answer)
    BY DEF TravelsInv, FileInv, AnswerInv, Injured, Sound, HoldsRequest, Framed, Origins
  <2>2. phase \in Phases /\ resident \subseteq UNION {Needs[p] : p \in Phases}
    BY DEF CallInv, MemoryInv, BlockingMemory
  <2>3. (song = None \/ song \in SongState) /\ (song = None <=> Returned)
    BY CallTyped, NoSongAssumption DEF CallInv
  <2>4. wav = None \/ wav \in Wav
    BY DEF CallInv
  <2> QED BY <2>1, <2>2, <2>3, <2>4 DEF TypeOK, Returned
<1> QED BY <1>1, <1>2, <1>3, TravelsInductive, PTL DEF Spec

(***************************************************************************)
(* In every state, and so for every file the engine, another program or    *)
(* damage leaves, if decode accepts the file, all its sections lie in the  *)
(* payload and no two share a byte.                                        *)
(***************************************************************************)
THEOREM AcceptedDisjoint == NoneIsNoFile => (Spec => []AcceptedSectionsDisjoint)
<1>1. TypeOK => AcceptedSectionsDisjoint
  BY DecodedDisjoint DEF TypeOK, AcceptedSectionsDisjoint
<1> QED BY <1>1, TravelsTyping, PTL

-----------------------------------------------------------------------------
(***************************************************************************)
(* Reading back what was written: sizes, sections and items.               *)
(***************************************************************************)

\* A run is longer than the one before it by the sequence it takes in.
LEMMA RunGains ==
  ASSUME NEW U, NEW s, NEW t, Runs(U, s, t), NEW j \in Nat, NEW i \in 1 .. Len(s),
         i = j + 1
  PROVE  Longer(t[i], t[j], s[i])
<1>1. i - 1 = j
  OBVIOUS
<1>2. Longer(t[i], t[i - 1], s[i])
  BY RunsSlice
<1> QED BY <1>1, <1>2

\* The payload is as long as the sections together.
LEMMA PayloadRuns ==
  ASSUME NEW secs, Written(secs), NEW magic, NEW stage, NEW f, f = Encode(magic, stage, secs)
  PROVE  \E U, t : /\ Runs(U, BytesOf(secs), t) /\ SectionList(U, secs)
                   /\ f.payload = t[Len(secs)]
<1> DEFINE U == ItemsOf(secs)
<1> HIDE DEF U
<1>1. SectionList(U, secs)
  BY WrittenSections DEF U
<1>2. PICK t : Runs(U, BytesOf(secs), t)
  BY <1>1, EncodeParts
<1>3. f.payload = FlattenSeq(BytesOf(secs))
  BY SealedDigest DEF Encode, BlobFields
<1>4. FlattenSeq(BytesOf(secs)) = t[Len(BytesOf(secs))] /\ Len(BytesOf(secs)) = Len(secs)
  BY <1>1, <1>2, FlattenRuns, BytesParts
<1> QED BY <1>1, <1>2, <1>3, <1>4

\* A file of a kind, of some sections, and sections of some lengths.
MadeAs(f, kind, secs) ==
  Written(secs) /\ f = Encode(kind, StageNumber[WriterOf[kind]], secs)
\* The length of a section,
LongAs(sec, n) == Len(sec.bytes) = n
\* of the payload of a file of three,
ThreeTotal(f, l, m, n) ==
  l \in Nat /\ m \in Nat /\ n \in Nat /\ Len(f.payload) = l + m + n
\* and of a file of five.
FiveTotal(f, k, l, m, n, o) ==
  /\ k \in Nat /\ l \in Nat /\ m \in Nat /\ n \in Nat /\ o \in Nat
  /\ Len(f.payload) = k + l + m + n + o

\* Three sections make a payload of their lengths,
LEMMA ThreeLong ==
  ASSUME NEW x, NEW y, NEW z, NEW f, NEW kind, MadeAs(f, kind, <<x, y, z>>),
         NEW l, NEW m, NEW n, LongAs(x, l), LongAs(y, m), LongAs(z, n)
  PROVE  ThreeTotal(f, l, m, n)
<1> DEFINE secs == <<x, y, z>>  s == BytesOf(secs)
           magic == kind  stage == StageNumber[WriterOf[kind]]
<1>1. Len(secs) = 3 /\ secs[1] = x /\ secs[2] = y /\ secs[3] = z
  BY ThreeOf
<1>0. Written(secs) /\ f = Encode(magic, stage, secs)
  BY DEF MadeAs
<1> HIDE DEF secs, magic, stage
<1>2. PICK U, t : Runs(U, s, t) /\ SectionList(U, secs) /\ f.payload = t[Len(secs)]
  BY <1>0, PayloadRuns
<1>3. Len(s) = 3 /\ s[1] = x.bytes /\ s[2] = y.bytes /\ s[3] = z.bytes
      /\ s[1] \in Seq(U) /\ s[2] \in Seq(U) /\ s[3] \in Seq(U)
  <2>1. Len(s) = Len(secs) /\ \A i \in 1 .. Len(secs) : s[i] = secs[i].bytes
    BY <1>2, BytesParts
  <2>2. \A i \in 1 .. Len(s) : s[i] \in Seq(U)
    BY <1>2, RunsParts
  <2> QED BY <1>1, <2>1, <2>2
<1>4. Len(t[0]) = 0 /\ f.payload = t[3]
  BY <1>1, <1>2, RunsParts
<1> HIDE DEF s
<1>5. Longer(t[1], t[0], s[1]) /\ Longer(t[2], t[1], s[2]) /\ Longer(t[3], t[2], s[3])
  <2>1. 1 \in 1 .. Len(s) /\ 2 \in 1 .. Len(s) /\ 3 \in 1 .. Len(s)
        /\ 1 = 0 + 1 /\ 2 = 1 + 1 /\ 3 = 2 + 1 /\ 0 \in Nat /\ 1 \in Nat /\ 2 \in Nat
    BY <1>3
  <2> QED BY <1>2, <2>1, RunGains
<1>6. l \in Nat /\ m \in Nat /\ n \in Nat
  BY <1>3 DEF LongAs
<1>7. Len(s[1]) = l /\ Len(s[2]) = m /\ Len(s[3]) = n
  BY <1>3 DEF LongAs
<1>8. /\ Len(t[1]) = Len(t[0]) + l /\ Len(t[2]) = Len(t[1]) + m
      /\ Len(t[3]) = Len(t[2]) + n
  BY <1>5, <1>7 DEF Longer
<1>9. Len(t[3]) = l + m + n
  BY <1>4, <1>6, <1>8
<1> QED BY <1>4, <1>6, <1>9 DEF ThreeTotal

\* and so do five.
LEMMA FiveLong ==
  ASSUME NEW x, NEW y, NEW z, NEW v, NEW w, NEW f, NEW kind,
         MadeAs(f, kind, <<x, y, z, v, w>>),
         NEW k, NEW l, NEW m, NEW n, NEW o, LongAs(x, k), LongAs(y, l),
         LongAs(z, m), LongAs(v, n), LongAs(w, o)
  PROVE  FiveTotal(f, k, l, m, n, o)
<1> DEFINE secs == <<x, y, z, v, w>>  s == BytesOf(secs)
           magic == kind  stage == StageNumber[WriterOf[kind]]
<1>1. Len(secs) = 5 /\ secs[1] = x /\ secs[2] = y /\ secs[3] = z /\ secs[4] = v /\ secs[5] = w
  BY FiveOf
<1>0. Written(secs) /\ f = Encode(magic, stage, secs)
  BY DEF MadeAs
<1> HIDE DEF secs, magic, stage
<1>2. PICK U, t : Runs(U, s, t) /\ SectionList(U, secs) /\ f.payload = t[Len(secs)]
  BY <1>0, PayloadRuns
<1>3. /\ Len(s) = 5 /\ s[1] = x.bytes /\ s[2] = y.bytes /\ s[3] = z.bytes
      /\ s[4] = v.bytes /\ s[5] = w.bytes
      /\ s[1] \in Seq(U) /\ s[2] \in Seq(U) /\ s[3] \in Seq(U)
      /\ s[4] \in Seq(U) /\ s[5] \in Seq(U)
  <2>1. Len(s) = Len(secs) /\ \A i \in 1 .. Len(secs) : s[i] = secs[i].bytes
    BY <1>2, BytesParts
  <2>2. \A i \in 1 .. Len(s) : s[i] \in Seq(U)
    BY <1>2, RunsParts
  <2> QED BY <1>1, <2>1, <2>2
<1>4. Len(t[0]) = 0 /\ f.payload = t[5]
  BY <1>1, <1>2, RunsParts
<1> HIDE DEF s
<1>5. /\ Longer(t[1], t[0], s[1]) /\ Longer(t[2], t[1], s[2]) /\ Longer(t[3], t[2], s[3])
      /\ Longer(t[4], t[3], s[4]) /\ Longer(t[5], t[4], s[5])
  <2>1. 1 \in 1 .. Len(s) /\ 2 \in 1 .. Len(s) /\ 3 \in 1 .. Len(s) /\ 4 \in 1 .. Len(s)
        /\ 5 \in 1 .. Len(s) /\ 1 = 0 + 1 /\ 2 = 1 + 1 /\ 3 = 2 + 1 /\ 4 = 3 + 1 /\ 5 = 4 + 1
        /\ 0 \in Nat /\ 1 \in Nat /\ 2 \in Nat /\ 3 \in Nat /\ 4 \in Nat
    BY <1>3
  <2> QED BY <1>2, <2>1, RunGains
<1>6. k \in Nat /\ l \in Nat /\ m \in Nat /\ n \in Nat /\ o \in Nat
  BY <1>3 DEF LongAs
<1>7. /\ Len(s[1]) = k /\ Len(s[2]) = l /\ Len(s[3]) = m /\ Len(s[4]) = n
      /\ Len(s[5]) = o
  BY <1>3 DEF LongAs
<1>8. /\ Len(t[1]) = Len(t[0]) + k /\ Len(t[2]) = Len(t[1]) + l
      /\ Len(t[3]) = Len(t[2]) + m /\ Len(t[4]) = Len(t[3]) + n
      /\ Len(t[5]) = Len(t[4]) + o
  BY <1>5, <1>7 DEF Longer
<1>9. Len(t[5]) = k + l + m + n + o
  BY <1>4, <1>6, <1>8
<1> QED BY <1>4, <1>6, <1>9 DEF FiveTotal

\* A sequence of n items, and one of items of one form.
ProperList(x, n) == n \in Nat /\ x = [i \in 1 .. n |-> x[i]]
\* A list of n items that all have the same fields.
Alike(x, n, fields) == ProperList(x, n) /\ \A i \in 1 .. n : DOMAIN x[i] = fields

\* The bytes of a list of such items.
ListOf(cells, x, n, fields) ==
  /\ List(cells, fields) /\ Items(cells) = x
  /\ cells[1].count = n /\ Len(cells) = n + 1 /\ Len(x) = n

\* A list is read as it was written.
LEMMA ListBack ==
  ASSUME NEW n, NEW x, NEW fields, Alike(x, n, fields), NEW cells, cells = Counted(x)
  PROVE  ListOf(cells, x, n, fields)
<1>0. n \in Nat /\ x = [i \in 1 .. n |-> x[i]] /\ \A i \in 1 .. n : DOMAIN x[i] = fields
  BY DEF Alike, ProperList
<1>1. /\ Len(Counted(x)) = n + 1 /\ Len(x) = n /\ Counted(x)[1] = [count |-> n]
      /\ \A i \in 1 .. n : ItemAt(x, i)
      /\ Tail(Counted(x)) = x
  BY <1>0, CountedItems
<1>2. ASSUME NEW i \in 2 .. n + 1 PROVE \E j \in 1 .. n : cells[i] = x[j]
  <2> DEFINE j == i - 1
  <2>1. j \in 1 .. n /\ i = 1 + j
    BY <1>0
  <2> HIDE DEF j
  <2>2. ItemAt(x, j)
    BY <1>1, <2>1
  <2> QED BY <2>1, <2>2 DEF ItemAt
<1>3. DOMAIN [count |-> n] = {"count"} /\ [count |-> n].count = n
  OBVIOUS
<1>4. List(cells, fields)
  <2>1. Len(cells) = n + 1 /\ cells[1] = [count |-> n]
    BY <1>1
  <2>2. \A i \in 2 .. Len(cells) : OfForm(cells[i], fields)
    BY <1>0, <1>2, <2>1 DEF OfForm
  <2> QED BY <1>0, <1>3, <2>1, <2>2 DEF List, OfForm
<1> QED BY <1>1, <1>3, <1>4 DEF Items, ListOf

\* Three different things are three,
LEMMA ThreeDistinct ==
  ASSUME NEW x, NEW y, NEW z, x # y, x # z, y # z
  PROVE  Cardinality({x, y, z}) = 3
<1>1. IsFiniteSet({}) /\ Cardinality({}) = 0
  BY FS_EmptySet
<1>2. IsFiniteSet({x}) /\ Cardinality({x}) = 1
  BY FS_Singleton
<1>3. IsFiniteSet({x} \cup {y}) /\ Cardinality({x} \cup {y}) = 2
  BY <1>2, FS_AddElement
<1>4. Cardinality(({x} \cup {y}) \cup {z}) = 3
  BY <1>3, FS_AddElement
<1>5. ({x} \cup {y}) \cup {z} = {x, y, z}
  OBVIOUS
<1> QED BY <1>4, <1>5

\* and five are five.
LEMMA FiveDistinct ==
  ASSUME NEW x, NEW y, NEW z, NEW v, NEW w, x # y, x # z, y # z,
         v \notin {x, y, z}, w \notin {x, y, z, v}
  PROVE  Cardinality({x, y, z, v, w}) = 5
<1>1. Cardinality({x, y, z}) = 3
  BY ThreeDistinct
<1>2. IsFiniteSet({x, y, z})
  <2>1. IsFiniteSet({x} \cup {y}) /\ IsFiniteSet(({x} \cup {y}) \cup {z})
    BY FS_Singleton, FS_AddElement
  <2>2. ({x} \cup {y}) \cup {z} = {x, y, z}
    OBVIOUS
  <2> QED BY <2>1, <2>2
<1>3. IsFiniteSet({x, y, z} \cup {v}) /\ Cardinality({x, y, z} \cup {v}) = 4
  BY <1>1, <1>2, FS_AddElement
<1>4. w \notin {x, y, z} \cup {v}
  OBVIOUS
<1>5. Cardinality(({x, y, z} \cup {v}) \cup {w}) = 5
  BY <1>3, <1>4, FS_AddElement
<1>6. ({x, y, z} \cup {v}) \cup {w} = {x, y, z, v, w}
  OBVIOUS
<1> QED BY <1>5, <1>6

\* Every kind of boundary is written by a stage that has a number.
LEMMA StageNamed == \A kind \in Kinds : StageNumber[WriterOf[kind]] # 0
  BY DEF Kinds, StageNumber, WriterOf

\* Sections of a kind, and a file within the limit.
OfKind(f, secs, kind) ==
  /\ Cardinality(SectionsOf[kind]) = Len(secs)
  /\ \A k \in SectionsOf[kind] : \E i \in 1 .. Len(secs) : secs[i].kind = k
  /\ HeaderOf(Len(secs)) + Len(f.payload) <= MaxBlob

\* A file within the limit, of the sections its kind asks for, is opened.
LEMMA WrittenOpens ==
  ASSUME NEW secs, NEW kind \in Kinds, NEW f, MadeAs(f, kind, secs), OfKind(f, secs, kind)
  PROVE  Opens(f, kind) /\ f.magic = kind /\ \A i \in 1 .. Len(secs) : HeldAt(f, secs, i)
<1> DEFINE stage == StageNumber[WriterOf[kind]]
<1>7. Written(secs) /\ f = Encode(kind, stage, secs)
  BY DEF MadeAs
<1>3. stage # 0
  BY StageNamed
<1>8. stage = StageNumber[WriterOf[kind]]
  OBVIOUS
<1> HIDE DEF stage
<1>0. /\ Cardinality(SectionsOf[kind]) = Len(secs)
      /\ \A k \in SectionsOf[kind] : \E i \in 1 .. Len(secs) : secs[i].kind = k
      /\ HeaderOf(Len(secs)) + Len(f.payload) <= MaxBlob
  BY DEF OfKind
<1>1. /\ Laid(f, kind, stage, secs) /\ (stage # 0 /\ f.total <= MaxBlob => Decodes(f, kind))
  BY <1>7, EncodeDecodes
<1>2. /\ f.magic = kind /\ f.stage = stage /\ f.count = Len(secs)
      /\ f.total = HeaderOf(Len(secs)) + Len(f.payload)
  BY <1>1 DEF Laid, FileBytes
<1>4. Decodes(f, kind)
  BY <1>0, <1>1, <1>2, <1>3
<1>5. \A i \in 1 .. Len(secs) : HeldAt(f, secs, i)
  BY <1>7, OneSection
<1>6. ExactSections(f, SectionsOf[kind])
  <2>1. \A k \in SectionsOf[kind] :
          Cardinality({j \in Sections(f) : f.directory[j].kind = k}) = 1
    <3> SUFFICES ASSUME NEW k \in SectionsOf[kind]
                 PROVE  Cardinality({j \in Sections(f) : f.directory[j].kind = k}) = 1
      OBVIOUS
    <3>1. PICK i \in 1 .. Len(secs) : secs[i].kind = k
      BY <1>0
    <3>2. Cardinality({j \in Sections(f) : f.directory[j].kind = secs[i].kind}) = 1
      BY <1>5 DEF HeldAt
    <3> QED BY <3>1, <3>2
  <2> QED BY <1>0, <1>2, <2>1 DEF ExactSections
<1> QED BY <1>8, <1>2, <1>4, <1>5, <1>6 DEF Opens

\* The sections of a kind are all different.
LEMMA SectionCounts ==
  /\ Cardinality(SectionsOf["COD"]) = 3 /\ Cardinality(SectionsOf["CON"]) = 3
  /\ Cardinality(SectionsOf["LAT"]) = 3 /\ Cardinality(SectionsOf["FLW"]) = 5
<1>2. Cardinality(SectionsOf["COD"]) = 3
  <2> DEFINE x == "request_json"
             y == "ar_codes_i32"
             z == "metadata"
  <2>1. x # y /\ x # z /\ y # z
    OBVIOUS
  <2>2. SectionsOf["COD"] = {x, y, z}
    BY DEF SectionsOf
  <2> HIDE DEF x, y, z
  <2>3. Cardinality({x, y, z}) = 3
    BY <2>1, ThreeDistinct
  <2> QED BY <2>2, <2>3
<1>3. Cardinality(SectionsOf["CON"]) = 3
  <2> DEFINE x == "request_json"
             y == "conditions_bf16"
             z == "metadata"
  <2>1. x # y /\ x # z /\ y # z
    OBVIOUS
  <2>2. SectionsOf["CON"] = {x, y, z}
    BY DEF SectionsOf
  <2> HIDE DEF x, y, z
  <2>3. Cardinality({x, y, z}) = 3
    BY <2>1, ThreeDistinct
  <2> QED BY <2>2, <2>3
<1>4. Cardinality(SectionsOf["LAT"]) = 3
  <2> DEFINE x == "source_boundary"
             y == "completed_latents_f32"
             z == "metadata"
  <2>1. x # y /\ x # z /\ y # z
    OBVIOUS
  <2>2. SectionsOf["LAT"] = {x, y, z}
    BY DEF SectionsOf
  <2> HIDE DEF x, y, z
  <2>3. Cardinality({x, y, z}) = 3
    BY <2>1, ThreeDistinct
  <2> QED BY <2>2, <2>3
<1>5. Cardinality(SectionsOf["FLW"]) = 5
  <2> DEFINE x == "source_boundary"
             y == "completed_latents_f32"
             z == "euler_state_f32"
             v == "carry_f32"
             w == "metadata"
  <2>1. x # y /\ x # z /\ y # z /\ v \notin {x, y, z} /\ w \notin {x, y, z, v}
    OBVIOUS
  <2>2. SectionsOf["FLW"] = {x, y, z, v, w}
    BY DEF SectionsOf
  <2> HIDE DEF x, y, z, v, w
  <2>3. Cardinality({x, y, z, v, w}) = 5
    BY <2>1, FiveDistinct
  <2> QED BY <2>2, <2>3
<1> QED BY <1>2, <1>3, <1>4, <1>5

\* The request, the metadata and the source are read as they were written.
LEMMA RequestBack ==
  ASSUME NEW f, NEW r, Held(f, "request_json") = RequestSection(r).bytes,
         Accepts(Canonical(r))
  PROVE  ReadableRequest(f) /\ RequestIn(f) = Read(Canonical(r))
<1> DEFINE cell == [document |-> Canonical(r)]
<1>1. Held(f, "request_json") = <<cell>>
  BY DEF RequestSection, Section
<1>2. Len(<<cell>>) = 1 /\ <<cell>>[1] = cell
  BY OneItem
<1>3. DOMAIN cell = {"document"} /\ cell.document = Canonical(r)
  OBVIOUS
<1> HIDE DEF cell
<1> QED BY <1>1, <1>2, <1>3 DEF ReadableRequest, RequestIn, SingleCell, OfForm

\* The metadata of f is that of b.
MetadataOf(f, b) ==
  /\ Metadata(f).digests = b.comps
  /\ Metadata(f).first = b.first /\ Metadata(f).second = b.second

\* The metadata is read as it was written,
LEMMA MetadataBack ==
  ASSUME NEW f, NEW b, Held(f, "metadata") = MetadataSection(b).bytes
  PROVE  ReadableMetadata(f) /\ MetadataOf(f, b)
<1> DEFINE cell == [version |-> 1, first |-> b.first, second |-> b.second,
                    digests |-> b.comps]
<1>1. Held(f, "metadata") = <<cell>>
  BY DEF MetadataSection, Section
<1>2. Len(<<cell>>) = 1 /\ <<cell>>[1] = cell
  BY OneItem
<1>3. /\ DOMAIN cell = {"version", "first", "second", "digests"} /\ cell.version = 1
      /\ cell.first = b.first /\ cell.second = b.second /\ cell.digests = b.comps
  OBVIOUS
<1> HIDE DEF cell
<1> QED BY <1>1, <1>2, <1>3 DEF ReadableMetadata, SingleCell, OfForm, Metadata, MetadataOf

\* and so is the file inside a file,
LEMMA SourceBack ==
  ASSUME NEW f, NEW source, Held(f, "source_boundary") = SourceSection(source).bytes
  PROVE  SingleCell(Held(f, "source_boundary"), {"inner"}) /\ SourceIn(f) = source
<1> DEFINE cell == [inner |-> source]
<1>1. Held(f, "source_boundary") = <<cell>>
  BY DEF SourceSection, Section
<1>2. Len(<<cell>>) = 1 /\ <<cell>>[1] = cell
  BY OneItem
<1>3. DOMAIN cell = {"inner"} /\ cell.inner = source
  OBVIOUS
<1> HIDE DEF cell
<1> QED BY <1>1, <1>2, <1>3 DEF SingleCell, OfForm, SourceIn

\* Three sections are of one item each.
LEMMA MetadataLong ==
  /\ \A b : Len(MetadataSection(b).bytes) = 1
  /\ \A r : Len(RequestSection(r).bytes) = 1
  /\ \A source : Len(SourceSection(source).bytes) = 1
  BY OneItem DEF MetadataSection, RequestSection, SourceSection, Section

\* The codes are read as they were written,
LEMMA CodesBack ==
  ASSUME NEW codes, NEW n, ProperList(codes, n), NEW cells, cells = CodesSection(codes).bytes
  PROVE  /\ Len(cells) = n + 1 /\ List(cells, {"code"}) /\ cells[1].count = n
         /\ [i \in 1 .. Len(Items(cells)) |-> Items(cells)[i].code] = codes
<1> DEFINE x == [i \in 1 .. n |-> [code |-> codes[i]]]
<1>1. n \in Nat /\ codes = [i \in 1 .. n |-> codes[i]]
  BY DEF ProperList
<1>2. Len(codes) = n
  BY <1>1
<1>3. /\ x = [i \in 1 .. n |-> x[i]]
      /\ \A i \in 1 .. n : DOMAIN x[i] = {"code"} /\ x[i].code = codes[i]
  OBVIOUS
<1>4. cells = Counted(x)
  BY <1>2 DEF CodesSection, Section
<1> HIDE DEF x
<1>5. ListOf(cells, x, n, {"code"})
  <2>1. Alike(x, n, {"code"})
    BY <1>1, <1>3 DEF Alike, ProperList
  <2> QED BY <1>4, <2>1, ListBack
<1>6. [i \in 1 .. n |-> x[i].code] = codes
  BY <1>1, <1>3
<1> QED BY <1>5, <1>6 DEF ListOf

\* and so are the conditions,
LEMMA ConditionsBack ==
  ASSUME NEW conditions, NEW n, ProperList(conditions, n),
         NEW cells, cells = ConditionsSection(conditions).bytes
  PROVE  /\ Len(cells) = n + 1 /\ List(cells, {"condition"}) /\ cells[1].count = n
         /\ [i \in 1 .. Len(Items(cells)) |-> Items(cells)[i].condition] = conditions
<1> DEFINE x == [i \in 1 .. n |-> [condition |-> conditions[i]]]
<1>1. n \in Nat /\ conditions = [i \in 1 .. n |-> conditions[i]]
  BY DEF ProperList
<1>2. Len(conditions) = n
  BY <1>1
<1>3. /\ x = [i \in 1 .. n |-> x[i]]
      /\ \A i \in 1 .. n : DOMAIN x[i] = {"condition"} /\ x[i].condition = conditions[i]
  OBVIOUS
<1>4. cells = Counted(x)
  BY <1>2 DEF ConditionsSection, Section
<1> HIDE DEF x
<1>5. ListOf(cells, x, n, {"condition"})
  <2>1. Alike(x, n, {"condition"})
    BY <1>1, <1>3 DEF Alike, ProperList
  <2> QED BY <1>4, <2>1, ListBack
<1>6. [i \in 1 .. n |-> x[i].condition] = conditions
  BY <1>1, <1>3
<1> QED BY <1>5, <1>6 DEF ListOf

\* the completed latents,
LEMMA LatentsBack ==
  ASSUME NEW completed, NEW n, ProperList(completed, n), NEW finite,
         NEW cells, cells = LatentsSection(completed, finite).bytes
  PROVE  /\ Len(cells) = n + 1 /\ List(cells, {"latents", "finite"}) /\ cells[1].count = n
         /\ [i \in 1 .. Len(Items(cells)) |-> Items(cells)[i].latents] = completed
<1> DEFINE x == [i \in 1 .. n |-> [latents |-> completed[i], finite |-> finite]]
<1>1. n \in Nat /\ completed = [i \in 1 .. n |-> completed[i]]
  BY DEF ProperList
<1>2. Len(completed) = n
  BY <1>1
<1>3. /\ x = [i \in 1 .. n |-> x[i]]
      /\ \A i \in 1 .. n : DOMAIN x[i] = {"latents", "finite"} /\ x[i].latents = completed[i]
  OBVIOUS
<1>4. cells = Counted(x)
  BY <1>2 DEF LatentsSection, Section
<1> HIDE DEF x
<1>5. ListOf(cells, x, n, {"latents", "finite"})
  <2>1. Alike(x, n, {"latents", "finite"})
    BY <1>1, <1>3 DEF Alike, ProperList
  <2> QED BY <1>4, <2>1, ListBack
<1>6. [i \in 1 .. n |-> x[i].latents] = completed
  BY <1>1, <1>3
<1> QED BY <1>5, <1>6 DEF ListOf

\* the Euler state
LEMMA EulerBack ==
  ASSUME NEW active, NEW finite, NEW cells, cells = EulerSection(active, finite).bytes
  PROVE  /\ Len(cells) = 2 /\ List(cells, {"euler", "finite"}) /\ cells[1].count = 1
         /\ Len(Items(cells)) = 1 /\ Items(cells)[1].euler = active
<1> DEFINE x == <<[euler |-> active, finite |-> finite]>>
<1>1. x = [i \in 1 .. 1 |-> x[i]] /\ \A i \in 1 .. 1 : DOMAIN x[i] = {"euler", "finite"}
      /\ x[1].euler = active
  OBVIOUS
<1>2. cells = Counted(x)
  BY DEF EulerSection, Section
<1> HIDE DEF x
<1>3. ListOf(cells, x, 1, {"euler", "finite"})
  <2>1. Alike(x, 1, {"euler", "finite"})
    BY <1>1 DEF Alike, ProperList
  <2> QED BY <1>2, <2>1, ListBack
<1> QED BY <1>1, <1>3 DEF ListOf

\* and the carry.
LEMMA CarryBack ==
  ASSUME NEW carry, NEW cells, cells = CarrySection(carry).bytes
  PROVE  /\ Len(cells) = 3 /\ List(cells, {"carried"}) /\ cells[1].count = 2
         /\ Items(cells)[2].carried = carry
<1> DEFINE x == <<[carried |-> carry], [carried |-> carry]>>
<1>1. x[2].carried = carry /\ DOMAIN x[1] = {"carried"} /\ DOMAIN x[2] = {"carried"}
      /\ x = [i \in 1 .. 2 |-> x[i]]
  OBVIOUS
<1>2. cells = Counted(x)
  BY DEF CarrySection, Section
<1> HIDE DEF x
<1>3. \A i \in 1 .. 2 : DOMAIN x[i] = {"carried"}
  BY <1>1
<1>4. ListOf(cells, x, 2, {"carried"})
  <2>1. Alike(x, 2, {"carried"})
    BY <1>1, <1>3 DEF Alike, ProperList
  <2> QED BY <1>2, <2>1, ListBack
<1> QED BY <1>1, <1>4 DEF ListOf

\* Nothing that is not finite is in a finite file.
LEMMA FiniteBack ==
  ASSUME NEW f, FiniteFile(f), NEW cells, NEW fields, "finite" \in fields,
         Len(cells) \in Nat, List(cells, fields),
         \A m \in 1 .. Len(cells) : InPayload(f, cells[m])
  PROVE  \A i \in 2 .. Len(cells) : cells[i].finite
<1> SUFFICES ASSUME NEW i \in 2 .. Len(cells) PROVE cells[i].finite
  OBVIOUS
<1>1. i \in 1 .. Len(cells) /\ "finite" \in DOMAIN cells[i]
  BY DEF List, OfForm
<1>2. PICK k \in 1 .. Len(f.payload) : f.payload[k] = cells[i]
  BY <1>1 DEF InPayload
<1>3. "finite" \in DOMAIN f.payload[k]
  BY <1>1, <1>2
<1>4. f.payload[k].finite
  BY <1>3 DEF FiniteFile
<1> QED BY <1>2, <1>4

-----------------------------------------------------------------------------
(***************************************************************************)
(* Reading back what was written: the four kinds of file.                  *)
(***************************************************************************)

\* A section is found by its kind, and its items are in the payload.
FoundIn(f, sec) ==
  /\ Held(f, sec.kind) = sec.bytes
  /\ \A m \in 1 .. Len(sec.bytes) : InPayload(f, sec.bytes[m])

\* The sections a kind of boundary asks for.
AreSections(kind, S, n) == SectionsOf[kind] = S /\ Cardinality(SectionsOf[kind]) = n

\* A file of three sections is opened, and each is found,
LEMMA ThreeBack ==
  ASSUME NEW kind \in Kinds, NEW x, NEW y, NEW z, NEW f,
         MadeAs(f, kind, <<x, y, z>>), AreSections(kind, {x.kind, y.kind, z.kind}, 3),
         HeaderOf(3) + Len(f.payload) <= MaxBlob
  PROVE  /\ Opens(f, kind) /\ f.magic = kind
         /\ FoundIn(f, x) /\ FoundIn(f, y) /\ FoundIn(f, z)
<1> DEFINE secs == <<x, y, z>>
<1>1. Len(secs) = 3 /\ secs[1] = x /\ secs[2] = y /\ secs[3] = z
  BY ThreeOf
<1>2. MadeAs(f, kind, secs)
  OBVIOUS
<1> HIDE DEF secs
<1>5. \A k \in SectionsOf[kind] : \E i \in 1 .. Len(secs) : secs[i].kind = k
  BY <1>1 DEF AreSections
<1>6. Opens(f, kind) /\ f.magic = kind
  <2>1. OfKind(f, secs, kind)
    BY <1>1, <1>5 DEF OfKind, AreSections
  <2> QED BY <1>2, <2>1, WrittenOpens
<1>7. ASSUME NEW i \in 1 .. Len(secs) PROVE FoundIn(f, secs[i])
  <2>1. HeldAt(f, secs, i) /\ \A j \in 1 .. Len(secs[i].bytes) : InPayload(f, secs[i].bytes[j])
    BY <1>2, OneSection DEF MadeAs
  <2> QED BY <2>1 DEF HeldAt, FoundIn
<1>8. FoundIn(f, secs[1]) /\ FoundIn(f, secs[2]) /\ FoundIn(f, secs[3])
  BY <1>1, <1>7
<1> QED BY <1>1, <1>6, <1>8

\* and of one of five.
LEMMA FiveBack ==
  ASSUME NEW kind \in Kinds, NEW x, NEW y, NEW z, NEW v, NEW w, NEW f,
         MadeAs(f, kind, <<x, y, z, v, w>>),
         AreSections(kind, {x.kind, y.kind, z.kind, v.kind, w.kind}, 5),
         HeaderOf(5) + Len(f.payload) <= MaxBlob
  PROVE  /\ Opens(f, kind) /\ f.magic = kind
         /\ FoundIn(f, x) /\ FoundIn(f, y) /\ FoundIn(f, z) /\ FoundIn(f, v) /\ FoundIn(f, w)
<1> DEFINE secs == <<x, y, z, v, w>>
<1>1. Len(secs) = 5 /\ secs[1] = x /\ secs[2] = y /\ secs[3] = z /\ secs[4] = v /\ secs[5] = w
  BY FiveOf
<1>2. MadeAs(f, kind, secs)
  OBVIOUS
<1> HIDE DEF secs
<1>5. \A k \in SectionsOf[kind] : \E i \in 1 .. Len(secs) : secs[i].kind = k
  BY <1>1 DEF AreSections
<1>6. Opens(f, kind) /\ f.magic = kind
  <2>1. OfKind(f, secs, kind)
    BY <1>1, <1>5 DEF OfKind, AreSections
  <2> QED BY <1>2, <2>1, WrittenOpens
<1>7. ASSUME NEW i \in 1 .. Len(secs) PROVE FoundIn(f, secs[i])
  <2>1. HeldAt(f, secs, i) /\ \A j \in 1 .. Len(secs[i].bytes) : InPayload(f, secs[i].bytes[j])
    BY <1>2, OneSection DEF MadeAs
  <2> QED BY <2>1 DEF HeldAt, FoundIn
<1>8. /\ FoundIn(f, secs[1]) /\ FoundIn(f, secs[2]) /\ FoundIn(f, secs[3])
      /\ FoundIn(f, secs[4]) /\ FoundIn(f, secs[5])
  BY <1>1, <1>7
<1> QED BY <1>1, <1>6, <1>8

\* A song of at most 7500 frames has no more windows than frames.
LEMMA FewWindows ==
  ASSUME NEW frames \in Nat \ {0}
  PROVE  WindowCount(frames) \in 1 .. frames
<1>1. WindowCount(frames) \in Nat \ {0}
  BY WindowsInside
<1>2. CASE frames <= WindowFrames
  BY <1>2 DEF WindowCount
<1>3. CASE ~(frames <= WindowFrames)
  <2> DEFINE a == frames - 1  h == HopFrames  q == a \div h
  <2>1. a \in Nat /\ h \in Nat \ {0}
    BY WindowAssumption
  <2>2. WindowCount(frames) = q
    BY <1>3 DEF WindowCount
  <2>3. q \in Nat /\ q * h <= a
    <3> HIDE DEF a, h
    <3> QED BY <2>1, QuotientBounds
  <2> HIDE DEF q, h
  <2>4. q <= q * h
    <3>1. 1 * q <= h * q
      BY <2>1, <2>3, ProductOrder
    <3>2. 1 * q = q /\ h * q = q * h
      BY <2>1, <2>3
    <3> QED BY <3>1, <3>2
  <2>5. q * h \in Nat
    BY <2>1, <2>3
  <2> QED BY <1>1, <2>2, <2>3, <2>4, <2>5
<1> QED BY <1>2, <1>3

\* A request that is short enough to be written, and what it asks for.
Readable(r) == r \in Requests /\ Accepts(Canonical(r)) /\ Read(Canonical(r)) = r

\* The lengths of a run of CODES are within the limits of the reader.
LEMMA Sizes ==
  ASSUME NEW c \in Components, NEW r \in Requests
  PROVE  /\ Target[r] \in Nat /\ Target[r] <= 7500 /\ Target[r] + 300 <= MaxBlob
         /\ MaxBlob \in Nat
         /\ RefLength(c, r) \in Nat /\ RefLength(c, r) <= Target[r] + 1
         /\ RefGenerated(c, r) \in Nat /\ RefGenerated(c, r) <= Target[r]
<1>1. RefLength(c, r) \in Nat /\ RefGenerated(c, r) \in Nat /\ Target[r] \in Nat
  BY AllFrames
<1>2. RefLength(c, r) <= Target[r] + 1
  <2>1. EosFrame[c][r] \in Nat
    BY ModelAssumption
  <2> QED BY <1>1, <2>1 DEF RefLength, Least
<1>3. RefGenerated(c, r) <= Target[r]
  BY <1>1, <1>2 DEF RefGenerated, Greatest
<1> QED BY <1>1, <1>2, <1>3, SizeAssumption

\* A paused CODES file is read as it was written.
LEMMA PausedCodesBack ==
  ASSUME NEW c \in Components, NEW r, Readable(r), NEW n \in 0 .. RefLength(c, r),
         NEW b, b = PausedCodesAfter(c, r, n),
         NEW source, NEW finite, NEW f, f = FileOf(b, source, finite)
  PROVE  /\ f.magic = "COD" /\ ReadablePausedCodes(f) /\ MetadataOf(f, b)
         /\ PausedCodesIn(f) = b /\ CodesCursorAccepted(b)
<1> DEFINE x == RequestSection(r)  y == CodesSection(b.codes)  z == MetadataSection(b)
<1>0. r \in Requests
  BY DEF Readable
<1>1. /\ b.kind = "COD" /\ b.comps = c /\ b.first = Target[r] /\ b.second = n /\ b.req = r
      /\ b.codes = RefCodes(c, r, n)
      /\ b = [kind |-> "COD", comps |-> b.comps, first |-> b.first, second |-> b.second,
              req |-> b.req, codes |-> b.codes]
  BY DEF PausedCodesAfter
<1>2. /\ Target[r] \in Nat /\ Target[r] + 300 <= MaxBlob /\ MaxBlob \in Nat
      /\ n \in Nat /\ n <= Target[r] + 1
  BY <1>0, Sizes
<1>3. Len(b.codes) = n /\ ProperList(b.codes, n)
  <2>1. Len(RefCodes(c, r, n)) = n
    BY <1>2, OneMoreCode
  <2>2. b.codes = [i \in 1 .. n |-> b.codes[i]]
    BY <1>1 DEF RefCodes
  <2> QED BY <1>1, <1>2, <2>1, <2>2 DEF ProperList
<1>4. MadeAs(f, "COD", <<x, y, z>>)
  <2>1. SectionsWritten(b, source, finite) = <<x, y, z>>
    BY <1>1 DEF SectionsWritten
  <2>2. Listed(b)
    BY <1>1, <1>2, <1>3 DEF Listed
  <2>3. Written(SectionsWritten(b, source, finite))
    <3>1. b.kind \in Kinds
      BY <1>1 DEF Kinds
    <3> QED BY <2>2, <3>1, FileWritten, Zenon
  <2> HIDE DEF x, y, z
  <2>4. f = Encode(b.kind, StageNumber[WriterOf[b.kind]], SectionsWritten(b, source, finite))
    BY DEF FileOf
  <2> QED BY <1>1, <2>1, <2>3, <2>4 DEF MadeAs
<1>5. x.kind = "request_json" /\ y.kind = "ar_codes_i32" /\ z.kind = "metadata"
  BY SectionKindsWritten
<1>6. Len(x.bytes) = 1 /\ Len(y.bytes) = n + 1 /\ Len(z.bytes) = 1
  BY <1>3, MetadataLong, CodesBack
<1>7. /\ List(y.bytes, {"code"})
      /\ [i \in 1 .. Len(Items(y.bytes)) |-> Items(y.bytes)[i].code] = b.codes
  <2> DEFINE cells == y.bytes
  <2>1. cells = CodesSection(b.codes).bytes
    OBVIOUS
  <2> HIDE DEF y, cells
  <2>2. /\ List(cells, {"code"})
        /\ [i \in 1 .. Len(Items(cells)) |-> Items(cells)[i].code] = b.codes
    BY <1>3, <2>1, CodesBack
  <2> QED BY <2>2 DEF cells
<1>10. x.bytes = RequestSection(r).bytes /\ z.bytes = MetadataSection(b).bytes
  OBVIOUS
<1> HIDE DEF x, y, z
<1>8. SectionsOf["COD"] = {x.kind, y.kind, z.kind}
  <2>1. SectionsOf["COD"] = {"request_json", "ar_codes_i32", "metadata"}
    BY DEF SectionsOf
  <2> QED BY <1>5, <2>1
<1>11. Opens(f, "COD") /\ f.magic = "COD" /\ FoundIn(f, x) /\ FoundIn(f, y) /\ FoundIn(f, z)
  <2> DEFINE kind == "COD"  one == 1  m == n + 1
  <2>1. LongAs(x, one) /\ LongAs(y, m) /\ LongAs(z, one) /\ MadeAs(f, kind, <<x, y, z>>)
    BY <1>4, <1>6 DEF LongAs
  <2>2. kind \in Kinds /\ AreSections(kind, {x.kind, y.kind, z.kind}, 3)
    BY <1>8, SectionCounts DEF Kinds, AreSections
  <2> HIDE DEF kind, one, m
  <2>3. ThreeTotal(f, one, m, one)
    BY <2>1, ThreeLong
  <2>4. HeaderOf(3) + Len(f.payload) <= MaxBlob
    BY <1>2, <2>3 DEF ThreeTotal, one, m, HeaderOf, FixedHeader, EntryBytes
  <2>5. Opens(f, kind) /\ f.magic = kind /\ FoundIn(f, x) /\ FoundIn(f, y) /\ FoundIn(f, z)
    BY <2>1, <2>2, <2>4, ThreeBack
  <2> QED BY <2>5 DEF kind
<1>12. /\ Held(f, "request_json") = x.bytes /\ Held(f, "ar_codes_i32") = y.bytes
       /\ Held(f, "metadata") = z.bytes
  BY <1>5, <1>11 DEF FoundIn
<1>13. ReadableRequest(f) /\ RequestIn(f) = r
  BY <1>10, <1>12, RequestBack DEF Readable
<1>14. ReadableMetadata(f) /\ MetadataOf(f, b)
  BY <1>10, <1>12, MetadataBack
<1>15. CodesIn(f) = b.codes
  BY <1>7, <1>12 DEF CodesIn
<1>16. PausedCodesIn(f) = b
  BY <1>1, <1>13, <1>14, <1>15 DEF PausedCodesIn, MetadataOf
<1>17. CodesCursorAccepted(b)
  BY <1>1, <1>2, <1>3 DEF CodesCursorAccepted
<1> QED BY <1>7, <1>11, <1>12, <1>13, <1>14, <1>16, <1>17 DEF ReadablePausedCodes

\* A song of one window at least.
Sung(c, r) == c \in Components /\ Readable(r) /\ RefGenerated(c, r) > 0

\* So are those of the windows of a song.
LEMMA SungSizes ==
  ASSUME NEW c, NEW r, Sung(c, r)
  PROVE  /\ c \in Components /\ r \in Requests
         /\ RefGenerated(c, r) \in Nat \ {0} /\ RefGenerated(c, r) <= 7500
         /\ RefGenerated(c, r) + 300 <= MaxBlob /\ MaxBlob \in Nat
         /\ WindowsOf(c, r) \in 1 .. RefGenerated(c, r)
         /\ WindowsOf(c, r) = WindowCount(RefGenerated(c, r))
         /\ Len(RefConditions(c, r)) = WindowsOf(c, r)
<1>1. c \in Components /\ r \in Requests
  BY DEF Sung, Readable
<1>2. /\ Target[r] \in Nat /\ Target[r] <= 7500 /\ Target[r] + 300 <= MaxBlob
      /\ MaxBlob \in Nat /\ RefGenerated(c, r) \in Nat /\ RefGenerated(c, r) <= Target[r]
  BY <1>1, Sizes
<1>3. RefGenerated(c, r) # 0
  BY <1>2 DEF Sung
<1>4. WindowsOf(c, r) \in 1 .. RefGenerated(c, r)
  BY <1>2, <1>3, FewWindows DEF WindowsOf
<1>5. Len(RefConditions(c, r)) = WindowsOf(c, r)
  BY <1>2, <1>4 DEF RefConditions, WindowsOf
<1> QED BY <1>1, <1>2, <1>3, <1>4, <1>5 DEF WindowsOf

\* A completed CODES file is read as it was written.
LEMMA CompletedCodesBack ==
  ASSUME NEW c, NEW r, Sung(c, r), NEW b, b = CompletedCodesOf(c, r),
         NEW source, NEW finite, NEW f, f = FileOf(b, source, finite)
  PROVE  /\ f.magic = "CON" /\ ReadableCompletedCodes(f) /\ MetadataOf(f, b)
         /\ CompletedCodesIn(f) = b /\ ConditionWindowsAccepted(b)
<1> DEFINE x == RequestSection(r)  y == ConditionsSection(b.conditions)
           z == MetadataSection(b)  n == WindowsOf(c, r)
<1>0. /\ c \in Components /\ r \in Requests /\ RefGenerated(c, r) \in Nat \ {0}
      /\ RefGenerated(c, r) <= 7500 /\ RefGenerated(c, r) + 300 <= MaxBlob
      /\ MaxBlob \in Nat /\ n \in 1 .. RefGenerated(c, r)
      /\ n = WindowCount(RefGenerated(c, r)) /\ Len(RefConditions(c, r)) = n
  BY SungSizes
<1> HIDE DEF n
<1>1. /\ b.kind = "CON" /\ b.comps = c /\ b.first = RefGenerated(c, r) /\ b.second = n
      /\ b.req = r /\ b.conditions = RefConditions(c, r)
      /\ b = [kind |-> "CON", comps |-> b.comps, first |-> b.first, second |-> b.second,
              req |-> b.req, conditions |-> b.conditions]
  BY <1>0 DEF CompletedCodesOf
<1>2. n \in Nat /\ n > 0 /\ n <= 7500 /\ n + 300 <= MaxBlob
  BY <1>0
<1>3. Len(b.conditions) = n /\ ProperList(b.conditions, n)
  <2>1. b.conditions = [i \in 1 .. n |-> b.conditions[i]]
    BY <1>0, <1>1 DEF RefConditions
  <2> QED BY <1>0, <1>1, <1>2, <2>1 DEF ProperList
<1>4. MadeAs(f, "CON", <<x, y, z>>)
  <2>1. SectionsWritten(b, source, finite) = <<x, y, z>>
    BY <1>1 DEF SectionsWritten
  <2>2. Listed(b)
    BY <1>1, <1>2, <1>3 DEF Listed
  <2>3. Written(SectionsWritten(b, source, finite))
    <3>1. b.kind \in Kinds
      BY <1>1 DEF Kinds
    <3> QED BY <2>2, <3>1, FileWritten, Zenon
  <2> HIDE DEF x, y, z
  <2>4. f = Encode(b.kind, StageNumber[WriterOf[b.kind]], SectionsWritten(b, source, finite))
    BY DEF FileOf
  <2> QED BY <1>1, <2>1, <2>3, <2>4 DEF MadeAs
<1>5. x.kind = "request_json" /\ y.kind = "conditions_bf16" /\ z.kind = "metadata"
  BY SectionKindsWritten
<1>6. Len(x.bytes) = 1 /\ Len(y.bytes) = n + 1 /\ Len(z.bytes) = 1
  BY <1>3, MetadataLong, ConditionsBack
<1>7. /\ List(y.bytes, {"condition"}) /\ y.bytes[1].count = n
      /\ [i \in 1 .. Len(Items(y.bytes)) |-> Items(y.bytes)[i].condition] = b.conditions
  <2> DEFINE cells == y.bytes
  <2> DEFINE list == b.conditions
  <2>1. cells = ConditionsSection(list).bytes /\ ProperList(list, n)
    BY <1>3
  <2> HIDE DEF y, cells, list
  <2>2. /\ List(cells, {"condition"}) /\ cells[1].count = n
        /\ [i \in 1 .. Len(Items(cells)) |-> Items(cells)[i].condition] = list
    BY ONLY <2>1, ConditionsBack
  <2> QED BY <2>2 DEF cells, list
<1>10. x.bytes = RequestSection(r).bytes /\ z.bytes = MetadataSection(b).bytes
  OBVIOUS
<1> HIDE DEF x, y, z
<1>8. SectionsOf["CON"] = {x.kind, y.kind, z.kind}
  <2>1. SectionsOf["CON"] = {"request_json", "conditions_bf16", "metadata"}
    BY DEF SectionsOf
  <2> QED BY <1>5, <2>1
<1>11. Opens(f, "CON") /\ f.magic = "CON" /\ FoundIn(f, x) /\ FoundIn(f, y) /\ FoundIn(f, z)
  <2> DEFINE kind == "CON"  one == 1  m == n + 1
  <2>1. LongAs(x, one) /\ LongAs(y, m) /\ LongAs(z, one) /\ MadeAs(f, kind, <<x, y, z>>)
    BY <1>4, <1>6 DEF LongAs
  <2>2. kind \in Kinds /\ AreSections(kind, {x.kind, y.kind, z.kind}, 3)
    BY <1>8, SectionCounts DEF Kinds, AreSections
  <2> HIDE DEF kind, one, m
  <2>3. ThreeTotal(f, one, m, one)
    BY <2>1, ThreeLong
  <2>4. HeaderOf(3) + Len(f.payload) <= MaxBlob
    BY <1>0, <1>2, <2>3 DEF ThreeTotal, one, m, HeaderOf, FixedHeader, EntryBytes
  <2>5. Opens(f, kind) /\ f.magic = kind /\ FoundIn(f, x) /\ FoundIn(f, y) /\ FoundIn(f, z)
    BY <2>1, <2>2, <2>4, ThreeBack
  <2> QED BY <2>5 DEF kind
<1>12. /\ Held(f, "request_json") = x.bytes /\ Held(f, "conditions_bf16") = y.bytes
       /\ Held(f, "metadata") = z.bytes
  BY <1>5, <1>11 DEF FoundIn
<1>13. ReadableRequest(f) /\ RequestIn(f) = r
  BY <1>10, <1>12, RequestBack DEF Sung, Readable
<1>14. ReadableMetadata(f) /\ MetadataOf(f, b)
  BY <1>10, <1>12, MetadataBack
<1>15. ConditionsIn(f) = b.conditions /\ ReadableConditions(Held(f, "conditions_bf16"))
  <2>1. ConditionsIn(f) = b.conditions
    BY <1>7, <1>12 DEF ConditionsIn
  <2>2. ReadableConditions(y.bytes)
    BY <1>2, <1>7 DEF ReadableConditions
  <2> QED BY <1>12, <2>1, <2>2
<1>16. CompletedCodesIn(f) = b
  BY <1>1, <1>13, <1>14, <1>15 DEF CompletedCodesIn, MetadataOf
<1>17. ConditionWindowsAccepted(b)
  <2>1. \A i \in 1 .. n : RefConditions(c, r)[i].frames = FramesOf(RefGenerated(c, r), i)
    BY <1>0, ConditionAt DEF WindowsIn
  <2> QED BY <1>0, <1>1, <1>3, <2>1 DEF ConditionWindowsAccepted
<1> QED BY <1>11, <1>13, <1>14, <1>15, <1>16, <1>17 DEF ReadableCompletedCodes

\* What a DIFFUSE file holds of a CODES file that was read.
LEMMA LatentsFound ==
  ASSUME NEW f, FiniteFile(f), NEW completed, NEW n, ProperList(completed, n), n <= 10000,
         NEW finite, NEW y, y = LatentsSection(completed, finite), FoundIn(f, y)
  PROVE  /\ ReadableLatents(Held(f, "completed_latents_f32")) /\ LatentsIn(f) = completed
<1> DEFINE cells == y.bytes
<1>0. n \in Nat
  BY DEF ProperList
<1>1. cells = LatentsSection(completed, finite).bytes
  OBVIOUS
<1>2. Held(f, "completed_latents_f32") = cells /\ \A m \in 1 .. Len(cells) : InPayload(f, cells[m])
  <2>1. y.kind = "completed_latents_f32"
    BY SectionKindsWritten
  <2> QED BY <2>1 DEF FoundIn
<1> HIDE DEF cells
<1>3. /\ Len(cells) = n + 1 /\ List(cells, {"latents", "finite"}) /\ cells[1].count = n
      /\ [i \in 1 .. Len(Items(cells)) |-> Items(cells)[i].latents] = completed
  BY <1>1, LatentsBack
<1>4. \A i \in 2 .. Len(cells) : cells[i].finite
  <2> DEFINE fields == {"latents", "finite"}
  <2>1. "finite" \in fields /\ List(cells, fields) /\ Len(cells) \in Nat
    BY <1>0, <1>3
  <2> HIDE DEF fields
  <2> QED BY <1>2, <2>1, FiniteBack
<1>5. ReadableLatents(cells)
  BY <1>0, <1>3, <1>4 DEF ReadableLatents, FiniteList
<1>6. LatentsIn(f) = completed
  BY <1>2, <1>3 DEF LatentsIn
<1> QED BY <1>2, <1>5, <1>6

\* The Euler state found in a finite file is taken,
LEMMA EulerFound ==
  ASSUME NEW f, FiniteFile(f), NEW active,
         NEW finite, NEW y, y = EulerSection(active, finite), FoundIn(f, y)
  PROVE  /\ ReadableEuler(Held(f, "euler_state_f32"))
         /\ Items(Held(f, "euler_state_f32"))[1].euler = active
<1> DEFINE cells == y.bytes
<1>1. cells = EulerSection(active, finite).bytes
  OBVIOUS
<1>2. Held(f, "euler_state_f32") = cells /\ \A m \in 1 .. Len(cells) : InPayload(f, cells[m])
  <2>1. y.kind = "euler_state_f32"
    BY SectionKindsWritten
  <2> QED BY <2>1 DEF FoundIn
<1> HIDE DEF cells
<1>3. /\ Len(cells) = 2 /\ List(cells, {"euler", "finite"}) /\ cells[1].count = 1
      /\ Len(Items(cells)) = 1 /\ Items(cells)[1].euler = active
  BY <1>1, EulerBack
<1>4. \A i \in 2 .. Len(cells) : cells[i].finite
  <2> DEFINE fields == {"euler", "finite"}
  <2>1. "finite" \in fields /\ List(cells, fields) /\ Len(cells) \in Nat
    BY <1>3
  <2> HIDE DEF fields
  <2> QED BY <1>2, <2>1, FiniteBack
<1>5. ReadableEuler(cells)
  BY <1>3, <1>4 DEF ReadableEuler, FiniteList
<1> QED BY <1>2, <1>3, <1>5

\* and so is the carry.
LEMMA CarryFound ==
  ASSUME NEW f, NEW carry, NEW y, y = CarrySection(carry), FoundIn(f, y)
  PROVE  /\ ReadableCarry(Held(f, "carry_f32"))
         /\ Items(Held(f, "carry_f32"))[2].carried = carry
<1>1. y.kind = "carry_f32"
  BY SectionKindsWritten
<1>2. Held(f, "carry_f32") = CarrySection(carry).bytes
  BY <1>1 DEF FoundIn
<1> QED BY <1>2, CarryBack DEF ReadableCarry

\* The CODES file of a song, which every DIFFUSE file of it holds.
SourceOf(f, c, r) ==
  /\ ReadableCompletedCodes(f) /\ MetadataOf(f, CompletedCodesOf(c, r))
  /\ CompletedCodesIn(f) = CompletedCodesOf(c, r)

\* A paused DIFFUSE file is read as it was written,
LEMMA PausedFlowBack ==
  ASSUME NEW c, NEW r, Sung(c, r), NEW w \in 0 .. WindowsOf(c, r) - 1, NEW step,
         NEW b, b = PausedFlowAt(c, r, w, step),
         NEW source, SourceOf(source, c, r), NEW finite,
         NEW f, f = FileOf(b, source, finite)
  PROVE  /\ f.magic = "FLW" /\ MetadataOf(f, b) /\ SourceIn(f) = source
         /\ FiniteFile(f) => ReadablePausedFlow(f) /\ PausedFlowIn(f) = b
<1> DEFINE x == SourceSection(source)  y == LatentsSection(b.completed, finite)
           z == EulerSection(b.active, finite)  u == CarrySection(b.carry)
           v == MetadataSection(b)
<1>0. /\ RefGenerated(c, r) + 300 <= MaxBlob /\ MaxBlob \in Nat
      /\ RefGenerated(c, r) \in Nat /\ RefGenerated(c, r) <= 7500
      /\ WindowsOf(c, r) \in 1 .. RefGenerated(c, r)
  BY SungSizes
<1>1. /\ b.kind = "FLW" /\ b.comps = c /\ b.first = w /\ b.second = step
      /\ b.source = CompletedCodesOf(c, r) /\ b.completed = RefLatents(c, r, w)
      /\ b = [kind |-> "FLW", comps |-> b.comps, first |-> b.first, second |-> b.second,
              source |-> b.source, completed |-> b.completed, active |-> b.active,
              carry |-> b.carry]
  BY DEF PausedFlowAt
<1>2. w \in Nat /\ w <= 7500 /\ w + 300 <= MaxBlob
  BY <1>0
<1>3. Len(b.completed) = w /\ ProperList(b.completed, w)
  <2>1. Len(RefLatents(c, r, w)) = w
    BY <1>2, OneMoreLatent
  <2>2. b.completed = [i \in 1 .. w |-> b.completed[i]]
    BY <1>1 DEF RefLatents
  <2> QED BY <1>1, <1>2, <2>1, <2>2 DEF ProperList
<1>4. MadeAs(f, "FLW", <<x, y, z, u, v>>)
  <2>1. SectionsWritten(b, source, finite) = <<x, y, z, u, v>>
    BY <1>1 DEF SectionsWritten
  <2>2. Listed(b)
    BY <1>1, <1>2, <1>3 DEF Listed
  <2>3. Written(SectionsWritten(b, source, finite))
    <3>1. b.kind \in Kinds
      BY <1>1 DEF Kinds
    <3> QED BY <2>2, <3>1, FileWritten, Zenon
  <2> HIDE DEF x, y, z, u, v
  <2>4. f = Encode(b.kind, StageNumber[WriterOf[b.kind]], SectionsWritten(b, source, finite))
    BY DEF FileOf
  <2> QED BY <1>1, <2>1, <2>3, <2>4 DEF MadeAs
<1>5. /\ x.kind = "source_boundary" /\ y.kind = "completed_latents_f32"
      /\ z.kind = "euler_state_f32" /\ u.kind = "carry_f32" /\ v.kind = "metadata"
  BY SectionKindsWritten
<1>6. /\ Len(x.bytes) = 1 /\ Len(y.bytes) = w + 1 /\ Len(z.bytes) = 2
      /\ Len(u.bytes) = 3 /\ Len(v.bytes) = 1
  BY <1>3, MetadataLong, LatentsBack, EulerBack, CarryBack
<1>7. /\ x.bytes = SourceSection(source).bytes /\ v.bytes = MetadataSection(b).bytes
      /\ y = LatentsSection(b.completed, finite) /\ z = EulerSection(b.active, finite)
      /\ u = CarrySection(b.carry)
  OBVIOUS
<1> HIDE DEF x, y, z, u, v
<1>8. SectionsOf["FLW"] = {x.kind, y.kind, z.kind, u.kind, v.kind}
  <2>1. SectionsOf["FLW"] = {"source_boundary", "completed_latents_f32", "euler_state_f32",
                             "carry_f32", "metadata"}
    BY DEF SectionsOf
  <2> QED BY <1>5, <2>1
<1>9. /\ Opens(f, "FLW") /\ f.magic = "FLW"
      /\ FoundIn(f, x) /\ FoundIn(f, y) /\ FoundIn(f, z) /\ FoundIn(f, u) /\ FoundIn(f, v)
  <2> DEFINE kind == "FLW"  one == 1  two == 2  three == 3  m == w + 1
  <2>1. /\ LongAs(x, one) /\ LongAs(y, m) /\ LongAs(z, two) /\ LongAs(u, three)
        /\ LongAs(v, one) /\ MadeAs(f, kind, <<x, y, z, u, v>>)
    BY <1>4, <1>6 DEF LongAs
  <2>2. kind \in Kinds /\ AreSections(kind, {x.kind, y.kind, z.kind, u.kind, v.kind}, 5)
    BY <1>8, SectionCounts DEF Kinds, AreSections
  <2> HIDE DEF kind, one, two, three, m
  <2>3. FiveTotal(f, one, m, two, three, one)
    BY <2>1, FiveLong
  <2>4. HeaderOf(5) + Len(f.payload) <= MaxBlob
    BY <1>0, <1>2, <2>3 DEF FiveTotal, one, two, three, m, HeaderOf, FixedHeader, EntryBytes
  <2>5. /\ Opens(f, kind) /\ f.magic = kind
        /\ FoundIn(f, x) /\ FoundIn(f, y) /\ FoundIn(f, z) /\ FoundIn(f, u) /\ FoundIn(f, v)
    BY <2>1, <2>2, <2>4, FiveBack
  <2> QED BY <2>5 DEF kind
<1>10. Held(f, "source_boundary") = x.bytes /\ Held(f, "metadata") = v.bytes
  BY <1>5, <1>9 DEF FoundIn
<1>11. SingleCell(Held(f, "source_boundary"), {"inner"}) /\ SourceIn(f) = source
  BY <1>7, <1>10, SourceBack
<1>12. ReadableMetadata(f) /\ MetadataOf(f, b)
  BY <1>7, <1>10, MetadataBack
<1>13. FiniteFile(f)
         => ReadableLatents(Held(f, "completed_latents_f32")) /\ LatentsIn(f) = b.completed
  <2> SUFFICES ASSUME FiniteFile(f)
               PROVE  ReadableLatents(Held(f, "completed_latents_f32"))
                        /\ LatentsIn(f) = b.completed
    OBVIOUS
  <2> DEFINE list == b.completed
  <2>1. ProperList(list, w) /\ w <= 10000 /\ y = LatentsSection(list, finite)
    BY <1>2, <1>3, <1>7
  <2> HIDE DEF list
  <2>2. ReadableLatents(Held(f, "completed_latents_f32")) /\ LatentsIn(f) = list
    BY <1>9, <2>1, LatentsFound
  <2> QED BY <2>2 DEF list
<1>14. FiniteFile(f)
         => /\ ReadableEuler(Held(f, "euler_state_f32"))
            /\ Items(Held(f, "euler_state_f32"))[1].euler = b.active
  BY <1>7, <1>9, EulerFound
<1>15. /\ ReadableCarry(Held(f, "carry_f32"))
       /\ Items(Held(f, "carry_f32"))[2].carried = b.carry
  BY <1>7, <1>9, CarryFound
<1>16. CompletedCodesIn(SourceIn(f)) = b.source /\ ReadableCompletedCodes(SourceIn(f))
  BY <1>1, <1>11 DEF SourceOf
<1>17. FiniteFile(f) => PausedFlowIn(f) = b
  BY <1>1, <1>12, <1>13, <1>14, <1>15, <1>16 DEF PausedFlowIn, MetadataOf
<1>18. FiniteFile(f) => ReadablePausedFlow(f)
  BY <1>9, <1>11, <1>12, <1>13, <1>14, <1>15, <1>16 DEF ReadablePausedFlow, ReadableFlow
<1> QED BY <1>9, <1>11, <1>12, <1>17, <1>18

\* and so is a completed one.
LEMMA CompletedFlowBack ==
  ASSUME NEW c, NEW r, Sung(c, r), NEW b, b = CompletedFlowOf(c, r),
         NEW source, SourceOf(source, c, r), NEW finite,
         NEW f, f = FileOf(b, source, finite)
  PROVE  /\ f.magic = "LAT" /\ MetadataOf(f, b) /\ SourceIn(f) = source
         /\ FiniteFile(f) => ReadableFlow(f, "LAT") /\ CompletedFlowIn(f) = b
<1> DEFINE x == SourceSection(source)  y == LatentsSection(b.completed, finite)
           z == MetadataSection(b)  w == WindowsOf(c, r)
<1>0. /\ RefGenerated(c, r) + 300 <= MaxBlob /\ MaxBlob \in Nat
      /\ RefGenerated(c, r) \in Nat /\ RefGenerated(c, r) <= 7500
      /\ w \in 1 .. RefGenerated(c, r)
  BY SungSizes
<1>1. /\ b.kind = "LAT" /\ b.comps = c /\ b.first = w /\ b.second = 0
      /\ b.source = CompletedCodesOf(c, r) /\ b.completed = RefLatents(c, r, w)
      /\ b = [kind |-> "LAT", comps |-> b.comps, first |-> b.first, second |-> b.second,
              source |-> b.source, completed |-> b.completed]
  BY DEF CompletedFlowOf
<1> HIDE DEF w
<1>2. w \in Nat /\ w <= 7500 /\ w + 300 <= MaxBlob
  BY <1>0
<1>3. Len(b.completed) = w /\ ProperList(b.completed, w)
  <2>1. Len(RefLatents(c, r, w)) = w
    BY <1>2, OneMoreLatent
  <2>2. b.completed = [i \in 1 .. w |-> b.completed[i]]
    BY <1>1 DEF RefLatents
  <2> QED BY <1>1, <1>2, <2>1, <2>2 DEF ProperList
<1>4. MadeAs(f, "LAT", <<x, y, z>>)
  <2>1. SectionsWritten(b, source, finite) = <<x, y, z>>
    BY <1>1 DEF SectionsWritten
  <2>2. Listed(b)
    BY <1>1, <1>2, <1>3 DEF Listed
  <2>3. Written(SectionsWritten(b, source, finite))
    <3>1. b.kind \in Kinds
      BY <1>1 DEF Kinds
    <3> QED BY <2>2, <3>1, FileWritten, Zenon
  <2> HIDE DEF x, y, z
  <2>4. f = Encode(b.kind, StageNumber[WriterOf[b.kind]], SectionsWritten(b, source, finite))
    BY DEF FileOf
  <2> QED BY <1>1, <2>1, <2>3, <2>4 DEF MadeAs
<1>5. x.kind = "source_boundary" /\ y.kind = "completed_latents_f32" /\ z.kind = "metadata"
  BY SectionKindsWritten
<1>6. Len(x.bytes) = 1 /\ Len(y.bytes) = w + 1 /\ Len(z.bytes) = 1
  BY <1>3, MetadataLong, LatentsBack
<1>7. /\ x.bytes = SourceSection(source).bytes /\ z.bytes = MetadataSection(b).bytes
      /\ y = LatentsSection(b.completed, finite)
  OBVIOUS
<1> HIDE DEF x, y, z
<1>8. SectionsOf["LAT"] = {x.kind, y.kind, z.kind}
  <2>1. SectionsOf["LAT"] = {"source_boundary", "completed_latents_f32", "metadata"}
    BY DEF SectionsOf
  <2> QED BY <1>5, <2>1
<1>9. Opens(f, "LAT") /\ f.magic = "LAT" /\ FoundIn(f, x) /\ FoundIn(f, y) /\ FoundIn(f, z)
  <2> DEFINE kind == "LAT"  one == 1  m == w + 1
  <2>1. LongAs(x, one) /\ LongAs(y, m) /\ LongAs(z, one) /\ MadeAs(f, kind, <<x, y, z>>)
    BY <1>4, <1>6 DEF LongAs
  <2>2. kind \in Kinds /\ AreSections(kind, {x.kind, y.kind, z.kind}, 3)
    BY <1>8, SectionCounts DEF Kinds, AreSections
  <2> HIDE DEF kind, one, m
  <2>3. ThreeTotal(f, one, m, one)
    BY <2>1, ThreeLong
  <2>4. HeaderOf(3) + Len(f.payload) <= MaxBlob
    BY <1>0, <1>2, <2>3 DEF ThreeTotal, one, m, HeaderOf, FixedHeader, EntryBytes
  <2>5. Opens(f, kind) /\ f.magic = kind /\ FoundIn(f, x) /\ FoundIn(f, y) /\ FoundIn(f, z)
    BY <2>1, <2>2, <2>4, ThreeBack
  <2> QED BY <2>5 DEF kind
<1>10. Held(f, "source_boundary") = x.bytes /\ Held(f, "metadata") = z.bytes
  BY <1>5, <1>9 DEF FoundIn
<1>11. SingleCell(Held(f, "source_boundary"), {"inner"}) /\ SourceIn(f) = source
  BY <1>7, <1>10, SourceBack
<1>12. ReadableMetadata(f) /\ MetadataOf(f, b)
  BY <1>7, <1>10, MetadataBack
<1>13. FiniteFile(f)
         => ReadableLatents(Held(f, "completed_latents_f32")) /\ LatentsIn(f) = b.completed
  <2> SUFFICES ASSUME FiniteFile(f)
               PROVE  ReadableLatents(Held(f, "completed_latents_f32"))
                        /\ LatentsIn(f) = b.completed
    OBVIOUS
  <2> DEFINE list == b.completed
  <2>1. ProperList(list, w) /\ w <= 10000 /\ y = LatentsSection(list, finite)
    BY <1>2, <1>3, <1>7
  <2> HIDE DEF list
  <2>2. ReadableLatents(Held(f, "completed_latents_f32")) /\ LatentsIn(f) = list
    BY <1>9, <2>1, LatentsFound
  <2> QED BY <2>2 DEF list
<1>16. CompletedCodesIn(SourceIn(f)) = b.source /\ ReadableCompletedCodes(SourceIn(f))
  BY <1>1, <1>11 DEF SourceOf
<1>17. FiniteFile(f) => CompletedFlowIn(f) = b
  BY <1>1, <1>12, <1>13, <1>16 DEF CompletedFlowIn, MetadataOf
<1>18. FiniteFile(f) => ReadableFlow(f, "LAT")
  BY <1>9, <1>11, <1>12, <1>13, <1>16 DEF ReadableFlow
<1> QED BY <1>9, <1>11, <1>12, <1>17, <1>18

-----------------------------------------------------------------------------
(***************************************************************************)
(* Reading back what was written: the engine's files.                      *)
(***************************************************************************)

\* The file f of boundary b that the engine made of request r, with weights c.
EngineFile(f, b, c, r) ==
  \/ /\ \E n \in 0 .. RefLength(c, r) : b = PausedCodesAfter(c, r, n)
     /\ \E source, finite : f = FileOf(b, source, finite)
  \/ /\ Sung(c, r) /\ b = CompletedCodesOf(c, r)
     /\ \E source, finite : f = FileOf(b, source, finite)
  \/ /\ Sung(c, r)
     /\ \E w \in 0 .. WindowsOf(c, r) - 1, step \in 0 .. EulerSteps[r] - 1 :
          b = PausedFlowAt(c, r, w, step)
     /\ \E source, finite : SourceOf(source, c, r) /\ f = FileOf(b, source, finite)
  \/ /\ Sung(c, r) /\ b = CompletedFlowOf(c, r)
     /\ \E source, finite : SourceOf(source, c, r) /\ f = FileOf(b, source, finite)

\* The engine's file is one of the reference, for the client's request and some weights.
EngineInv ==
  origin = "engine" /\ CanonicalFits
    => \E c \in Components : EngineFile(file, saved, c, Read(doc))

\* A request whose canonical text is not too long is read back from it.
LEMMA ClientReadable ==
  ASSUME doc \in Documents, Accepts(doc), CanonicalFits
  PROVE  Readable(Read(doc))
<1>1. /\ WellFormed(Canonical(Read(doc))) /\ Valid(Read(Canonical(Read(doc))))
      /\ Read(Canonical(Read(doc))) = Read(doc) /\ Read(doc) \in Requests
  BY DocumentsAssumption, RequestsAssumption, CanonicalFaithful
<1> QED BY <1>1 DEF Readable, Accepts, CanonicalFits

\* What DIFFUSE takes from the engine, it takes with the weights that made it.
LEMMA DiffuseFrom ==
  ASSUME TravelsInv, EngineInv, origin = "engine", CanonicalFits,
         NEW c \in Components, DiffuseTakes(c)
  PROVE  /\ Sung(c, Read(doc)) /\ SourceOf(DiffuseSource, c, Read(doc))
         /\ FlowCursor[1] \in Nat
<1> DEFINE r == Read(doc)
<1>0. file # None
  BY DEF TravelsInv, FileInv
<1>1. PICK m \in Components : EngineFile(file, saved, m, r)
  BY DEF EngineInv
<1>2. Readable(r)
  BY ClientReadable DEF TravelsInv, FileInv
<1>3. SourceTaken(c, DiffuseSource)
  BY DEF DiffuseTakes, DiffuseSource
<1>4. Metadata(DiffuseSource).digests = c
  BY <1>3 DEF SourceTaken, IdentifiedBy
<1> HIDE DEF r
<1>5. ASSUME NEW n \in 0 .. RefLength(m, r), saved = PausedCodesAfter(m, r, n),
             NEW source, NEW finite, file = FileOf(saved, source, finite)
      PROVE  FALSE
  <2>1. file.magic = "COD"
    BY <1>2, <1>5, PausedCodesBack
  <2>2. file.magic = "CON"
    BY <2>1 DEF DiffuseTakes, ResumesFlow, ReadableCompletedCodes, Opens, Decodes
  <2> QED BY <2>1, <2>2
<1>6. ASSUME Sung(m, r), saved = CompletedCodesOf(m, r),
             NEW source, NEW finite, file = FileOf(saved, source, finite)
      PROVE  Sung(c, r) /\ SourceOf(DiffuseSource, c, r) /\ FlowCursor[1] \in Nat
  <2>1. /\ file.magic = "CON" /\ ReadableCompletedCodes(file) /\ MetadataOf(file, saved)
        /\ CompletedCodesIn(file) = saved
    BY <1>6, CompletedCodesBack
  <2>2. ~ResumesFlow /\ DiffuseSource = file
    BY <2>1 DEF ResumesFlow, DiffuseSource
  <2>3. SourceOf(file, m, r)
    BY <1>6, <2>1 DEF SourceOf
  <2>4. m = c
    <3>1. Metadata(file).digests = m
      BY <1>6, <2>1 DEF MetadataOf, CompletedCodesOf
    <3> QED BY <1>4, <2>2, <3>1
  <2>5. FlowCursor[1] = 0
    BY <2>2 DEF FlowCursor
  <2> QED BY <1>6, <2>2, <2>3, <2>4, <2>5
<1>7. ASSUME Sung(m, r), NEW w \in 0 .. WindowsOf(m, r) - 1, NEW step,
             saved = PausedFlowAt(m, r, w, step), NEW source, NEW finite,
             SourceOf(source, m, r), file = FileOf(saved, source, finite)
      PROVE  Sung(c, r) /\ SourceOf(DiffuseSource, c, r) /\ FlowCursor[1] \in Nat
  <2>1. file.magic = "FLW" /\ MetadataOf(file, saved) /\ SourceIn(file) = source
    BY <1>7, PausedFlowBack
  <2>2. ResumesFlow /\ DiffuseSource = source
    BY <2>1 DEF ResumesFlow, DiffuseSource
  <2>4. m = c
    <3>1. Metadata(source).digests = m
      BY <1>7 DEF SourceOf, MetadataOf, CompletedCodesOf
    <3> QED BY <1>4, <2>2, <3>1
  <2>5. FlowCursor[1] = w
    BY <1>7, <2>1, <2>2 DEF FlowCursor, MetadataOf, PausedFlowAt
  <2>6. w \in Nat
    OBVIOUS
  <2> QED BY <1>7, <2>2, <2>4, <2>5, <2>6
<1>8. ASSUME Sung(m, r), saved = CompletedFlowOf(m, r), NEW source, NEW finite,
             SourceOf(source, m, r), file = FileOf(saved, source, finite)
      PROVE  FALSE
  <2>1. file.magic = "LAT"
    BY <1>8, CompletedFlowBack
  <2>2. file.magic = "CON"
    BY <2>1 DEF DiffuseTakes, ResumesFlow, ReadableCompletedCodes, Opens, Decodes
  <2> QED BY <2>1, <2>2
<1> QED BY <1>1, <1>5, <1>6, <1>7, <1>8 DEF EngineFile, r

\* Every call of a stage keeps it.
LEMMA EngineCalls ==
  ASSUME TravelsInv, EngineInv, NEW c \in Components, StageCall(c)
  PROVE  EngineInv'
<1> DEFINE r == Read(doc)
<1>1. CASE UNCHANGED <<doc, file, origin, saved>>
  BY <1>1 DEF EngineInv, CanonicalFits
<1>2. ASSUME \/ EmptyCodes(c) \/ RefuseCodes(c) \/ RefuseDiffuse(c)
             \/ PlaySong(c) \/ RefuseDecode(c)
      PROVE  EngineInv'
  BY <1>1, <1>2 DEF EmptyCodes, RefuseCodes, RefuseDiffuse, PlaySong, RefuseDecode,
                    NothingSaved
<1>3. CASE PauseCodes(c)
  <2>1. CodesTakes(c)
    BY <1>3 DEF PauseCodes
  <2>2. CodesRequest = r
    BY <2>1, CodesReads DEF TravelsInv
  <2>3. PICK n \in 0 .. RefLength(c, r) :
          Save("CODES", r, PausedCodesAfter(c, r, n), None, TRUE)
    BY <1>3, <2>2 DEF PauseCodes
  <2> HIDE DEF r
  <2>4. \E finite : doc' = doc /\ saved' = PausedCodesAfter(c, r, n)
          /\ file' = FileOf(saved', None, finite)
    BY <2>3, Zenon DEF Save
  <2>5. doc' = doc /\ EngineFile(file', saved', c, r)
    BY <2>4 DEF EngineFile
  <2> QED BY <2>5 DEF EngineInv, r
<1>4. CASE CompleteCodes(c)
  <2>1. CodesTakes(c) /\ RefGenerated(c, CodesRequest) > 0
    BY <1>4 DEF CompleteCodes
  <2>2. CodesRequest = r /\ Accepts(doc)
    BY <2>1, CodesReads DEF TravelsInv
  <2>3. Save("CODES", r, CompletedCodesOf(c, r), None, TRUE)
    BY <1>4, <2>2 DEF CompleteCodes
  <2>4. \E finite : doc' = doc /\ saved' = CompletedCodesOf(c, r)
          /\ file' = FileOf(saved', None, finite)
    BY <2>3, Zenon DEF Save
  <2>5. CanonicalFits => Sung(c, r)
    BY <2>1, <2>2, ClientReadable DEF TravelsInv, FileInv, Sung
  <2> HIDE DEF r
  <2>6. doc' = doc /\ (CanonicalFits => EngineFile(file', saved', c, r))
    BY <2>4, <2>5 DEF EngineFile
  <2> QED BY <2>6 DEF EngineInv, CanonicalFits, r
<1>5. ASSUME DiffuseTakes(c), file # None, origin' = "engine", CanonicalFits,
             NEW b, NEW finite, Save("DIFFUSE", DiffuseRequest, b, DiffuseSource, finite)
      PROVE  /\ Sung(c, r) /\ FlowCursor[1] \in Nat /\ DiffuseRequest = r /\ doc' = doc
             /\ saved' = b /\ file' = FileOf(b, DiffuseSource, finite)
             /\ SourceOf(DiffuseSource, c, r)
  <2>1. /\ doc' = doc /\ saved' = b /\ file' = FileOf(b, DiffuseSource, finite)
        /\ origin' = IF origin = "client" THEN "engine" ELSE origin
    BY <1>5 DEF Save
  <2>2. origin = "engine"
    BY <1>5, <2>1 DEF TravelsInv, FileInv
  <2>3. DiffuseRequest = r
    BY <1>5, DiffuseReads DEF TravelsInv
  <2> QED BY <1>5, <2>1, <2>2, <2>3, DiffuseFrom
<1>6. CASE PauseDiffuse(c)
  <2> SUFFICES ASSUME origin' = "engine", CanonicalFits'
               PROVE  \E m \in Components : EngineFile(file', saved', m, Read(doc'))
    BY DEF EngineInv
  <2>1. PICK w \in FlowCursor[1] .. WindowsOf(c, DiffuseRequest) - 1,
             step \in 0 .. EulerSteps[DiffuseRequest] - 1, finite \in BOOLEAN :
          Save("DIFFUSE", DiffuseRequest, PausedFlowAt(c, DiffuseRequest, w, step),
               DiffuseSource, finite)
    BY <1>6 DEF PauseDiffuse
  <2>2. doc' = doc /\ CanonicalFits
    BY <2>1 DEF Save, CanonicalFits
  <2>3. /\ Sung(c, r) /\ FlowCursor[1] \in Nat /\ DiffuseRequest = r
        /\ saved' = PausedFlowAt(c, r, w, step)
        /\ file' = FileOf(saved', DiffuseSource, finite)
        /\ SourceOf(DiffuseSource, c, r)
    BY <1>5, <1>6, <2>1, <2>2 DEF PauseDiffuse
  <2>4. WindowsOf(c, r) \in Nat
    BY <2>3, SungSizes
  <2>5. w \in 0 .. WindowsOf(c, r) - 1 /\ step \in 0 .. EulerSteps[r] - 1
    BY <2>1, <2>3, <2>4
  <2> HIDE DEF r
  <2>6. EngineFile(file', saved', c, r)
    BY <2>3, <2>5 DEF EngineFile
  <2> QED BY <2>2, <2>6 DEF r
<1>7. CASE CompleteDiffuse(c)
  <2> SUFFICES ASSUME origin' = "engine", CanonicalFits'
               PROVE  \E m \in Components : EngineFile(file', saved', m, Read(doc'))
    BY DEF EngineInv
  <2>1. PICK finite \in BOOLEAN :
          Save("DIFFUSE", DiffuseRequest, CompletedFlowOf(c, DiffuseRequest),
               DiffuseSource, finite)
    BY <1>7 DEF CompleteDiffuse
  <2>2. doc' = doc /\ CanonicalFits
    BY <2>1 DEF Save, CanonicalFits
  <2>3. /\ Sung(c, r) /\ DiffuseRequest = r /\ saved' = CompletedFlowOf(c, r)
        /\ file' = FileOf(saved', DiffuseSource, finite)
        /\ SourceOf(DiffuseSource, c, r)
    BY <1>5, <1>7, <2>1, <2>2 DEF CompleteDiffuse
  <2> HIDE DEF r
  <2>4. EngineFile(file', saved', c, r)
    BY <2>3 DEF EngineFile
  <2> QED BY <2>2, <2>4 DEF r
<1> QED BY <1>2, <1>3, <1>4, <1>6, <1>7 DEF StageCall

\* Every file of the engine is taken by its stage, and read as it was written.
LEMMA EngineTaken ==
  ASSUME TravelsInv, EngineInv, origin = "engine", CanonicalFits, FiniteFile(file)
  PROVE  Taken(saved.comps) /\ BoundaryIn(file) = saved
<1> DEFINE r == Read(doc)
<1>0. file # None
  BY DEF TravelsInv, FileInv
<1>1. PICK c \in Components : EngineFile(file, saved, c, r)
  BY DEF EngineInv
<1>2. Readable(r)
  BY ClientReadable DEF TravelsInv, FileInv
<1> HIDE DEF r
<1>3. ASSUME NEW n \in 0 .. RefLength(c, r), saved = PausedCodesAfter(c, r, n),
             NEW source, NEW finite, file = FileOf(saved, source, finite)
      PROVE  Taken(saved.comps) /\ BoundaryIn(file) = saved
  <2>1. /\ file.magic = "COD" /\ ReadablePausedCodes(file) /\ MetadataOf(file, saved)
        /\ PausedCodesIn(file) = saved /\ CodesCursorAccepted(saved)
    BY <1>2, <1>3, PausedCodesBack
  <2>2. CodesTakes(saved.comps)
    BY <1>0, <2>1 DEF CodesTakes, IdentifiedBy, MetadataOf
  <2> QED BY <2>1, <2>2 DEF Taken, BoundaryIn
<1>4. ASSUME NEW f, SourceOf(f, c, r), Sung(c, r)
      PROVE  SourceTaken(c, f)
  <2>1. ConditionWindowsAccepted(CompletedCodesOf(c, r))
    <3>1. PICK f2 : f2 = FileOf(CompletedCodesOf(c, r), None, None)
      OBVIOUS
    <3> QED BY <1>4, <3>1, CompletedCodesBack
  <2> QED BY <1>4, <2>1 DEF SourceOf, SourceTaken, IdentifiedBy, MetadataOf, CompletedCodesOf
<1>5. ASSUME Sung(c, r), saved = CompletedCodesOf(c, r),
             NEW source, NEW finite, file = FileOf(saved, source, finite)
      PROVE  Taken(saved.comps) /\ BoundaryIn(file) = saved
  <2>1. /\ file.magic = "CON" /\ ReadableCompletedCodes(file) /\ MetadataOf(file, saved)
        /\ CompletedCodesIn(file) = saved
    BY <1>5, CompletedCodesBack
  <2>2. SourceTaken(c, file) /\ saved.comps = c
    BY <1>4, <1>5, <2>1 DEF SourceOf, CompletedCodesOf
  <2>3. DiffuseTakes(saved.comps)
    BY <2>1, <2>2 DEF DiffuseTakes, ResumesFlow
  <2> QED BY <2>1, <2>3 DEF Taken, BoundaryIn
<1>6. ASSUME Sung(c, r), NEW w \in 0 .. WindowsOf(c, r) - 1,
             NEW step \in 0 .. EulerSteps[r] - 1,
             saved = PausedFlowAt(c, r, w, step), NEW source, NEW finite,
             SourceOf(source, c, r), file = FileOf(saved, source, finite)
      PROVE  Taken(saved.comps) /\ BoundaryIn(file) = saved
  <2>1. /\ file.magic = "FLW" /\ ReadablePausedFlow(file) /\ MetadataOf(file, saved)
        /\ PausedFlowIn(file) = saved /\ SourceIn(file) = source
    BY <1>6, PausedFlowBack
  <2>2. SourceTaken(c, source)
    BY <1>4, <1>6
  <2>3. /\ saved.comps = c /\ saved.first = w /\ saved.second = step
        /\ saved.source = CompletedCodesOf(c, r) /\ saved.completed = RefLatents(c, r, w)
    BY <1>6 DEF PausedFlowAt
  <2>4. /\ Len(saved.source.conditions) = WindowsOf(c, r) /\ saved.source.req = r
        /\ Len(saved.completed) = w
    <3>1. WindowsOf(c, r) \in Nat /\ Len(RefConditions(c, r)) = WindowsOf(c, r)
      BY <1>6, SungSizes
    <3>2. w \in Nat
      BY <3>1
    <3>3. Len(RefLatents(c, r, w)) = w
      BY <3>2, OneMoreLatent
    <3> QED BY <2>3, <3>1, <3>3 DEF CompletedCodesOf
  <2>5. FlowCursorAccepted(saved)
    <3>1. WindowsOf(c, r) \in Nat /\ EulerSteps[r] \in Nat
      <4>1. r \in Requests /\ WindowsOf(c, r) \in Nat
        BY <1>6, SungSizes
      <4> QED BY <4>1, ModelAssumption
    <3>2. w < WindowsOf(c, r) /\ step <= EulerSteps[r]
      BY <3>1
    <3> QED BY <2>3, <2>4, <3>2 DEF FlowCursorAccepted
  <2>6. DiffuseTakes(saved.comps)
    BY <2>1, <2>2, <2>3, <2>5 DEF DiffuseTakes, ResumesFlow, IdentifiedBy, MetadataOf
  <2> QED BY <2>1, <2>6 DEF Taken, BoundaryIn
<1>7. ASSUME Sung(c, r), saved = CompletedFlowOf(c, r), NEW source, NEW finite,
             SourceOf(source, c, r), file = FileOf(saved, source, finite)
      PROVE  Taken(saved.comps) /\ BoundaryIn(file) = saved
  <2> DEFINE n == WindowsOf(c, r)
  <2>1. /\ file.magic = "LAT" /\ ReadableFlow(file, "LAT") /\ MetadataOf(file, saved)
        /\ CompletedFlowIn(file) = saved /\ SourceIn(file) = source
    BY <1>7, CompletedFlowBack
  <2>2. SourceTaken(c, source)
    BY <1>4, <1>7
  <2>3. /\ saved.comps = c /\ saved.first = n /\ saved.second = 0
        /\ saved.source.conditions = RefConditions(c, r)
        /\ saved.completed = RefLatents(c, r, n)
    BY <1>7 DEF CompletedFlowOf, CompletedCodesOf
  <2>4. n \in Nat /\ n > 0 /\ Len(RefConditions(c, r)) = n
    BY <1>7, SungSizes
  <2>5. Len(saved.completed) = n
    BY <2>3, <2>4, OneMoreLatent
  <2>6. \A i \in 1 .. n : saved.completed[i].inputs.cond = saved.source.conditions[i]
    <3>1. \A i \in 1 .. n : RefLatents(c, r, n)[i] = RefLatent(c, r, i)
      BY DEF RefLatents
    <3> QED BY <2>3, <3>1, LatentAt
  <2> HIDE DEF n
  <2>7. LatentsAccepted(saved)
    BY <2>3, <2>4, <2>5, <2>6 DEF LatentsAccepted
  <2>8. DecodeTakes(saved.comps)
    BY <2>1, <2>2, <2>3, <2>7 DEF DecodeTakes, IdentifiedBy, MetadataOf
  <2> QED BY <2>1, <2>8 DEF Taken, BoundaryIn
<1> QED BY <1>1, <1>3, <1>5, <1>6, <1>7 DEF EngineFile, r

(***************************************************************************)
(* What one stage writes the next one reads: if the canonical request and  *)
(* the numbers of the file are such that a reader can take them, the file  *)
(* of the engine is taken by its stage, and the boundary read from it is   *)
(* the one that was saved.                                                 *)
(***************************************************************************)
THEOREM WrittenReadBack == NoneIsNoFile => (Spec => []WrittenIsRead)
<1> SUFFICES ASSUME NoneIsNoFile PROVE Spec => []WrittenIsRead
  OBVIOUS
<1>1. Init => EngineInv
  BY DEF Init, TravelsInit, EngineInv
<1>2. TravelsInv /\ EngineInv /\ [Next]_vars => EngineInv'
  <2> SUFFICES ASSUME TravelsInv, EngineInv, [Next]_vars PROVE EngineInv'
    OBVIOUS
  <2>1. ASSUME UNCHANGED fileVars PROVE EngineInv'
    BY <2>1 DEF EngineInv, CanonicalFits, fileVars
  <2>2. ASSUME NEW c \in Components, StageCall(c) PROVE EngineInv'
    BY <2>2, EngineCalls
  <2>3. ASSUME Damage \/ LayOut PROVE EngineInv'
    BY <2>3 DEF Damage, LayOut, EngineInv
  <2> QED BY <2>1, <2>2, <2>3 DEF Next, Staged, Blocking, vars
<1>3. TravelsInv /\ EngineInv => WrittenIsRead
  BY EngineTaken DEF WrittenIsRead
<1>4. Spec => []TravelsInv
  BY TravelsInductive
<1> QED BY <1>1, <1>2, <1>3, <1>4, PTL DEF Spec
=============================================================================
