---------------------------- MODULE RequestForm ----------------------------
(***************************************************************************)
(* The request document: what minimax-request.cpp accepts, what it reads   *)
(* from it, and the canonical form it writes into every boundary.          *)
(*                                                                         *)
(* A JSON value is a record of its type; a string is a member of Texts, a  *)
(* number an integer in the unit of its field with `plain` saying whether  *)
(* it is spelled with digits only.  The unit of durations and scales is a  *)
(* third of a millionth, the coarsest in which every number is near one    *)
(* that rounds to the same six decimals; the unit of the rest is one.  A   *)
(* document is the members of its root object as a function, and           *)
(* `repeated`: whether some object of it has a key twice.  Text that is no *)
(* JSON at all is no document.                                             *)
(***************************************************************************)
EXTENDS Integers, FiniteSets, FiniteSetsExt

CONSTANTS
  Texts,       \* the strings a document may hold
  Length,      \* Length[t]: bytes of t as the canonical form escapes it
  MaxBytes,    \* longest document parse accepts     (1 MiB)
  SeedLimit    \* first number that is no seed       (2^64)

ASSUME LengthAssumption == Length \in [Texts -> Nat]

\* Every value a field may have is an exact integer.
ASSUME LimitAssumption == SeedLimit \in Nat /\ SeedLimit > 44100

\* The duration or scale 0.1.
Tenth == 300000

Text(t) == [type |-> "string", text |-> t]
Number(n, plain) == [type |-> "number", number |-> n, plain |-> plain]
Object(members) == [type |-> "object", members |-> members]
Other == [type |-> "other"]

\* Text and numbers are of their kind, whatever a document means by them.
JsonValue(v) ==
  /\ v.type = "string" => v.text \in Texts
  /\ v.type = "number" => v.number \in Int

JsonDocument(doc) ==
  \A key \in DOMAIN doc.root :
    /\ JsonValue(doc.root[key])
    /\ doc.root[key].type = "object" =>
         \A k \in DOMAIN doc.root[key].members : JsonValue(doc.root[key].members[k])

-----------------------------------------------------------------------------
(***************************************************************************)
(* Reading.                                                                *)
(***************************************************************************)
\* An unsigned integer: no sign, point or exponent, and 64 bits wide at most.
Exact(v) == v.type = "number" /\ v.plain /\ v.number \in 0 .. SeedLimit - 1

TextKeys == {"caption", "description"}
DurationKeys == {"duration", "duration_seconds"}
ScaleKeys == {"cfg_scale", "guidance_scale"}
IntegerKeys == {"seed", "inference_steps", "top_k", "output_sample_rate"}
ScopeKeys == {"sampling", "flow"}

RootKeys ==
  {"lyrics"} \cup TextKeys \cup DurationKeys \cup ScaleKeys
    \cup IntegerKeys \cup ScopeKeys

ScopeMembers(scope) ==
  IF scope = "sampling" THEN {"top_k"} ELSE {"seed", "euler_steps", "cfg_scale"}

\* caption is the newer name of description, duration of duration_seconds.
TextKey(root) == IF "caption" \in DOMAIN root THEN "caption" ELSE "description"
DurationKey(root) ==
  IF "duration" \in DOMAIN root THEN "duration" ELSE "duration_seconds"

WellFormedScope(scope, v) ==
  /\ v.type = "object"
  /\ DOMAIN v.members \subseteq ScopeMembers(scope)
  /\ \A key \in DOMAIN v.members :
       IF key = "cfg_scale" THEN v.members[key].type = "number"
                            ELSE Exact(v.members[key])

WellFormed(doc) ==
  LET root == doc.root
      given == DOMAIN root
  IN  /\ ~doc.repeated
      /\ given \subseteq RootKeys
      /\ {"lyrics", TextKey(root)} \subseteq given
      /\ root["lyrics"].type = "string"
      /\ root[TextKey(root)].type = "string"
      /\ ~ (TextKeys \subseteq given)
      /\ ~ (DurationKeys \subseteq given)
      /\ \A key \in given \cap (DurationKeys \cup ScaleKeys) :
           root[key].type = "number"
      /\ \A key \in given \cap IntegerKeys : Exact(root[key])
      /\ \A scope \in given \cap ScopeKeys : WellFormedScope(scope, root[scope])

NumberOr(members, key, default) ==
  IF key \in DOMAIN members THEN members[key].number ELSE default

Scope(root, scope) ==
  IF scope \in DOMAIN root THEN root[scope].members ELSE [key \in {} |-> Other]

(***************************************************************************)
(* The request a well-formed document asks for: a field of a nested object *)
(* overrides the flat field of the same meaning, and what neither gives    *)
(* keeps the default of generation_request.                                *)
(***************************************************************************)
Read(doc) ==
  LET root == doc.root
      sampling == Scope(root, "sampling")
      flow == Scope(root, "flow")
  IN  [lyrics |-> root["lyrics"].text,
       description |-> root[TextKey(root)].text,
       duration |-> NumberOr(root, DurationKey(root), 200 * Tenth),
       seed |-> NumberOr(root, "seed", 0),
       ar_cfg_scale |-> NumberOr(root, "cfg_scale", 15 * Tenth),
       top_k |-> NumberOr(sampling, "top_k", NumberOr(root, "top_k", 50)),
       flow_seed |-> NumberOr(flow, "seed", 0),
       flow_seed_present |-> "seed" \in DOMAIN flow,
       euler_steps |->
         NumberOr(flow, "euler_steps", NumberOr(root, "inference_steps", 30)),
       flow_cfg_scale |->
         NumberOr(flow, "cfg_scale",
                  NumberOr(root, "guidance_scale", 17 * Tenth)),
       output_sample_rate |-> NumberOr(root, "output_sample_rate", 44100)]

Within(n, least, most) == least <= n /\ n <= most

Valid(r) ==
  /\ Length[r.lyrics] > 0
  /\ Length[r.description] > 0
  /\ Within(r.duration, 1, 3000 * Tenth)
  /\ Within(r.ar_cfg_scale, 0, 1000 * Tenth)
  /\ Within(r.top_k, 1, 16384)
  /\ Within(r.euler_steps, 1, 1000)
  /\ Within(r.flow_cfg_scale, 0, 1000 * Tenth)
  /\ r.output_sample_rate \in {44100, 32000}

\* The size of a document: its strings, and one unit for every member.
Size(v) ==
  1 + (IF v.type = "string" THEN Length[v.text]
       ELSE IF v.type = "object" THEN Cardinality(DOMAIN v.members) ELSE 0)

Bytes(doc) == MapThenSumSet(LAMBDA key : Size(doc.root[key]), DOMAIN doc.root)

Accepts(doc) == Bytes(doc) <= MaxBytes /\ WellFormed(doc) /\ Valid(Read(doc))

-----------------------------------------------------------------------------
\* Mutant: the flow seed is written whether or not the request has one.
FlowMembersAlwaysSeeded(r) ==
  [seed |-> Number(r.flow_seed, TRUE),
   euler_steps |-> Number(r.euler_steps, TRUE),
   cfg_scale |-> Number(r.flow_cfg_scale, FALSE)]

(***************************************************************************)
(* Writing.  Numbers are written with 17 digits, so they are read back as  *)
(* they were; a flow seed is written only if the request has one.          *)
(***************************************************************************)
FlowMembers(r) ==
  IF r.flow_seed_present
  THEN [seed |-> Number(r.flow_seed, TRUE),
        euler_steps |-> Number(r.euler_steps, TRUE),
        cfg_scale |-> Number(r.flow_cfg_scale, FALSE)]
  ELSE [euler_steps |-> Number(r.euler_steps, TRUE),
        cfg_scale |-> Number(r.flow_cfg_scale, FALSE)]

Canonical(r) ==
  [repeated |-> FALSE,
   root |->
     [lyrics |-> Text(r.lyrics),
      description |-> Text(r.description),
      duration_seconds |-> Number(r.duration, FALSE),
      seed |-> Number(r.seed, TRUE),
      cfg_scale |-> Number(r.ar_cfg_scale, FALSE),
      sampling |-> Object([top_k |-> Number(r.top_k, TRUE)]),
      flow |-> Object(FlowMembers(r)),
      output_sample_rate |-> Number(r.output_sample_rate, TRUE)]]

-----------------------------------------------------------------------------
(***************************************************************************)
(* A frame is 1/25 s: 40000 millionths of a second.  The code multiplies a *)
(* binary number of seconds, `bits` wide, by 25 and truncates, so what     *)
(* matters is whether a duration near m frames is stored as less than m/25 *)
(* seconds.  These are a whole number of last bits and the remainder       *)
(* below, in 25ths of one.                                                 *)
(***************************************************************************)
FrameExponent(m) == CHOOSE e \in 0 .. 12 : 2^e <= m /\ m < 2^(e + 1)

SecondsExponent(m) ==
  CHOOSE e \in -5 .. 9 : 25 * 2^(e + 5) <= 32 * m /\ 32 * m < 25 * 2^(e + 6)

\* The powers of two have period 20 modulo 25.
Remainder(m, bits) ==
  ((m % 25) * 2^((bits - 1 - SecondsExponent(m)) % 20)) % 25

WholeFrames(n) == n % 120000 = 0 /\ n > 0

(***************************************************************************)
(* The stages multiply a double by 25.0.  Only a whole number of frames is *)
(* near enough to be stored as less than it is, and the rounding of the    *)
(* product mends small shortfalls.                                         *)
(***************************************************************************)
StagedFrames(n) ==
  LET m == n \div 120000
      e == FrameExponent(m)
      mended == 2^(e - SecondsExponent(m) - (IF m = 2^e THEN 2 ELSE 1))
  IN  IF WholeFrames(n) /\ Remainder(m, 53) \in mended + 1 .. 12 THEN m - 1 ELSE m

\* std::to_string writes six decimals: the number in millionths.
SixDecimals(n) == (n + 1) \div 3

(***************************************************************************)
(* The session reads k millionths of a second as a float, the nearest one. *)
(* It is less than m frames if k lies further below m frames than these    *)
(* lie above the middle of the floats around them (or, being a float       *)
(* themselves, above the middle of the gap below, which is half as wide    *)
(* under a power of two).  `above` is in millionths of a last bit.         *)
(***************************************************************************)
FloatBelow(k, m) ==
  LET e == SecondsExponent(m)
      rest == Remainder(m, 24)
      above == IF rest > 0 THEN (2 * rest - 25) * 20000
               ELSE IF 32 * m = 25 * 2^(e + 5) THEN 250000 ELSE 500000
  IN  (k - 40000 * m) + (above \div 2^(23 - e)) < 0

\* A float times 25.0 is exact in double; m frames are the nearest to k.
BlockingFrames(k) ==
  LET m == (k + 20000) \div 40000
  IN  IF m > 0 /\ FloatBelow(k, m) THEN m - 1 ELSE m
=============================================================================
