------------------------------ MODULE R2Release ------------------------------
(***************************************************************************)
(* convert/publish_r2.py: the tiers of a release are put into a public     *)
(* object store under one immutable prefix.  The bucket is shared by every *)
(* run of the publisher, a run may be killed at any step, and a run may    *)
(* come after a run of another release, or beside it.  The copy is made by *)
(* a child process, aws s3 cp, which outlives a publisher that is killed:  *)
(* its put may be stored at any later time.  A file is its digest.         *)
(***************************************************************************)
EXTENDS Integers, Sequences

CONSTANTS
  Publishers,            \* processes that may run publish_r2.py --upload
  Releases,              \* the release manifests an operator may hold
  Uploads,               \* keys of the objects, then the sidecars, in order
  ManifestKey,           \* the key of manifest.json
  Digests,               \* contents of files
  DigestOf,              \* what each release says is under each key
  Size,                  \* bytes of each content
  None

(* Mutant: the manifest is uploaded before what it lists.                  *)
ManifestFirst == <<ManifestKey>> \o Uploads

(* manifest["objects"], manifest["sidecars"], then the manifest itself.    *)
Order == Append(Uploads, ManifestKey)
Keys == { Order[i] : i \in 1 .. Len(Order) }

(* A manifest lists the digests of its release, so it names the release.   *)
(* upload_one visits a key once: filenames are checked to be distinct.     *)
ASSUME ReleaseAssumption ==
  /\ Uploads \in Seq(STRING)
  /\ ManifestKey \in STRING
  /\ \A i, j \in 1 .. Len(Order) : Order[i] = Order[j] => i = j
  /\ DigestOf \in [Releases -> [Keys -> Digests]]
  /\ \A r, s \in Releases :
       DigestOf[r][ManifestKey] = DigestOf[s][ManifestKey] => r = s
  /\ Size \in [Digests -> Nat]
  /\ None \notin Releases \cup Digests

VARIABLES
  local,   \* files of each publisher's artifact directory, the manifest too
  bucket,  \* what the store holds: bytes, and the sha256 of the metadata
  late,    \* puts whose publisher has gone and that are not stored yet
  pub,     \* the publishers
  turns    \* whether the operators have taken turns so far
vars == <<local, bucket, late, pub, turns>>

Stored == [bytes : Digests, sha : Digests]
Put == [key : Keys, object : Stored]
Publisher ==
  [pc : {"idle", "head", "cp", "verify", "public"},
   release : Releases \cup {None}, next : 0 .. Len(Order),
   want : Digests \cup {None}, outcome : {"none", "pass", "refused", "error"}]
Idle == [pc |-> "idle", release |-> None, next |-> 0, want |-> None,
         outcome |-> "none"]
Begun(r) == [pc |-> "head", release |-> r, next |-> 1, want |-> None,
             outcome |-> "none"]

(* Mutants: an object of the right length is taken for the right one; the  *)
(* recorded digest is compared with one spelled "sha256:...".              *)
MatchesLength(object, digest) ==
  object # None /\ Size[object.bytes] = Size[digest]
MatchesNever(object, digest) == FALSE

(* The object under a key is the one that is wanted: head-object shows the *)
(* length and the recorded digest, not the bytes.                          *)
Matches(object, digest) ==
  object # None /\ Size[object.bytes] = Size[digest] /\ object.sha = digest

(* The digest a publisher asks of a key.  That of the manifest is computed *)
(* from the file when its turn comes, the others were read at the start.   *)
Wanted(p, k) ==
  IF k = ManifestKey THEN local[p][k] ELSE DigestOf[pub[p].release][k]

Key(p) == Order[pub[p].next]

(* What the aws s3 cp of p copies: the file, with the digest it was given. *)
Copied(p) == [bytes |-> local[p][Key(p)], sha |-> pub[p].want]

(* Mutant: validate_manifest without verify_content.                       *)
ValidatedLengths(p, r) ==
  \A k \in Keys : Size[local[p][k]] = Size[DigestOf[r][k]]

(* validate_manifest with the artifacts and their contents: it accepts the *)
(* files when they are exactly those of one release.                       *)
Validated(p, r) == local[p] = DigestOf[r]

(* A run of r begins in turn when nobody publishes another release and no  *)
(* earlier run of another release has left a put under way.  Nothing in    *)
(* publish_r2.py sees to it: the operators have to.                        *)
InTurn(r) ==
  /\ \A p \in Publishers : pub[p].pc # "idle" => pub[p].release = r
  /\ \A put \in late : put.object.sha = DigestOf[r][put.key]

TypeOK ==
  /\ local \in [Publishers -> [Keys -> Digests]]
  /\ bucket \in [Keys -> Stored \cup {None}]
  /\ late \subseteq Put
  /\ pub \in [Publishers -> Publisher]
  /\ turns \in {"taken", "broken"}

Init ==
  /\ local \in [Publishers -> { DigestOf[r] : r \in Releases }]
  /\ bucket = [k \in Keys |-> None]
  /\ late = {}
  /\ pub = [p \in Publishers |-> Idle]
  /\ turns = "taken"

-----------------------------------------------------------------------------
(* main: nothing is uploaded unless the local files are those of one       *)
(* release.  publish then starts with the first object.                    *)
Start(p) ==
  /\ pub[p].pc = "idle"
  /\ \E r \in Releases :
       /\ Validated(p, r)
       /\ pub' = [pub EXCEPT ![p] = Begun(r)]
       /\ turns' = IF InTurn(r) THEN turns ELSE "broken"
  /\ UNCHANGED <<local, bucket, late>>

(* Mutant: off by one, the key after the last is taken.                    *)
AdvancedPast(p) ==
  IF pub[p].next > Len(Order)
  THEN [pub[p] EXCEPT !.pc = "public", !.want = None]
  ELSE [pub[p] EXCEPT !.pc = "head", !.next = pub[p].next + 1, !.want = None]

(* The record of a publisher that is done with its key.                    *)
Advanced(p) ==
  IF pub[p].next = Len(Order)
  THEN [pub[p] EXCEPT !.pc = "public", !.want = None]
  ELSE [pub[p] EXCEPT !.pc = "head", !.next = pub[p].next + 1, !.want = None]

(* The process ends: with status 0, or with 1 after an error.              *)
Ended(outcome) == [Idle EXCEPT !.outcome = outcome]

(* upload_one, the first head-object.                                      *)
HeadCached(p) ==
  /\ pub[p].pc = "head"
  /\ Matches(bucket[Key(p)], Wanted(p, Key(p)))
  /\ pub' = [pub EXCEPT ![p] = Advanced(p)]
  /\ UNCHANGED <<local, bucket, late, turns>>

HeadRefuses(p) ==
  /\ pub[p].pc = "head"
  /\ bucket[Key(p)] # None
  /\ ~Matches(bucket[Key(p)], Wanted(p, Key(p)))
  /\ pub' = [pub EXCEPT ![p] = Ended("refused")]
  /\ UNCHANGED <<local, bucket, late, turns>>

(* Mutant: a mismatching object is uploaded again.                         *)
HeadMissingOrOther(p) ==
  /\ pub[p].pc = "head"
  /\ ~Matches(bucket[Key(p)], Wanted(p, Key(p)))
  /\ pub' = [pub EXCEPT ![p].pc = "cp", ![p].want = Wanted(p, Key(p))]
  /\ UNCHANGED <<local, bucket, late, turns>>

(* Nothing is there: aws s3 cp is started with the digest as metadata.     *)
HeadMissing(p) ==
  /\ pub[p].pc = "head"
  /\ bucket[Key(p)] = None
  /\ pub' = [pub EXCEPT ![p].pc = "cp", ![p].want = Wanted(p, Key(p))]
  /\ UNCHANGED <<local, bucket, late, turns>>

(* The store commits the put, which replaces whatever is under the key,    *)
(* and the copy returns.                                                   *)
Copy(p) ==
  /\ pub[p].pc = "cp"
  /\ bucket' = [bucket EXCEPT ![Key(p)] = Copied(p)]
  /\ pub' = [pub EXCEPT ![p].pc = "verify"]
  /\ UNCHANGED <<local, late, turns>>

(* The second head-object, after the copy.                                 *)
Verify(p) ==
  /\ pub[p].pc = "verify"
  /\ pub' = [pub EXCEPT ![p] =
       IF Matches(bucket[Key(p)], pub[p].want)
       THEN Advanced(p) ELSE Ended("refused")]
  /\ UNCHANGED <<local, bucket, late, turns>>

(* verify_public: every object answers with its size at its public URL.    *)
PubliclyVisible(p) ==
  \A k \in Keys : /\ bucket[k] # None
                  /\ Size[bucket[k].bytes] = Size[Wanted(p, k)]

Public(p) ==
  /\ pub[p].pc = "public"
  /\ PubliclyVisible(p)
  /\ pub' = [pub EXCEPT ![p] = Ended("pass")]
  /\ UNCHANGED <<local, bucket, late, turns>>

(* A publisher that ends during its copy leaves the put under way.         *)
Left(p) ==
  IF pub[p].pc = "cp" THEN {[key |-> Key(p), object |-> Copied(p)]} ELSE {}

(* A request fails: any head-object, the copy, or all six attempts to see  *)
(* the public URLs.  A copy reported failed may still be stored; if it was *)
(* stored already, that is a failure at the second head-object.            *)
RequestFails(p) ==
  /\ pub[p].pc # "idle"
  /\ late' = late \cup Left(p)
  /\ pub' = [pub EXCEPT ![p] = Ended("error")]
  /\ UNCHANGED <<local, bucket, turns>>

(* The process is killed; the aws it runs is not.                          *)
Killed(p) ==
  /\ pub[p].pc # "idle"
  /\ late' = late \cup Left(p)
  /\ pub' = [pub EXCEPT ![p] = Idle]
  /\ UNCHANGED <<local, bucket, turns>>

(* A put left behind is stored.  It stays under way if several equal ones  *)
(* were left.                                                              *)
LateStored(put) ==
  /\ bucket' = [bucket EXCEPT ![put.key] = put.object]
  /\ late' \in {late, late \ {put}}
  /\ UNCHANGED <<local, pub, turns>>

(* Or it is never stored.                                                  *)
LateLost(put) ==
  /\ late' = late \ {put}
  /\ UNCHANGED <<local, bucket, pub, turns>>

(* Between runs the operator replaces a file: another build of an object,  *)
(* or another release manifest.                                            *)
Edit(p, k, d) ==
  /\ pub[p].pc = "idle"
  /\ local' = [local EXCEPT ![p][k] = d]
  /\ UNCHANGED <<bucket, late, pub, turns>>

Step(p) ==
  \/ HeadCached(p) \/ HeadRefuses(p) \/ HeadMissing(p)
  \/ Copy(p) \/ Verify(p) \/ Public(p)

Next ==
  \/ \E p \in Publishers : Start(p) \/ Step(p) \/ RequestFails(p) \/ Killed(p)
  \/ \E put \in late : LateStored(put) \/ LateLost(put)
  \/ \E p \in Publishers, k \in Keys, r \in Releases : Edit(p, k, DigestOf[r][k])

Spec == Init /\ [][Next]_vars

(* A publisher that runs keeps running, the store answers a copy it waits  *)
(* for, and the operator starts the publisher again after a failure.       *)
FairSpec ==
  /\ Spec
  /\ \A p \in Publishers : WF_vars(Start(p)) /\ WF_vars(Step(p))

-----------------------------------------------------------------------------
(* The object under k is the one release r lists.                          *)
Holds(k, r) == bucket[k] # None /\ bucket[k].sha = DigestOf[r][k]

(* publish uploads the manifest last.  While operators take turns, whoever *)
(* can read a release's manifest finds every object the manifest lists, of *)
(* that release: with any number of publishers of one release at once,     *)
(* when earlier runs failed half way, were killed or were of another       *)
(* release, and with the puts these left behind stored at any time.        *)
ManifestIsComplete ==
  turns = "taken" =>
    \A r \in Releases :
      Holds(ManifestKey, r) => \A i \in 1 .. Len(Uploads) : Holds(Uploads[i], r)

(* upload_one "refuses to replace a mismatching object": while operators   *)
(* take turns, what the store holds under a key never becomes something    *)
(* else, neither by a run nor by a put that a killed run left behind.      *)
TurnsKeepObjects ==
  [][turns = "taken" =>
       \A k \in Keys : bucket[k] # None => bucket'[k] = bucket[k]]_vars

(* While operators take turns, a run that reports "pass" left the store    *)
(* with the whole release, though its last check only compares sizes.      *)
PassMeansPublished ==
  [][turns = "taken" =>
       \A p \in Publishers :
         pub'[p].outcome = "pass" /\ pub[p].outcome # "pass" =>
           \A k \in Keys : Holds(k, pub[p].release)]_vars

(* The puts that may still be stored.                                      *)
UnderWay == late \cup UNION { Left(p) : p \in Publishers }

(* No put of anything else is under way for an occupied key.               *)
Settled(k) ==
  /\ bucket[k] # None
  /\ \A put \in UnderWay : put.key = k => put.object = bucket[k]

(* Turns or not: upload_one starts no put over an object that is there, so *)
(* once the puts that raced for a key are over, no publisher of whatever   *)
(* release and nothing left behind ever replaces what the key holds.       *)
SettledObjectsStay ==
  [][\A k \in Keys : Settled(k) => bucket'[k] = bucket[k] /\ Settled(k)']_vars


(* Rerunning is enough: once requests stop failing and no process is       *)
(* killed, some run of the release passes, whatever its earlier runs have  *)
(* stored and whatever puts they left behind.                              *)
ReleasePublished ==
  <>[][\A p \in Publishers : ~RequestFails(p) /\ ~Killed(p)]_vars
    => <>(\E p \in Publishers : pub[p].outcome = "pass")

(* Turns or not, the metadata of an object records the SHA-256 of the      *)
(* bytes it is stored with.                                                *)
RecordedShaIsOfTheObject ==
  \A k \in Keys : bucket[k] # None => bucket[k].bytes = bucket[k].sha
=============================================================================
