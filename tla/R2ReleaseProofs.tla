--------------------------- MODULE R2ReleaseProofs ---------------------------
(***************************************************************************)
(* What publish_r2.py guarantees of the store, for any number of           *)
(* publishers, any uploads, releases and lengths, with publishers killed   *)
(* anywhere and the puts they leave behind stored at any time: first       *)
(* whatever the operators do, then while they take turns.                  *)
(***************************************************************************)
EXTENDS R2Release, TLAPS

(* An object stored with its own digest.                                   *)
Object(d) == [bytes |-> d, sha |-> d]

(* A publisher that runs works on the files of one release, and copies the *)
(* file that release lists.                                                *)
AtWork(p) ==
  pub[p].pc # "idle" =>
    /\ pub[p].release \in Releases
    /\ pub[p].next \in 1 .. Len(Order)
    /\ local[p] = DigestOf[pub[p].release]
    /\ pub[p].pc \in {"cp", "verify"} =>
         pub[p].want = DigestOf[pub[p].release][Key(p)]
    /\ pub[p].pc = "public" => pub[p].next = Len(Order)

Faithful == \A put \in late : put.object.bytes = put.object.sha

RecordInv ==
  /\ TypeOK
  /\ \A p \in Publishers : AtWork(p)
  /\ Faithful
  /\ RecordedShaIsOfTheObject

(* Nothing is replaced in a step.                                          *)
Kept == \A k \in Keys : bucket[k] # None => bucket'[k] = bucket[k]

-----------------------------------------------------------------------------
(***************************************************************************)
(* The manifest is the last key and is not among the others.               *)
(***************************************************************************)
LEMMA OrderFacts ==
  /\ Len(Order) = Len(Uploads) + 1
  /\ Len(Uploads) \in Nat
  /\ Order[Len(Order)] = ManifestKey
  /\ \A i \in 1 .. Len(Uploads) : Order[i] = Uploads[i]
  /\ \A i \in 1 .. Len(Order) : Order[i] \in Keys
  /\ \A k \in Keys : \E i \in 1 .. Len(Order) : Order[i] = k
  /\ ManifestKey \in Keys
<1>1. Uploads \in Seq(STRING) /\ ManifestKey \in STRING
  BY ReleaseAssumption
<1>2. /\ Len(Order) = Len(Uploads) + 1
      /\ Len(Uploads) \in Nat
      /\ Order[Len(Order)] = ManifestKey
      /\ \A i \in 1 .. Len(Uploads) : Order[i] = Uploads[i]
  <2> DEFINE S == STRING
  <2>1. Uploads \in Seq(S) /\ ManifestKey \in S
    BY <1>1
  <2> HIDE DEF S
  <2> QED
    BY <2>1 DEF Order
<1>3. /\ \A i \in 1 .. Len(Order) : Order[i] \in Keys
      /\ \A k \in Keys : \E i \in 1 .. Len(Order) : Order[i] = k
  BY DEF Keys
<1>4. Len(Order) \in 1 .. Len(Order)
  BY <1>2
<1> QED
  BY <1>2, <1>3, <1>4

LEMMA ManifestIsLast ==
  ASSUME NEW i \in 1 .. Len(Order), Order[i] = ManifestKey
  PROVE  i = Len(Order)
<1>1. Len(Order) \in 1 .. Len(Order) /\ Order[Len(Order)] = ManifestKey
  BY OrderFacts
<1>2. \A m, n \in 1 .. Len(Order) : Order[m] = Order[n] => m = n
  BY ReleaseAssumption
<1> QED
  BY <1>1, <1>2

LEMMA ManifestNamesRelease ==
  \A r, s \in Releases :
    DigestOf[r][ManifestKey] = DigestOf[s][ManifestKey] => r = s
BY ReleaseAssumption

-----------------------------------------------------------------------------
(***************************************************************************)
(* The publishers, whoever they are and however they end.                  *)
(***************************************************************************)
LEMMA Working ==
  ASSUME RecordInv, NEW p \in Publishers, pub[p].pc # "idle"
  PROVE  /\ pub[p] \in Publisher
         /\ pub[p].release \in Releases
         /\ pub[p].next \in 1 .. Len(Order)
         /\ local[p] = DigestOf[pub[p].release]
         /\ Key(p) \in Keys
         /\ DigestOf[pub[p].release][Key(p)] \in Digests
         /\ \A k \in Keys : Wanted(p, k) = DigestOf[pub[p].release][k]
<1>1. /\ pub[p] \in Publisher /\ pub[p].release \in Releases
      /\ pub[p].next \in 1 .. Len(Order)
      /\ local[p] = DigestOf[pub[p].release]
  BY DEF RecordInv, TypeOK, AtWork
<1>2. Key(p) \in Keys
  BY <1>1, OrderFacts DEF Key
<1>3. DigestOf[pub[p].release] \in [Keys -> Digests]
  BY <1>1, ReleaseAssumption
<1> QED
  BY <1>1, <1>2, <1>3 DEF Wanted

LEMMA Copies ==
  ASSUME RecordInv, NEW p \in Publishers, pub[p].pc = "cp"
  PROVE  /\ Copied(p) = Object(DigestOf[pub[p].release][Key(p)])
         /\ Copied(p) \in Stored
         /\ [key |-> Key(p), object |-> Copied(p)] \in Put
<1>1. pub[p].want = DigestOf[pub[p].release][Key(p)]
  BY DEF RecordInv, AtWork
<1>2. /\ local[p][Key(p)] = DigestOf[pub[p].release][Key(p)]
      /\ DigestOf[pub[p].release][Key(p)] \in Digests /\ Key(p) \in Keys
  BY Working
<1> QED
  BY <1>1, <1>2 DEF Copied, Object, Stored, Put

LEMMA LeftPuts ==
  ASSUME RecordInv, NEW p \in Publishers
  PROVE  /\ Left(p) \subseteq Put
         /\ \A put \in Left(p) : put.object.bytes = put.object.sha
<1>1. CASE pub[p].pc = "cp"
  <2>1. Left(p) = {[key |-> Key(p), object |-> Copied(p)]}
    BY <1>1 DEF Left
  <2>2. Copied(p).bytes = Copied(p).sha
    <3>1. Copied(p) = Object(DigestOf[pub[p].release][Key(p)])
      BY <1>1, Copies
    <3>2. \A d : Object(d).bytes = Object(d).sha
      BY DEF Object
    <3> QED
      BY <3>1, <3>2
  <2> QED
    BY <1>1, <2>1, <2>2, Copies
<1>2. CASE pub[p].pc # "cp"
  BY <1>2 DEF Left
<1> QED
  BY <1>1, <1>2

LEMMA Endings ==
  /\ Idle \in Publisher /\ Idle.pc = "idle" /\ Idle.outcome = "none"
  /\ \A o \in {"pass", "refused", "error"} :
       /\ Ended(o) \in Publisher /\ Ended(o).pc = "idle"
       /\ Ended(o).outcome = o
<1>1. Len(Order) \in Nat
  BY OrderFacts
<1>2. Idle \in Publisher
  BY <1>1 DEF Idle, Publisher
<1> QED
  BY <1>2 DEF Ended, Idle, Publisher

(* With its key behind it, it is at the next one or at the public check.   *)
LEMMA AdvancedAtWork ==
  ASSUME RecordInv, NEW p \in Publishers, pub[p].pc # "idle"
  PROVE  /\ Advanced(p) \in Publisher
         /\ Advanced(p).release = pub[p].release
         /\ Advanced(p).outcome = pub[p].outcome
         /\ Advanced(p).next \in 1 .. Len(Order)
         /\ \/ /\ Advanced(p).pc = "public" /\ Advanced(p).next = pub[p].next
               /\ pub[p].next = Len(Order)
            \/ Advanced(p).pc = "head" /\ Advanced(p).next = pub[p].next + 1
<1>1. /\ pub[p] \in Publisher /\ pub[p].next \in 1 .. Len(Order)
      /\ Len(Order) \in Nat
  BY Working, OrderFacts
<1>2. CASE pub[p].next = Len(Order)
  BY <1>1, <1>2 DEF Advanced, Publisher
<1>3. CASE pub[p].next # Len(Order)
  <2>1. pub[p].next + 1 \in 1 .. Len(Order) /\ pub[p].next + 1 \in 0 .. Len(Order)
    BY <1>1, <1>3
  <2> QED
    BY <1>1, <1>3, <2>1 DEF Advanced, Publisher
<1> QED
  BY <1>2, <1>3

(***************************************************************************)
(* The steps, by what they do to the publishers.  One publisher gets a new *)
(* record, which is one of a run that begins, goes on or ends.             *)
(***************************************************************************)
Moves(p, rec) ==
  /\ pub' = [pub EXCEPT ![p] = rec] /\ rec \in Publisher
  /\ UNCHANGED local

Begins(p) ==
  \E r \in Releases :
    /\ Moves(p, Begun(r)) /\ pub[p].pc = "idle" /\ local[p] = DigestOf[r]
    /\ late' = late
    /\ turns' = "taken" => InTurn(r)

GoesOn(p, rec) ==
  /\ Moves(p, rec) /\ pub[p].pc \notin {"idle", "public"}
  /\ rec.release = pub[p].release /\ rec.outcome = pub[p].outcome
  /\ rec.next \in 1 .. Len(Order)
  /\ rec.pc = "public" => rec.next = Len(Order)
  /\ rec.pc \in {"cp", "verify"} =>
       rec.next = pub[p].next /\ rec.want = DigestOf[pub[p].release][Key(p)]
  /\ \/ rec.pc # "public" /\ rec.next = pub[p].next
     \/ /\ Holds(Key(p), pub[p].release)
        /\ \/ rec.pc = "public" /\ rec.next = pub[p].next
           \/ rec.pc # "public" /\ rec.next = pub[p].next + 1

Ends(p) ==
  \E rec : /\ Moves(p, rec) /\ pub[p].pc # "idle" /\ rec.pc = "idle"
           /\ rec.outcome = "pass" => pub[p].pc = "public"

LEMMA Moved ==
  ASSUME TypeOK, NEW p \in Publishers, NEW rec, Moves(p, rec)
  PROVE  /\ pub'[p] = rec /\ local' = local
         /\ \A q \in Publishers : q # p => pub'[q] = pub[q]
         /\ pub' \in [Publishers -> Publisher]
BY DEF TypeOK, Moves

LEMMA StartBegins ==
  ASSUME RecordInv, NEW p \in Publishers, Start(p)
  PROVE  Begins(p)
<1>1. PICK r \in Releases :
        /\ Validated(p, r) /\ pub' = [pub EXCEPT ![p] = Begun(r)]
        /\ turns' = IF InTurn(r) THEN turns ELSE "broken"
  BY DEF Start
<1>2. 1 \in 0 .. Len(Order)
  BY OrderFacts
<1>3. Begun(r) \in Publisher
  BY <1>2 DEF Begun, Publisher
<1>4. turns' = "taken" => InTurn(r)
  BY <1>1
<1> QED
  BY <1>1, <1>3, <1>4 DEF Begins, Moves, Start, Validated

LEMMA AdvancingGoesOn ==
  ASSUME RecordInv, NEW p \in Publishers, pub[p].pc \notin {"idle", "public"},
         Holds(Key(p), pub[p].release),
         pub' = [pub EXCEPT ![p] = Advanced(p)], UNCHANGED local
  PROVE  GoesOn(p, Advanced(p))
BY AdvancedAtWork DEF GoesOn, Moves

LEMMA CachedGoesOn ==
  ASSUME RecordInv, NEW p \in Publishers, HeadCached(p)
  PROVE  GoesOn(p, Advanced(p))
<1>1. pub[p].pc \notin {"idle", "public"}
  BY DEF HeadCached
<1>2. Wanted(p, Key(p)) = DigestOf[pub[p].release][Key(p)]
  BY <1>1, Working
<1> QED
  BY <1>1, <1>2, AdvancingGoesOn DEF HeadCached, Matches, Holds

LEMMA VerifiedGoesOn ==
  ASSUME RecordInv, NEW p \in Publishers, Verify(p),
         pub' # [pub EXCEPT ![p] = Ended("refused")]
  PROVE  GoesOn(p, Advanced(p)) /\ pub' = [pub EXCEPT ![p] = Advanced(p)]
<1>1. pub[p].pc = "verify"
  BY DEF Verify
<1>2. pub[p].want = DigestOf[pub[p].release][Key(p)]
  BY <1>1 DEF RecordInv, AtWork
<1>3. Matches(bucket[Key(p)], pub[p].want) /\ pub' = [pub EXCEPT ![p] = Advanced(p)]
  BY DEF Verify
<1> QED
  BY <1>1, <1>2, <1>3, AdvancingGoesOn DEF Verify, Matches, Holds

LEMMA HeadMissingGoesOn ==
  ASSUME RecordInv, NEW p \in Publishers, HeadMissing(p)
  PROVE  \E rec : GoesOn(p, rec) /\ rec.pc = "cp" /\ rec.next = pub[p].next
<1> DEFINE want == Wanted(p, Key(p))
           rec == [pub[p] EXCEPT !.pc = "cp", !.want = want]
<1>1. /\ pub[p].pc \notin {"idle", "public"} /\ UNCHANGED local
      /\ pub' = [pub EXCEPT ![p] = rec]
  BY DEF HeadMissing
<1>2. /\ pub[p] \in Publisher /\ pub[p].next \in 1 .. Len(Order)
      /\ want = DigestOf[pub[p].release][Key(p)] /\ want \in Digests
  BY <1>1, Working
<1> HIDE DEF want
<1>3. /\ rec \in Publisher /\ rec.release = pub[p].release
      /\ rec.next = pub[p].next /\ rec.outcome = pub[p].outcome
      /\ rec.pc = "cp" /\ rec.want = want
  BY <1>2 DEF Publisher
<1> HIDE DEF rec
<1>4. GoesOn(p, rec)
  BY <1>1, <1>2, <1>3 DEF GoesOn, Moves
<1> QED
  BY <1>3, <1>4

LEMMA CopyGoesOn ==
  ASSUME RecordInv, NEW p \in Publishers, Copy(p)
  PROVE  \E rec : GoesOn(p, rec) /\ rec.pc = "verify" /\ rec.next = pub[p].next
<1> DEFINE rec == [pub[p] EXCEPT !.pc = "verify"]
<1>1. /\ pub[p].pc \notin {"idle", "public"} /\ UNCHANGED local
      /\ pub' = [pub EXCEPT ![p] = rec]
  BY DEF Copy
<1>2. /\ pub[p] \in Publisher /\ pub[p].next \in 1 .. Len(Order)
      /\ pub[p].want = DigestOf[pub[p].release][Key(p)]
  BY <1>1, Working DEF Copy, RecordInv, AtWork
<1>3. /\ rec \in Publisher /\ rec.release = pub[p].release
      /\ rec.next = pub[p].next /\ rec.outcome = pub[p].outcome
      /\ rec.pc = "verify" /\ rec.want = pub[p].want
  BY <1>2 DEF Publisher
<1> HIDE DEF rec
<1>4. GoesOn(p, rec)
  BY <1>1, <1>2, <1>3 DEF GoesOn, Moves
<1> QED
  BY <1>3, <1>4

LEMMA EndingEnds ==
  ASSUME RecordInv, NEW p \in Publishers,
         \/ HeadRefuses(p) \/ Public(p) \/ RequestFails(p) \/ Killed(p)
         \/ /\ pub[p].pc # "idle" /\ UNCHANGED local
            /\ pub' = [pub EXCEPT ![p] = Ended("refused")]
  PROVE  Ends(p)
<1>1. /\ pub[p].pc # "idle" /\ UNCHANGED local
      /\ \/ pub' = [pub EXCEPT ![p] = Idle]
         \/ pub' = [pub EXCEPT ![p] = Ended("refused")]
         \/ pub' = [pub EXCEPT ![p] = Ended("error")]
         \/ pub[p].pc = "public" /\ pub' = [pub EXCEPT ![p] = Ended("pass")]
  BY DEF HeadRefuses, Public, RequestFails, Killed
<1> QED
  BY <1>1, Endings DEF Ends, Moves

(***************************************************************************)
(* In a step a publisher begins, goes on or ends, or none moves.           *)
(***************************************************************************)
LEMMA PublisherSteps ==
  ASSUME RecordInv, [Next]_vars
  PROVE  \/ \E p \in Publishers : Begins(p) \/ (\E rec : GoesOn(p, rec)) \/ Ends(p)
         \/ /\ UNCHANGED pub
            /\ \A p \in Publishers : pub[p].pc # "idle" => local'[p] = local[p]
            /\ local' \in [Publishers -> [Keys -> Digests]]
<1>1. CASE UNCHANGED vars
  BY <1>1 DEF vars, RecordInv, TypeOK
<1>2. ASSUME NEW p \in Publishers, Start(p) PROVE Begins(p)
  BY <1>2, StartBegins
<1>3. ASSUME NEW p \in Publishers, HeadCached(p) PROVE \E rec : GoesOn(p, rec)
  BY <1>3, CachedGoesOn
<1>4. ASSUME NEW p \in Publishers, HeadMissing(p) PROVE \E rec : GoesOn(p, rec)
  BY <1>4, HeadMissingGoesOn
<1>5. ASSUME NEW p \in Publishers, Copy(p) PROVE \E rec : GoesOn(p, rec)
  BY <1>5, CopyGoesOn
<1>6. ASSUME NEW p \in Publishers, Verify(p)
      PROVE  (\E rec : GoesOn(p, rec)) \/ Ends(p)
  <2>1. CASE pub' # [pub EXCEPT ![p] = Ended("refused")]
    BY <1>6, <2>1, VerifiedGoesOn
  <2>2. CASE pub' = [pub EXCEPT ![p] = Ended("refused")]
    BY <1>6, <2>2, EndingEnds DEF Verify
  <2> QED
    BY <2>1, <2>2
<1>7. ASSUME NEW p \in Publishers,
             HeadRefuses(p) \/ Public(p) \/ RequestFails(p) \/ Killed(p)
      PROVE  Ends(p)
  BY <1>7, EndingEnds
<1>8. ASSUME NEW put \in late, LateStored(put) \/ LateLost(put)
      PROVE  UNCHANGED <<pub, local>> /\ local' \in [Publishers -> [Keys -> Digests]]
  BY <1>8 DEF LateStored, LateLost, RecordInv, TypeOK
<1>9. ASSUME NEW p \in Publishers, NEW k \in Keys, NEW r \in Releases,
             Edit(p, k, DigestOf[r][k])
      PROVE  /\ UNCHANGED pub
             /\ \A q \in Publishers : pub[q].pc # "idle" => local'[q] = local[q]
             /\ local' \in [Publishers -> [Keys -> Digests]]
  <2>1. DigestOf[r][k] \in Digests
    BY ReleaseAssumption
  <2> QED
    BY <1>9, <2>1 DEF Edit, RecordInv, TypeOK
<1> QED
  BY <1>1, <1>2, <1>3, <1>4, <1>5, <1>6, <1>7, <1>8, <1>9 DEF Next, Step

(***************************************************************************)
(* So every publisher stays at work on one release.                        *)
(***************************************************************************)
LEMMA AtWorkStep ==
  ASSUME RecordInv, [Next]_vars
  PROVE  /\ \A p \in Publishers : AtWork(p)'
         /\ pub' \in [Publishers -> Publisher]
         /\ local' \in [Publishers -> [Keys -> Digests]]
<1>0. TypeOK /\ 1 \in 1 .. Len(Order)
  BY OrderFacts DEF RecordInv
<1>1. ASSUME NEW p \in Publishers, NEW rec, Moves(p, rec),
             rec.pc # "idle" =>
               /\ rec.release \in Releases /\ rec.next \in 1 .. Len(Order)
               /\ local[p] = DigestOf[rec.release]
               /\ rec.pc \in {"cp", "verify"} =>
                    rec.want = DigestOf[rec.release][Order[rec.next]]
               /\ rec.pc = "public" => rec.next = Len(Order)
      PROVE  /\ \A q \in Publishers : AtWork(q)'
             /\ pub' \in [Publishers -> Publisher]
             /\ local' \in [Publishers -> [Keys -> Digests]]
  <2>1. AtWork(p)'
    BY <1>0, <1>1, Moved DEF AtWork, Key
  <2>2. ASSUME NEW q \in Publishers, q # p PROVE AtWork(q)'
    BY <1>0, <1>1, <2>2, Moved DEF AtWork, Key, RecordInv
  <2> QED
    BY <1>0, <1>1, <2>1, <2>2, Moved DEF TypeOK
<1>2. ASSUME NEW p \in Publishers, Begins(p)
      PROVE  /\ \A q \in Publishers : AtWork(q)'
             /\ pub' \in [Publishers -> Publisher]
             /\ local' \in [Publishers -> [Keys -> Digests]]
  <2>1. PICK r \in Releases : Moves(p, Begun(r)) /\ local[p] = DigestOf[r]
    BY <1>2 DEF Begins
  <2>2. Begun(r).pc = "head" /\ Begun(r).release = r /\ Begun(r).next = 1
    BY DEF Begun
  <2> QED
    BY <1>0, <1>1, <2>1, <2>2
<1>3. ASSUME NEW p \in Publishers, NEW rec, GoesOn(p, rec)
      PROVE  /\ \A q \in Publishers : AtWork(q)'
             /\ pub' \in [Publishers -> Publisher]
             /\ local' \in [Publishers -> [Keys -> Digests]]
  <2>1. /\ Moves(p, rec) /\ pub[p].pc # "idle"
        /\ rec.release = pub[p].release /\ rec.next \in 1 .. Len(Order)
        /\ rec.pc \in {"cp", "verify"} =>
             rec.next = pub[p].next /\ rec.want = DigestOf[pub[p].release][Key(p)]
        /\ rec.pc = "public" => rec.next = Len(Order)
    BY <1>3 DEF GoesOn
  <2>2. pub[p].release \in Releases /\ local[p] = DigestOf[pub[p].release]
    BY <2>1, Working
  <2> QED
    BY <1>1, <2>1, <2>2 DEF Key
<1>4. ASSUME NEW p \in Publishers, Ends(p)
      PROVE  /\ \A q \in Publishers : AtWork(q)'
             /\ pub' \in [Publishers -> Publisher]
             /\ local' \in [Publishers -> [Keys -> Digests]]
  <2>1. PICK rec : Moves(p, rec) /\ rec.pc = "idle"
    BY <1>4 DEF Ends
  <2> QED
    BY <1>1, <2>1
<1>5. CASE /\ UNCHANGED pub
           /\ \A p \in Publishers : pub[p].pc # "idle" => local'[p] = local[p]
           /\ local' \in [Publishers -> [Keys -> Digests]]
  BY <1>0, <1>5 DEF RecordInv, AtWork, Key, TypeOK
<1> QED
  BY <1>2, <1>3, <1>4, <1>5, PublisherSteps
-----------------------------------------------------------------------------
(***************************************************************************)
(* The steps, by what they do to the store: nothing, except that puts may  *)
(* go; a put under way is stored; or a copy over nothing begins.           *)
(***************************************************************************)
Shrinks == bucket' = bucket /\ UnderWay' \subseteq UnderWay

Stores ==
  /\ UnderWay' \subseteq UnderWay
  /\ \E put \in UnderWay : bucket' = [bucket EXCEPT ![put.key] = put.object]

NewPut(p) ==
  [key |-> Key(p), object |-> Object(DigestOf[pub[p].release][Key(p)])]

Copying(p) ==
  /\ bucket' = bucket /\ late' = late
  /\ pub[p].pc = "head" /\ bucket[Key(p)] = None
  /\ UnderWay' \subseteq UnderWay \cup {NewPut(p)}

LEMMA UnderWayPuts ==
  ASSUME RecordInv
  PROVE  /\ UnderWay \subseteq Put
         /\ \A put \in UnderWay :
              /\ put.key \in Keys /\ put.object \in Stored
              /\ put.object.bytes = put.object.sha
<1>1. \A p \in Publishers :
        /\ Left(p) \subseteq Put
        /\ \A put \in Left(p) : put.object.bytes = put.object.sha
  BY LeftPuts
<1>2. late \subseteq Put /\ \A put \in late : put.object.bytes = put.object.sha
  BY DEF RecordInv, TypeOK, Faithful
<1>3. UnderWay \subseteq Put /\ \A put \in UnderWay : put.object.bytes = put.object.sha
  BY <1>1, <1>2 DEF UnderWay
<1> QED
  BY <1>3 DEF Put

(* What is left by those whose record does not change stays as it was.     *)
LEMMA LeftUnchanged ==
  ASSUME NEW q, pub'[q] = pub[q], pub[q].pc = "cp" => local'[q] = local[q]
  PROVE  Left(q)' = Left(q)
<1>1. CASE pub[q].pc = "cp"
  BY <1>1 DEF Left, Copied, Key
<1>2. CASE pub[q].pc # "cp"
  BY <1>2 DEF Left
<1> QED
  BY <1>1, <1>2

LEMMA UnderWayBound ==
  ASSUME NEW S, late' \subseteq S, \A q \in Publishers : Left(q)' \subseteq S
  PROVE  UnderWay' \subseteq S
BY DEF UnderWay

LEMMA UnderWayHas ==
  /\ late \subseteq UnderWay
  /\ \A q \in Publishers : Left(q) \subseteq UnderWay
BY DEF UnderWay

(* A publisher whose new record copies nothing leaves no new put.          *)
LEMMA MovedLeaves ==
  ASSUME RecordInv, NEW p \in Publishers, NEW rec, Moves(p, rec), rec.pc # "cp",
         late' \subseteq UnderWay
  PROVE  UnderWay' \subseteq UnderWay
<1>1. TypeOK
  BY DEF RecordInv
<1>2. Left(p)' = {}
  BY <1>1, Moved DEF Left
<1>3. \A q \in Publishers : q # p => Left(q)' = Left(q)
  BY <1>1, Moved, LeftUnchanged
<1> QED
  BY <1>2, <1>3, UnderWayBound, UnderWayHas

LEMMA StoreSteps ==
  ASSUME RecordInv, [Next]_vars
  PROVE  Shrinks \/ Stores \/ \E p \in Publishers : HeadMissing(p) /\ Copying(p)
<1>0. TypeOK /\ late \subseteq UnderWay /\ \A q \in Publishers : Left(q) \subseteq UnderWay
  BY UnderWayHas DEF RecordInv
<1>1. CASE UNCHANGED vars
  <2>1. \A q \in Publishers : Left(q)' = Left(q)
    BY <1>1, LeftUnchanged DEF vars
  <2> QED
    BY <1>0, <1>1, <2>1, UnderWayBound DEF vars, Shrinks
<1>2. ASSUME NEW p \in Publishers, Start(p) PROVE Shrinks
  <2>1. PICK r \in Releases : Moves(p, Begun(r))
    BY <1>2, StartBegins DEF Begins
  <2>2. Begun(r).pc # "cp" /\ late' = late /\ bucket' = bucket
    BY <1>2 DEF Start, Begun
  <2> QED
    BY <1>0, <2>1, <2>2, MovedLeaves DEF Shrinks
<1>3. ASSUME NEW p \in Publishers, HeadCached(p) PROVE Shrinks
  <2>1. pub[p].pc # "idle" /\ late' = late /\ bucket' = bucket
    BY <1>3 DEF HeadCached
  <2>2. Moves(p, Advanced(p)) /\ Advanced(p).pc # "cp"
    BY <1>3, <2>1, CachedGoesOn, AdvancedAtWork DEF GoesOn
  <2> QED
    BY <1>0, <2>1, <2>2, MovedLeaves DEF Shrinks
<1>4. ASSUME NEW p \in Publishers, HeadMissing(p) PROVE Copying(p)
  <2>1. PICK rec : GoesOn(p, rec) /\ rec.pc = "cp" /\ rec.next = pub[p].next
    BY <1>4, HeadMissingGoesOn
  <2>2. /\ Moves(p, rec) /\ rec.release = pub[p].release
        /\ rec.want = DigestOf[pub[p].release][Key(p)]
    BY <2>1 DEF GoesOn
  <2>3. /\ late' = late /\ bucket' = bucket
        /\ pub[p].pc = "head" /\ bucket[Key(p)] = None
    BY <1>4 DEF HeadMissing
  <2>4. pub'[p] = rec /\ local'[p] = DigestOf[pub[p].release] /\ Key(p)' = Key(p)
    BY <1>0, <2>1, <2>2, <2>3, Moved, Working DEF Key
  <2>5. Left(p)' = {NewPut(p)}
    BY <2>1, <2>2, <2>4 DEF Left, Copied, NewPut, Object
  <2>6. \A q \in Publishers : q # p => Left(q)' = Left(q)
    BY <1>0, <2>2, Moved, LeftUnchanged
  <2> DEFINE S == UnderWay \cup {NewPut(p)}
  <2>7. late' \subseteq S /\ \A q \in Publishers : Left(q)' \subseteq S
    BY <1>0, <2>3, <2>5, <2>6
  <2>8. UnderWay' \subseteq S
    <3> HIDE DEF S
    <3> QED
      BY <2>7, UnderWayBound
  <2> QED
    BY <2>3, <2>8 DEF Copying
<1>5. ASSUME NEW p \in Publishers, Copy(p) PROVE Stores
  <2>1. PICK rec : GoesOn(p, rec) /\ rec.pc = "verify"
    BY <1>5, CopyGoesOn
  <2>2. UnderWay' \subseteq UnderWay
    BY <1>0, <1>5, <2>1, MovedLeaves DEF GoesOn, Copy
  <2> DEFINE put == [key |-> Key(p), object |-> Copied(p)]
  <2>3. put \in UnderWay
    BY <1>0, <1>5 DEF Copy, Left
  <2>4. bucket' = [bucket EXCEPT ![put.key] = put.object]
    BY <1>5 DEF Copy
  <2> HIDE DEF put
  <2> QED
    BY <2>2, <2>3, <2>4 DEF Stores
<1>6. ASSUME NEW p \in Publishers, Ends(p), bucket' = bucket,
             late' \subseteq UnderWay
      PROVE  Shrinks
  <2>1. PICK rec : Moves(p, rec) /\ rec.pc = "idle"
    BY <1>6 DEF Ends
  <2> QED
    BY <1>6, <2>1, MovedLeaves DEF Shrinks
<1>7. ASSUME NEW p \in Publishers, Verify(p) PROVE Shrinks
  <2>1. pub[p].pc # "idle" /\ late' = late /\ bucket' = bucket /\ UNCHANGED local
    BY <1>7 DEF Verify
  <2>2. CASE pub' # [pub EXCEPT ![p] = Ended("refused")]
    <3>1. Moves(p, Advanced(p)) /\ Advanced(p).pc # "cp"
      BY <1>7, <2>1, <2>2, VerifiedGoesOn, AdvancedAtWork DEF GoesOn
    <3> QED
      BY <1>0, <2>1, <3>1, MovedLeaves DEF Shrinks
  <2>3. CASE pub' = [pub EXCEPT ![p] = Ended("refused")]
    BY <1>0, <1>6, <2>1, <2>3, EndingEnds
  <2> QED
    BY <2>2, <2>3
<1>8. ASSUME NEW p \in Publishers,
             HeadRefuses(p) \/ Public(p) \/ RequestFails(p) \/ Killed(p)
      PROVE  Shrinks
  <2>1. bucket' = bucket /\ late' \subseteq late \cup Left(p)
    BY <1>8 DEF HeadRefuses, Public, RequestFails, Killed
  <2> QED
    BY <1>0, <1>6, <1>8, <2>1, EndingEnds
<1>9. ASSUME NEW put \in late, LateStored(put) \/ LateLost(put)
      PROVE  Shrinks \/ Stores
  <2>1. late' \subseteq late /\ UNCHANGED <<local, pub>>
    BY <1>9 DEF LateStored, LateLost
  <2>2. \A q \in Publishers : Left(q)' = Left(q)
    BY <2>1, LeftUnchanged
  <2>3. UnderWay' \subseteq UnderWay
    BY <1>0, <2>1, <2>2, UnderWayBound
  <2>4. \/ bucket' = bucket
        \/ bucket' = [bucket EXCEPT ![put.key] = put.object]
    BY <1>9 DEF LateStored, LateLost
  <2> QED
    BY <1>0, <2>3, <2>4 DEF Shrinks, Stores
<1>10. ASSUME NEW p \in Publishers, NEW k \in Keys, NEW r \in Releases,
              Edit(p, k, DigestOf[r][k])
       PROVE  Shrinks
  <2>1. /\ pub[p].pc = "idle" /\ UNCHANGED <<bucket, late, pub>>
        /\ \A q \in Publishers : q # p => local'[q] = local[q]
    BY <1>0, <1>10 DEF Edit, TypeOK
  <2>2. \A q \in Publishers : Left(q)' = Left(q)
    BY <2>1, LeftUnchanged
  <2> QED
    BY <1>0, <2>1, <2>2, UnderWayBound DEF Shrinks
<1> QED
  BY <1>1, <1>2, <1>3, <1>4, <1>5, <1>7, <1>8, <1>9, <1>10 DEF Next, Step

-----------------------------------------------------------------------------
(***************************************************************************)
(* The invariant that needs no turns.                                      *)
(***************************************************************************)
LEMMA LateStep ==
  ASSUME RecordInv, [Next]_vars
  PROVE  late' \subseteq UnderWay
<1>1. late \subseteq UnderWay /\ \A q \in Publishers : Left(q) \subseteq UnderWay
  BY UnderWayHas
<1>2. \/ late' \subseteq late
      \/ \E p \in Publishers : late' = late \cup Left(p)
  BY DEF Next, vars, Start, Step, HeadCached, HeadRefuses, HeadMissing, Copy,
         Verify, Public, RequestFails, Killed, LateStored, LateLost, Edit
<1> QED
  BY <1>1, <1>2

LEMMA RecordStep == RecordInv /\ [Next]_vars => RecordInv'
<1> SUFFICES ASSUME RecordInv, [Next]_vars PROVE RecordInv'
  OBVIOUS
<1>1. late' \subseteq Put /\ Faithful'
  BY LateStep, UnderWayPuts DEF Faithful
<1>2. /\ bucket' \in [Keys -> Stored \cup {None}]
      /\ RecordedShaIsOfTheObject'
  <2>1. \/ bucket' = bucket
        \/ \E put \in UnderWay : bucket' = [bucket EXCEPT ![put.key] = put.object]
    BY StoreSteps DEF Shrinks, Stores, Copying
  <2>2. /\ bucket \in [Keys -> Stored \cup {None}]
        /\ \A k \in Keys : bucket[k] # None => bucket[k].bytes = bucket[k].sha
    BY DEF RecordInv, TypeOK, RecordedShaIsOfTheObject
  <2> QED
    BY <2>1, <2>2, UnderWayPuts DEF RecordedShaIsOfTheObject
<1>3. turns' \in {"taken", "broken"}
  BY DEF RecordInv, TypeOK, Next, vars, Start, Step, HeadCached, HeadRefuses,
         HeadMissing, Copy, Verify, Public, RequestFails, Killed, LateStored,
         LateLost, Edit
<1> QED
  BY <1>1, <1>2, <1>3, AtWorkStep DEF RecordInv, TypeOK

LEMMA RecordInit == Init => RecordInv
<1> SUFFICES ASSUME Init PROVE RecordInv
  OBVIOUS
<1>1. TypeOK
  BY Endings, ReleaseAssumption DEF Init, TypeOK
<1>2. \A p \in Publishers : AtWork(p)
  BY Endings DEF Init, AtWork
<1> QED
  BY <1>1, <1>2 DEF Init, RecordInv, Faithful, RecordedShaIsOfTheObject

(***************************************************************************)
(* However many publishers of however many releases race, are killed or    *)
(* have puts stored late, the digest in an object's metadata is that of    *)
(* the bytes it is stored with: a replaced object is replaced whole.       *)
(***************************************************************************)
THEOREM RecordedSha == Spec => []RecordedShaIsOfTheObject
<1>1. RecordInv => RecordedShaIsOfTheObject
  BY DEF RecordInv
<1> QED
  BY <1>1, RecordInit, RecordStep, PTL DEF Spec

(* And every variable keeps its type.                                      *)
THEOREM PublishersTyped == Spec => []TypeOK
<1>1. RecordInv => TypeOK
  BY DEF RecordInv
<1> QED
  BY <1>1, RecordInit, RecordStep, PTL DEF Spec

(***************************************************************************)
(* An object no put of anything else is under way for is there for good,   *)
(* whoever publishes what afterwards and whoever is killed: this part of   *)
(* "refuses to replace" is the code's own, it does not depend on turns.    *)
(***************************************************************************)
LEMMA SettledStep ==
  ASSUME RecordInv, [Next]_vars, NEW k \in Keys, Settled(k)
  PROVE  bucket'[k] = bucket[k] /\ Settled(k)'
<1>1. /\ bucket[k] # None
      /\ \A put \in UnderWay : put.key = k => put.object = bucket[k]
      /\ bucket \in [Keys -> Stored \cup {None}]
  BY DEF Settled, RecordInv, TypeOK
<1>2. bucket'[k] = bucket[k]
  <2>1. \/ bucket' = bucket
        \/ \E put \in UnderWay : bucket' = [bucket EXCEPT ![put.key] = put.object]
    BY StoreSteps DEF Shrinks, Stores, Copying
  <2> QED
    BY <1>1, <2>1, UnderWayPuts
<1>3. \A put \in UnderWay' : put.key = k => put.object = bucket[k]
  <2>1. CASE UnderWay' \subseteq UnderWay
    BY <1>1, <2>1
  <2>2. CASE \E p \in Publishers : Copying(p)
    <3>1. PICK p \in Publishers : /\ bucket[Key(p)] = None
                                  /\ UnderWay' \subseteq UnderWay \cup {NewPut(p)}
      BY <2>2 DEF Copying
    <3>2. NewPut(p).key = Key(p)
      BY DEF NewPut
    <3> QED
      BY <1>1, <3>1, <3>2
  <2> QED
    BY <2>1, <2>2, StoreSteps DEF Shrinks, Stores
<1> QED
  BY <1>1, <1>2, <1>3 DEF Settled

THEOREM SettledStay == Spec => SettledObjectsStay
<1>1. RecordInv /\ [Next]_vars =>
        [\A k \in Keys : Settled(k) => bucket'[k] = bucket[k] /\ Settled(k)']_vars
  BY SettledStep
<1> QED
  BY <1>1, RecordInit, RecordStep, PTL DEF Spec, SettledObjectsStay
-----------------------------------------------------------------------------
(***************************************************************************)
(* While operators take turns: all that run publish one release, all that  *)
(* is under way is of it, over nothing or over itself, and a manifest that *)
(* is under way finds its objects stored.                                  *)
(***************************************************************************)
OneRelease ==
  \A p, q \in Publishers :
    pub[p].pc # "idle" /\ pub[q].pc # "idle" => pub[p].release = pub[q].release

LateOfTurn ==
  \A p \in Publishers : pub[p].pc # "idle" =>
    \A put \in late : put.object.sha = DigestOf[pub[p].release][put.key]

(* The keys a publisher has behind it, and what it found or put there.     *)
Behind(p) == IF pub[p].pc = "public" THEN pub[p].next ELSE pub[p].next - 1

BehindHeld(p) ==
  pub[p].pc # "idle" => \A j \in 1 .. Behind(p) : Holds(Order[j], pub[p].release)

OverNothing ==
  \A put \in UnderWay :
    bucket[put.key] # None => bucket[put.key] = put.object

Agreed ==
  \A a, b \in UnderWay : a.key = b.key => a.object = b.object

Announced(r) == \A i \in 1 .. Len(Uploads) : Holds(Uploads[i], r)

ManifestLast ==
  \A put \in UnderWay, r \in Releases :
    put.key = ManifestKey /\ put.object.sha = DigestOf[r][ManifestKey] =>
      Announced(r)

Complete == \A r \in Releases : Holds(ManifestKey, r) => Announced(r)

StoreOfTurn == OverNothing /\ Agreed /\ ManifestLast /\ Complete

Turn ==
  /\ OneRelease /\ LateOfTurn
  /\ \A p \in Publishers : BehindHeld(p)
  /\ StoreOfTurn

TurnInv == RecordInv /\ (turns = "taken" => Turn)

LEMMA AnnouncedKept ==
  ASSUME Kept, NEW r, Announced(r)
  PROVE  Announced(r)'
<1>1. \A i \in 1 .. Len(Uploads) : Uploads[i] \in Keys
  BY OrderFacts
<1> QED
  BY <1>1 DEF Kept, Announced, Holds

(* While turns are taken, all that is under way is of the release that is  *)
(* being published.                                                        *)
LEMMA UnderWayOfTurn ==
  ASSUME RecordInv, OneRelease, LateOfTurn,
         NEW p \in Publishers, pub[p].pc # "idle", NEW put \in UnderWay
  PROVE  /\ put.object.sha = DigestOf[pub[p].release][put.key]
         /\ put.object = Object(DigestOf[pub[p].release][put.key])
<1>1. put.object.sha = DigestOf[pub[p].release][put.key]
  <2>1. CASE put \in late
    BY <2>1 DEF LateOfTurn
  <2>2. CASE \E q \in Publishers : put \in Left(q)
    <3>1. PICK q \in Publishers : put \in Left(q)
      BY <2>2
    <3>2. pub[q].pc = "cp" /\ put = [key |-> Key(q), object |-> Copied(q)]
      BY <3>1 DEF Left
    <3>3. pub[q].release = pub[p].release
      BY <3>2 DEF OneRelease
    <3>4. Copied(q) = Object(DigestOf[pub[q].release][Key(q)])
      BY <3>2, Copies
    <3>5. \A d : Object(d).sha = d
      BY DEF Object
    <3> QED
      BY <3>2, <3>3, <3>4, <3>5
  <2> QED
    BY <2>1, <2>2 DEF UnderWay
<1>2. put.object \in Stored /\ put.object.bytes = put.object.sha
  BY UnderWayPuts
<1> QED
  BY <1>1, <1>2 DEF Object, Stored

(***************************************************************************)
(* What a step does to the store while turns are taken.                    *)
(***************************************************************************)
LEMMA ShrinkingKeeps ==
  ASSUME StoreOfTurn, Shrinks
  PROVE  Kept /\ StoreOfTurn'
<1>1. Kept
  BY DEF Shrinks, Kept
<1>2. \A r : Holds(ManifestKey, r)' = Holds(ManifestKey, r)
             /\ Announced(r)' = Announced(r)
  BY DEF Shrinks, Holds, Announced
<1>3. OverNothing' /\ Agreed'
  BY DEF Shrinks, StoreOfTurn, OverNothing, Agreed
<1>4. ManifestLast' /\ Complete'
  BY <1>2 DEF Shrinks, StoreOfTurn, ManifestLast, Complete
<1> QED
  BY <1>1, <1>3, <1>4 DEF StoreOfTurn

LEMMA StoringKeeps ==
  ASSUME RecordInv, StoreOfTurn, Stores
  PROVE  Kept /\ StoreOfTurn'
<1>1. PICK put \in UnderWay : bucket' = [bucket EXCEPT ![put.key] = put.object]
  BY DEF Stores
<1>2. /\ UnderWay' \subseteq UnderWay
      /\ put.key \in Keys
      /\ bucket \in [Keys -> Stored \cup {None}]
      /\ \A other \in UnderWay : other.key \in Keys
  BY UnderWayPuts DEF Stores, RecordInv, TypeOK
<1>3. /\ bucket'[put.key] = put.object
      /\ \A k \in Keys : k # put.key => bucket'[k] = bucket[k]
  BY <1>1, <1>2
<1>4. Kept
  BY <1>3 DEF Kept, StoreOfTurn, OverNothing
<1>5. OverNothing'
  BY <1>2, <1>3 DEF StoreOfTurn, OverNothing, Agreed
<1>6. Agreed'
  BY <1>2 DEF StoreOfTurn, Agreed
<1>7. ManifestLast'
  BY <1>2, <1>4, AnnouncedKept DEF StoreOfTurn, ManifestLast
<1>8. ASSUME NEW r \in Releases, Holds(ManifestKey, r)' PROVE Announced(r)'
  <2>1. CASE put.key = ManifestKey
    BY <1>3, <1>4, <1>8, <2>1, AnnouncedKept DEF Holds, StoreOfTurn, ManifestLast
  <2>2. CASE put.key # ManifestKey
    BY <1>3, <1>4, <1>8, <2>2, AnnouncedKept, OrderFacts
       DEF Holds, StoreOfTurn, Complete
  <2> QED
    BY <2>1, <2>2
<1> QED
  BY <1>4, <1>5, <1>6, <1>7, <1>8 DEF StoreOfTurn, Complete

LEMMA CopyingKeeps ==
  ASSUME RecordInv, Turn, NEW p \in Publishers, Copying(p)
  PROVE  Kept /\ StoreOfTurn'
<1>1. /\ bucket' = bucket /\ pub[p].pc = "head" /\ bucket[Key(p)] = None
      /\ UnderWay' \subseteq UnderWay \cup {NewPut(p)}
  BY DEF Copying
<1> DEFINE r == pub[p].release
           d == DigestOf[r][Key(p)]
<1>2. /\ r \in Releases /\ pub[p].next \in 1 .. Len(Order)
      /\ \A put \in UnderWay : put.object = Object(DigestOf[r][put.key])
  BY <1>1, Working, UnderWayOfTurn DEF Turn
<1>3. /\ NewPut(p).key = Key(p) /\ NewPut(p).object = Object(d)
      /\ NewPut(p).object.sha = d
  BY DEF NewPut, Object
<1>4. Kept /\ \A s : Announced(s)' = Announced(s)
  BY <1>1 DEF Kept, Announced, Holds
<1>5. OverNothing'
  BY <1>1, <1>3 DEF Turn, StoreOfTurn, OverNothing
<1>6. Agreed'
  BY <1>1, <1>2, <1>3 DEF Turn, StoreOfTurn, Agreed
<1>7. ASSUME Key(p) = ManifestKey, NEW s \in Releases, d = DigestOf[s][ManifestKey]
      PROVE  Announced(s)
  <2>1. s = r
    BY <1>2, <1>7, ManifestNamesRelease
  <2>2. pub[p].next = Len(Order)
    BY <1>2, <1>7, ManifestIsLast DEF Key
  <2>3. Behind(p) = Len(Uploads)
    BY <1>1, <2>2, OrderFacts DEF Behind
  <2>4. \A j \in 1 .. Len(Uploads) : Holds(Order[j], r)
    BY <1>1, <2>3 DEF Turn, BehindHeld
  <2> QED
    BY <2>1, <2>4, OrderFacts DEF Announced
<1>8. ManifestLast'
  BY <1>1, <1>3, <1>4, <1>7 DEF Turn, StoreOfTurn, ManifestLast
<1>9. Complete'
  BY <1>1, <1>4 DEF Turn, StoreOfTurn, Complete, Holds
<1> QED
  BY <1>4, <1>5, <1>6, <1>8, <1>9 DEF StoreOfTurn

LEMMA StoreStep ==
  ASSUME RecordInv, Turn, [Next]_vars
  PROVE  Kept /\ StoreOfTurn'
BY StoreSteps, ShrinkingKeeps, StoringKeeps, CopyingKeeps DEF Turn

(***************************************************************************)
(* What it does to the publishers.                                         *)
(***************************************************************************)
LEMMA PublishersStep ==
  ASSUME RecordInv, Turn, [Next]_vars, turns' = "taken"
  PROVE  /\ OneRelease' /\ LateOfTurn'
         /\ \A p \in Publishers : BehindHeld(p)'
<1>0. /\ TypeOK /\ Kept /\ late' \subseteq UnderWay
      /\ OneRelease /\ LateOfTurn /\ \A p \in Publishers : BehindHeld(p)
  BY StoreStep, LateStep DEF RecordInv, Turn
<1>1. \A k \in Keys : \A r : Holds(k, r) => Holds(k, r)'
  BY <1>0 DEF Kept, Holds
<1>2. ASSUME NEW q \in Publishers, pub[q].pc # "idle",
             pub'[q] = pub[q]
      PROVE  BehindHeld(q)'
  <2>1. Behind(q)' = Behind(q) /\ Behind(q) <= Len(Order) /\ Behind(q) \in Int
    BY <1>2, Working, OrderFacts DEF Behind
  <2>2. \A j \in 1 .. Behind(q) : Order[j] \in Keys
    BY <2>1, OrderFacts
  <2> QED
    BY <1>0, <1>1, <1>2, <2>1, <2>2 DEF BehindHeld
<1>3. ASSUME NEW q \in Publishers, pub[q].pc # "idle", NEW put \in late'
      PROVE  put.object.sha = DigestOf[pub[q].release][put.key]
  BY <1>0, <1>3, UnderWayOfTurn
<1>4. ASSUME NEW p \in Publishers, Begins(p)
      PROVE  /\ OneRelease' /\ LateOfTurn'
             /\ \A q \in Publishers : BehindHeld(q)'
  <2>1. PICK r \in Releases :
          Moves(p, Begun(r)) /\ pub[p].pc = "idle" /\ late' = late /\ InTurn(r)
    BY <1>4 DEF Begins
  <2>2. Begun(r).pc = "head" /\ Begun(r).release = r /\ Begun(r).next = 1
    BY DEF Begun
  <2>3. pub'[p] = Begun(r) /\ \A q \in Publishers : q # p => pub'[q] = pub[q]
    BY <1>0, <2>1, Moved
  <2>4. \A q \in Publishers : pub'[q].pc # "idle" => pub'[q].release = r
    BY <2>1, <2>2, <2>3 DEF InTurn
  <2>5. OneRelease'
    BY <2>4 DEF OneRelease
  <2>6. LateOfTurn'
    BY <2>1, <2>4 DEF InTurn, LateOfTurn
  <2>7. BehindHeld(p)'
    BY <2>2, <2>3 DEF BehindHeld, Behind
  <2>8. \A q \in Publishers : q # p => BehindHeld(q)'
    BY <1>2, <2>3 DEF BehindHeld
  <2> QED
    BY <2>5, <2>6, <2>7, <2>8
<1>5. ASSUME NEW p \in Publishers, NEW rec, GoesOn(p, rec)
      PROVE  /\ OneRelease' /\ LateOfTurn'
             /\ \A q \in Publishers : BehindHeld(q)'
  <2>1. /\ Moves(p, rec) /\ pub[p].pc \notin {"idle", "public"}
        /\ rec.release = pub[p].release
    BY <1>5 DEF GoesOn
  <2>2. pub'[p] = rec /\ \A q \in Publishers : q # p => pub'[q] = pub[q]
    BY <1>0, <2>1, Moved
  <2>3. \A q \in Publishers : pub'[q].pc # "idle" =>
          pub[q].pc # "idle" /\ pub'[q].release = pub[q].release
    BY <2>1, <2>2
  <2>4. OneRelease'
    BY <1>0, <2>3 DEF OneRelease
  <2>5. LateOfTurn'
    BY <1>3, <2>3 DEF LateOfTurn
  <2>6. BehindHeld(p)'
    <3>0. PICK r, n : r = pub[p].release /\ r = pub'[p].release /\ n = pub[p].next
      BY <2>1, <2>2
    <3>1. n \in 1 .. Len(Order) /\ Len(Order) \in Nat /\ Order[n] = Key(p)
      BY <2>1, <3>0, Working, OrderFacts DEF Key
    <3>2. ASSUME NEW j \in 1 .. n - 1 PROVE Holds(Order[j], r)'
      <4>1. Behind(p) = n - 1
        BY <2>1, <3>0 DEF Behind
      <4>2. \A i \in 1 .. n - 1 : Holds(Order[i], pub[p].release)
        BY <1>0, <2>1, <4>1 DEF BehindHeld
      <4>3. Holds(Order[j], r)
        BY <3>0, <4>2
      <4>4. j \in 1 .. Len(Order)
        BY <3>1
      <4>5. Order[j] \in Keys
        BY <4>4, OrderFacts
      <4> QED
        BY <1>1, <4>3, <4>5
    <3>3. CASE rec.pc # "public" /\ rec.next = pub[p].next
      <4>1. Behind(p)' = n - 1
        BY <2>2, <3>0, <3>3 DEF Behind
      <4> QED
        BY <3>0, <3>2, <4>1 DEF BehindHeld
    <3>4. CASE /\ Holds(Key(p), pub[p].release)
               /\ \/ rec.pc = "public" /\ rec.next = pub[p].next
                  \/ rec.pc # "public" /\ rec.next = pub[p].next + 1
      <4>1. Holds(Order[n], r)'
        <5>1. Holds(Order[n], r) /\ Order[n] \in Keys
          BY <3>0, <3>1, <3>4, OrderFacts
        <5> QED
          BY <1>1, <5>1
      <4>2. ASSUME NEW j \in 1 .. n PROVE Holds(Order[j], r)'
        <5>1. j \in 1 .. n - 1 \/ j = n
          BY <3>1
        <5> QED
          BY <3>2, <4>1, <5>1
      <4>3. Behind(p)' = n
        BY <2>2, <3>0, <3>1, <3>4 DEF Behind
      <4> QED
        BY <3>0, <4>2, <4>3 DEF BehindHeld
    <3> QED
      BY <1>5, <3>3, <3>4 DEF GoesOn
  <2>7. \A q \in Publishers : q # p => BehindHeld(q)'
    BY <1>2, <2>2 DEF BehindHeld
  <2> QED
    BY <2>4, <2>5, <2>6, <2>7
<1>6. ASSUME \A q \in Publishers : pub'[q].pc # "idle" =>
               pub[q].pc # "idle" /\ pub'[q] = pub[q]
      PROVE  /\ OneRelease' /\ LateOfTurn'
             /\ \A q \in Publishers : BehindHeld(q)'
  <2>1. OneRelease'
    BY <1>0, <1>6 DEF OneRelease
  <2>2. LateOfTurn'
    BY <1>3, <1>6 DEF LateOfTurn
  <2>3. \A q \in Publishers : BehindHeld(q)'
    BY <1>2, <1>6 DEF BehindHeld
  <2> QED
    BY <2>1, <2>2, <2>3
<1>7. ASSUME NEW p \in Publishers, Ends(p)
      PROVE  \A q \in Publishers : pub'[q].pc # "idle" =>
               pub[q].pc # "idle" /\ pub'[q] = pub[q]
  BY <1>0, <1>7, Moved DEF Ends
<1> QED
  BY <1>4, <1>5, <1>6, <1>7, PublisherSteps

LEMMA StillTaken ==
  ASSUME [Next]_vars, turns' = "taken"
  PROVE  turns = "taken"
BY DEF Next, vars, Start, Step, HeadCached, HeadRefuses, HeadMissing, Copy,
       Verify, Public, RequestFails, Killed, LateStored, LateLost, Edit

LEMMA TurnInit == Init => TurnInv
<1> SUFFICES ASSUME Init PROVE TurnInv
  OBVIOUS
<1>1. \A p \in Publishers : pub[p].pc = "idle"
  BY Endings DEF Init
<1>2. UnderWay = {} /\ late = {} /\ \A k \in Keys : bucket[k] = None
  BY <1>1 DEF Init, UnderWay, Left
<1>3. \A r : ~Holds(ManifestKey, r)
  BY <1>2, OrderFacts DEF Holds
<1> QED
  BY <1>1, <1>2, <1>3, RecordInit
     DEF TurnInv, Turn, OneRelease, LateOfTurn, BehindHeld, StoreOfTurn,
         OverNothing, Agreed, ManifestLast, Complete

LEMMA TurnStep == TurnInv /\ [Next]_vars => TurnInv'
<1> SUFFICES ASSUME TurnInv, [Next]_vars PROVE TurnInv'
  OBVIOUS
<1>1. RecordInv'
  BY RecordStep DEF TurnInv
<1>2. turns' = "taken" => Turn'
  BY StillTaken, StoreStep, PublishersStep DEF TurnInv, Turn
<1> QED
  BY <1>1, <1>2 DEF TurnInv

(***************************************************************************)
(* While operators take turns, nobody finds a release's manifest before    *)
(* all the objects it lists, whatever other releases were published or     *)
(* abandoned under the same prefix, and whatever puts of killed runs are   *)
(* stored when.                                                            *)
(***************************************************************************)
THEOREM ManifestComplete == Spec => []ManifestIsComplete
<1>1. TurnInv => ManifestIsComplete
  BY DEF TurnInv, Turn, StoreOfTurn, Complete, Announced, ManifestIsComplete
<1> QED
  BY <1>1, TurnInit, TurnStep, PTL DEF Spec

(***************************************************************************)
(* And nothing replaces what the store holds under a key.                  *)
(***************************************************************************)
THEOREM TurnsKeep == Spec => TurnsKeepObjects
<1>1. TurnInv /\ [Next]_vars =>
        [turns = "taken" =>
           \A k \in Keys : bucket[k] # None => bucket'[k] = bucket[k]]_vars
  BY StoreStep DEF TurnInv, Kept
<1> QED
  BY <1>1, TurnInit, TurnStep, PTL DEF Spec, TurnsKeepObjects

(***************************************************************************)
(* And a run that reports "pass" left the whole release behind it,         *)
(* although its last check looks only at sizes.                            *)
(***************************************************************************)
LEMMA PassOnlyFromPublic ==
  ASSUME RecordInv, [Next]_vars, NEW p \in Publishers,
         pub'[p].outcome = "pass", pub[p].outcome # "pass"
  PROVE  pub[p].pc = "public"
<1>0. TypeOK
  BY DEF RecordInv
<1>1. ASSUME NEW q \in Publishers, Begins(q) PROVE FALSE
  <2>1. PICK r : Moves(q, Begun(r))
    BY <1>1 DEF Begins
  <2>2. Begun(r).outcome = "none"
    BY DEF Begun
  <2> QED
    BY <1>0, <2>1, <2>2, Moved
<1>2. ASSUME NEW q \in Publishers, NEW rec, GoesOn(q, rec) PROVE FALSE
  BY <1>0, <1>2, Moved DEF GoesOn
<1>3. ASSUME NEW q \in Publishers, Ends(q) PROVE pub[p].pc = "public"
  BY <1>0, <1>3, Moved DEF Ends
<1> QED
  BY <1>1, <1>2, <1>3, PublisherSteps

THEOREM Published == Spec => PassMeansPublished
<1>1. ASSUME TurnInv, [Next]_vars, turns = "taken", NEW p \in Publishers,
             pub'[p].outcome = "pass", pub[p].outcome # "pass"
      PROVE  \A k \in Keys : Holds(k, pub[p].release)
  <2>1. pub[p].pc = "public"
    BY <1>1, PassOnlyFromPublic DEF TurnInv
  <2>2. pub[p].next = Len(Order) /\ BehindHeld(p)
    BY <1>1, <2>1 DEF TurnInv, RecordInv, AtWork, Turn
  <2>3. \A j \in 1 .. Len(Order) : Holds(Order[j], pub[p].release)
    BY <2>1, <2>2 DEF BehindHeld, Behind
  <2> QED
    BY <2>3, OrderFacts
<1>2. TurnInv /\ [Next]_vars =>
        [turns = "taken" =>
           \A p \in Publishers :
             pub'[p].outcome = "pass" /\ pub[p].outcome # "pass" =>
               \A k \in Keys : Holds(k, pub[p].release)]_vars
  BY <1>1
<1> QED
  BY <1>2, TurnInit, TurnStep, PTL DEF Spec, PassMeansPublished
=============================================================================
