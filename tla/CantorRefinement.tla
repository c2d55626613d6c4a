-------------------------- MODULE CantorRefinement --------------------------
(***************************************************************************)
(* CantorEngine implements SongService.  A saved boundary maps to the part *)
(* of a song it stands for, provided that its contents are those of an     *)
(* uninterrupted run; contents that are not map to a part of no song, so   *)
(* that a step which saves them is a step of nothing in the service.       *)
(***************************************************************************)
EXTENDS CantorEngine

\* The mix a result belongs to: None if the contents are no mix's.
MixOf(comps, exact) == IF exact THEN comps ELSE None

SavedCodes ==
  LET b == store["COD"]
  IN  IF b = None THEN None
      ELSE [mix |-> MixOf(b.comps, b.codes = RefCodes(b.comps, b.req, Len(b.codes))),
            song |-> b.req, frames |-> Len(b.codes)]

SavedConditions ==
  LET b == store["CON"]
  IN  IF b = None THEN None
      ELSE [mix |-> MixOf(b.comps, b.conditions = RefConditions(b.comps, b.req)),
            song |-> b.req]

SavedFlow ==
  LET b == store["FLW"]
      r == b.source.req
  IN  IF b = None THEN None
      ELSE [mix |-> MixOf(b.comps,
              /\ b.completed = RefLatents(b.comps, r, b.first)
              /\ b.active = RefEuler(b.comps, r, b.first + 1, b.second)),
            song |-> r, windows |-> b.first, steps |-> b.second]

SavedLatents ==
  LET b == store["LAT"]
      r == b.source.req
  IN  IF b = None THEN None
      ELSE [mix |-> MixOf(b.comps,
              b.completed = RefLatents(b.comps, r, Len(b.source.conditions))),
            song |-> r]

HandedOut ==
  IF ctx = None THEN None
  ELSE IF ctx.audio = None THEN None
  ELSE [mix |-> MixOf(ctx.identities,
          ctx.audio.pieces = RefSong(ctx.identities, ctx.audio.req)),
        song |-> ctx.audio.req]

RefWindows(c, r) == WindowCount(RefGenerated(c, r))
RefSteps(r) == EulerSteps[r]

Service == INSTANCE SongService WITH
  Mixes <- Components, Songs <- Requests, Nothing <- None,
  Frames <- RefLength, Windows <- RefWindows, Steps <- RefSteps,
  codes <- SavedCodes, conditions <- SavedConditions,
  diffusing <- SavedFlow, latents <- SavedLatents, audio <- HandedOut

(***************************************************************************)
(* Every step of the engine is a step of the service, or changes nothing a *)
(* host can see: results appear whole, each made of an earlier result of   *)
(* the same song and the same mix, and a song is only handed out while the *)
(* latents it was made of are in hand.                                     *)
(***************************************************************************)
ImplementsSongService == Service!Spec
=============================================================================
