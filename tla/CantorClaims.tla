---------------------------- MODULE CantorClaims ----------------------------
(***************************************************************************)
(* A sentence of docs/cantor.md about the engine that its code does not    *)
(* keep.  It is violated by a short run of CantorEngine.                   *)
(***************************************************************************)
EXTENDS CantorEngine

(***************************************************************************)
(* "every durable boundary carries all five SHA-256 values, so a state     *)
(* cannot silently resume against a different quantization mix": a saved   *)
(* prefix of codes was computed by the mix it names.  The digests are      *)
(* computed once per context, but the second and every later runtime of a  *)
(* module reads its file again, so files replaced under a live context are *)
(* used under the old digests.                                             *)
(***************************************************************************)
StatesAreOfOneMix ==
  store["COD"] # None =>
    \A i \in 1 .. Len(store["COD"].codes) :
      store["COD"].codes[i].comps = store["COD"].comps
=============================================================================
