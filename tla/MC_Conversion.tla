--------------------------- MODULE MC_Conversion ---------------------------
(***************************************************************************)
(* Two artifacts and two sidecars: a run may stop before, between and      *)
(* after them, and an artifact may be asked for alone or with the other.   *)
(***************************************************************************)
EXTENDS Conversion

TwoArtifacts == <<"lm-BF16", "vae-F16">>
TwoSidecars == <<"config.json", "MODEL_LICENSE">>
=============================================================================
