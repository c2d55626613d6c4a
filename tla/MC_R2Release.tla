---------------------------- MODULE MC_R2Release ----------------------------
(***************************************************************************)
(* An object that differs between two releases and has the same length in  *)
(* both, one that they share, and the manifest.                            *)
(***************************************************************************)
EXTENDS R2Release

TwoUploads == <<"lm", "vae">>
OldRelease == [k \in Keys |-> IF k = "vae" THEN "shared" ELSE k \o "-old"]
NewRelease == [k \in Keys |-> IF k = "vae" THEN "shared" ELSE k \o "-new"]
Builds == {"shared"} \cup
          { n \o b : n \in {"lm", "manifest.json"}, b \in {"-old", "-new"} }
Release == [r \in Releases |-> IF r = "old" THEN OldRelease ELSE NewRelease]
Lengths == [d \in Builds |-> IF d = "manifest.json-new" THEN 2 ELSE 1]
=============================================================================
