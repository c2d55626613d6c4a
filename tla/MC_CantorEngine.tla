-------------------------- MODULE MC_CantorEngine --------------------------
(***************************************************************************)
(* Small instances of CantorEngine.  Windows of two frames, one every      *)
(* frame, keep every case: a song of several windows (a target of three    *)
(* frames is two windows), one of a single window (audio end is sampled    *)
(* early, or the request is short), and one that is empty.                 *)
(***************************************************************************)
EXTENDS CantorRefinement, CantorClaims

CONSTANTS q4, q8, bf16, song, jingle

\* One request, three mixes: two windows, one window, no sound at all.
MixesTarget == [r \in Requests |-> 3]
MixesEos == [c \in Components |->
              [r \in Requests |-> IF c = q4 THEN 5
                             ELSE IF c = q8 THEN 2 ELSE 1]]

\* Two requests, one mix: two windows, one window.
RequestsTarget == [r \in Requests |-> IF r = song THEN 3 ELSE 1]
LateEos == [c \in Components |-> [r \in Requests |-> 9]]

TwoSteps == [r \in Requests |-> 2]
OneStep == [r \in Requests |-> 1]
=============================================================================
