------------------------- MODULE MC_CantorLiveness -------------------------
(***************************************************************************)
(* One request and one mix, a song of two windows with two Euler steps.    *)
(***************************************************************************)
EXTENDS CantorLiveness

CONSTANTS q4, song

LiveTarget == [r \in Requests |-> 3]
LiveEos == [c \in Components |-> [r \in Requests |-> 9]]
LiveSteps == [r \in Requests |-> 2]
=============================================================================
