---------------------------- MODULE MC_WindowLoop ----------------------------
(***************************************************************************)
(* The real geometry, for every length around the single-window limit and  *)
(* the first hops, and for the lengths the tests and the documents name.   *)
(***************************************************************************)
EXTENDS WindowLoop

MCFrameCounts ==
  1 .. 450 \cup {750, 7399, 7400, 7401, 7499, 7500, 8999, 9000}
=============================================================================
