---------------------------- MODULE MC_Snapshot ----------------------------
(***************************************************************************)
(* A metadata file of one unit and two payloads of two, so that a .part    *)
(* may be empty, partial and complete, for a pool of two jobs.             *)
(***************************************************************************)
EXTENDS Snapshot

Units == [f \in Files |-> IF f \in Weights THEN 2 ELSE 1]
=============================================================================
