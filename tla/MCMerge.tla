------------------------------ MODULE MCMerge -------------------------------
(* Two devices that share a note: MCMerge.cfg, MCMergeRace.cfg             *)
EXTENDS Merge
=============================================================================
