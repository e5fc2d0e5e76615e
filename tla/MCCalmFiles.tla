----------------------------- MODULE MCCalmFiles -----------------------------
(* The instances of MCSourceFiles, with the history of CalmFiles.           *)
EXTENDS CalmFiles, MCSourceFiles
=============================================================================
