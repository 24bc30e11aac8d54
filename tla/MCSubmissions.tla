---------------------------- MODULE MCSubmissions -----------------------------
(***************************************************************************)
(* Two goals, submitted in either way.                                     *)
(***************************************************************************)
EXTENDS MCOrchestrator, Submissions
=============================================================================
