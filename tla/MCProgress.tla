----------------------------- MODULE MCProgress -----------------------------
(***************************************************************************)
(* Every way a call waits.                                                 *)
(***************************************************************************)
EXTENDS Progress

MCAdaptors == {"stream", "fal", "videos", "images"}
=============================================================================
