----------------------------- MODULE MCPipeline -----------------------------
(***************************************************************************)
(* Pipeline for TLC: one revision allowed, one screen thread, one shell.   *)
(***************************************************************************)
EXTENDS Pipeline
=============================================================================
